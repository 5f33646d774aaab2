---------------------------- MODULE ConsoleProofs ----------------------------
(***************************************************************************)
(* Theorems about Console, for any projects, tabs, lists and resources.    *)
(***************************************************************************)
EXTENDS Console, FiniteSetTheorems, TLAPS

------------------------------------------------------------------------------
(* The inductive invariant. *)

TableRows == UNION {Panels[n] : n \in DOMAIN Panels}

Lists ==
  {"deployments", "projects", "keys", "gateways", "routes", "gatewayKeys", "buckets", "invoices",
   "usage", "vms", "secrets", "opsSecrets", "lbs", "dbs", "backups", "monitoring"}

Handler ==
  [row : TableRows, id : Ids, key : Keys, was : Ids \cup {None},
   phase : {"asked", "done", "after"}, stamp : Nat, rest : Seq(Lists), on : Keys \cup {None}]

Covers(rest, list) == \E n \in DOMAIN rest : rest[n] = list

\* The types the other parts rely on.
Typed ==
  /\ project \in Projects
  /\ server \in [Ids -> Resource \cup {None}]
  /\ entry \in [Keys -> {"none", "sent", "read", "kept"}]
  /\ DOMAIN cache = Keys /\ DOMAIN reading = Keys
  /\ mine \in [Ids -> Nat]
  /\ revealed \in [Watched -> Ids \cup {None}]
  /\ acting \subseteq Handler

\* One handler, and the busy flag with it.
Alone == (\A a, b \in acting : a = b) /\ busy = (acting # {})

\* A list holds resources of its key only, and these stay resources of this key.
Sorted ==
  \A k \in Keys : \A r \in cache[k] \cup reading[k] :
    r.id \in Ids /\ server[r.id] \in Resource /\ server[r.id].key = k

\* A handler is about a resource of its key, knows what is revealed, and has its
\* list still to fetch when the call is confirmed.
Informed ==
  \A a \in acting :
    /\ a.row.list \in Watched
    /\ a.row.act # "create" \/ a.phase # "asked" =>
         server[a.id] \in Resource /\ server[a.id].key = a.key
    /\ a.phase # "asked" => a.stamp <= server[a.id].stamp
    /\ a.phase # "after" =>
         /\ a.was = revealed[a.row.list]
         /\ a.row.act # "reveal" => Covers(a.rest, a.row.list)

\* What was confirmed is not ahead of the control plane.
Confirmed ==
  \A i \in Ids : mine[i] > 0 => server[i] \in Resource /\ mine[i] <= server[i].stamp

\* A handler has yet to fetch the list of key k for a change of i.
Owed(k, i) ==
  \E a \in acting :
    a.phase = "after" /\ a.id = i /\ a.key = k /\ Covers(a.rest, a.row.list)

Fresh(data, i) ==
  \/ \E r \in data : r.id = i /\ r.stamp >= mine[i]
  \/ server[i].status = "gone" /\ \A r \in data : r.id # i

\* The next answer of a key will show what was confirmed, or the last one does.
OnTheWay ==
  \A k \in Keys, i \in Ids : mine[i] > 0 /\ server[i].key = k =>
    \/ k \in missed \/ Owed(k, i)
    \/ entry[k] = "sent"
    \/ entry[k] = "read" /\ Fresh(reading[k], i)
    \/ entry[k] \in {"none", "kept"} /\ (k \in failed \/ Fresh(cache[k], i))

\* Where the user is heading: the last address pushed.
Bound ==
  /\ going \in Seq(Visited \cup {None})
  /\ LET last == IF going = <<>> THEN url ELSE going[Len(going)] IN
     last # None /\ last = url => tab = url

Data == Typed /\ Alone /\ Sorted /\ Informed /\ Confirmed /\ OnTheWay

IInv == Data /\ Bound

------------------------------------------------------------------------------
(* The table of handlers. *)

\* What is fetched after a call.
Fetches ==
  {<<>>, <<"deployments">>, <<"deployments", "monitoring">>, <<"projects">>, <<"keys">>,
   <<"gateways">>, <<"routes", "gateways">>, <<"gatewayKeys">>, <<"buckets">>, <<"invoices">>,
   <<"invoices", "usage">>, <<"vms">>, <<"secrets">>, <<"opsSecrets">>, <<"lbs">>, <<"dbs">>,
   <<"dbs", "backups">>}

LEMMA FetchesAreLists == Fetches \subseteq Seq(Lists)
<1>1. \A x, y \in Lists : <<>> \in Seq(Lists) /\ <<x>> \in Seq(Lists) /\ <<x, y>> \in Seq(Lists)
  OBVIOUS
<1> QED BY <1>1 DEF Fetches, Lists

LEMMA RowsLists == \A h \in TableRows : h.mutates \in Fetches
<1> USE DEF Row, Fetches
<1>1. \A h \in DeploymentsPanel : h.mutates \in Fetches
  BY DEF DeploymentsPanel, DeployRow, DeleteDeploymentRow
<1>2. \A h \in ProjectsPanel : h.mutates \in Fetches
  BY DEF ProjectsPanel, CreateProjectRow
<1>3. \A h \in KeysPanel : h.mutates \in Fetches
  BY DEF KeysPanel, CreateKeyRow, RevokeKeyRow
<1>4. \A h \in GatewaysPanel : h.mutates \in Fetches
  BY DEF GatewaysPanel, CreateGatewayRow, ToggleGatewayRow, DeleteGatewayRow
<1>5. \A h \in RoutesPanel : h.mutates \in Fetches
  BY DEF RoutesPanel, CreateRouteRow, DeleteRouteRow
<1>6. \A h \in GatewayKeysPanel : h.mutates \in Fetches
  BY DEF GatewayKeysPanel, CreateGatewayKeyRow, RevokeGatewayKeyRow
<1>7. \A h \in BucketsPanel : h.mutates \in Fetches
  BY DEF BucketsPanel, CreateBucketRow
<1>8. \A h \in InvoicesPanel : h.mutates \in Fetches
  BY DEF InvoicesPanel, CreateInvoiceRow, SyncInvoiceRow
<1>9. \A h \in VmsPanel : h.mutates \in Fetches
  BY DEF VmsPanel, CreateVmRow, VmActionRow
<1>10. \A h \in SecretsPanel : h.mutates \in Fetches
  BY DEF SecretsPanel, CreateSecretRow, RevealSecretRow, DeleteSecretRow,
     MigrateOpsSecretsRow, RevealOpsSecretRow
<1>11. \A h \in LbsPanel : h.mutates \in Fetches
  BY DEF LbsPanel, CreateLbRow, DeleteLbRow
<1>12. \A h \in DbsPanel : h.mutates \in Fetches
  BY DEF DbsPanel, CreateDbRow, RevealDbRow, BackupDbRow, DeleteDbRow
<1> HIDE DEF Row, Fetches
<1> QED BY <1>1, <1>2, <1>3, <1>4, <1>5, <1>6, <1>7, <1>8, <1>9, <1>10, <1>11, <1>12 DEF TableRows, Panels

\* A handler that changes a list fetches it afterwards, alone, first or last.
FetchesOwn(h) ==
  /\ h.act \in {"create", "change", "delete", "reveal"}
  /\ h.act # "reveal" => \E other : h.mutates \in {<<h.list>>, <<h.list, other>>, <<other, h.list>>}

LEMMA RowsFetch == \A h \in TableRows : FetchesOwn(h)
<1> USE DEF Row, FetchesOwn
<1>1. \A h \in DeploymentsPanel : FetchesOwn(h)
  BY DEF DeploymentsPanel, DeployRow, DeleteDeploymentRow
<1>2. \A h \in ProjectsPanel : FetchesOwn(h)
  BY DEF ProjectsPanel, CreateProjectRow
<1>3. \A h \in KeysPanel : FetchesOwn(h)
  BY DEF KeysPanel, CreateKeyRow, RevokeKeyRow
<1>4. \A h \in GatewaysPanel : FetchesOwn(h)
  BY DEF GatewaysPanel, CreateGatewayRow, ToggleGatewayRow, DeleteGatewayRow
<1>5. \A h \in RoutesPanel : FetchesOwn(h)
  BY DEF RoutesPanel, CreateRouteRow, DeleteRouteRow
<1>6. \A h \in GatewayKeysPanel : FetchesOwn(h)
  BY DEF GatewayKeysPanel, CreateGatewayKeyRow, RevokeGatewayKeyRow
<1>7. \A h \in BucketsPanel : FetchesOwn(h)
  BY DEF BucketsPanel, CreateBucketRow
<1>8. \A h \in InvoicesPanel : FetchesOwn(h)
  BY DEF InvoicesPanel, CreateInvoiceRow, SyncInvoiceRow
<1>9. \A h \in VmsPanel : FetchesOwn(h)
  BY DEF VmsPanel, CreateVmRow, VmActionRow
<1>10. \A h \in SecretsPanel : FetchesOwn(h)
  BY DEF SecretsPanel, CreateSecretRow, RevealSecretRow, DeleteSecretRow,
     MigrateOpsSecretsRow, RevealOpsSecretRow
<1>11. \A h \in LbsPanel : FetchesOwn(h)
  BY DEF LbsPanel, CreateLbRow, DeleteLbRow
<1>12. \A h \in DbsPanel : FetchesOwn(h)
  BY DEF DbsPanel, CreateDbRow, RevealDbRow, BackupDbRow, DeleteDbRow
<1> HIDE DEF Row, FetchesOwn
<1> QED BY <1>1, <1>2, <1>3, <1>4, <1>5, <1>6, <1>7, <1>8, <1>9, <1>10, <1>11, <1>12 DEF TableRows, Panels

LEMMA RowsCover ==
  ASSUME NEW h \in TableRows, h.act # "reveal"
  PROVE  Covers(h.mutates, h.list)
BY RowsFetch DEF FetchesOwn, Covers

------------------------------------------------------------------------------
(* Every step keeps the lists in order. *)

\* Handlers that need not wait any more are otherwise the same.
Alike(a, b) ==
  /\ a.row = b.row /\ a.id = b.id /\ a.key = b.key /\ a.was = b.was
  /\ a.phase = b.phase /\ a.stamp = b.stamp /\ a.rest = b.rest

LEMMA ForgottenAlike ==
  ASSUME acting \subseteq Handler, \A a, b \in acting : a = b, NEW ks
  PROVE  /\ Forgotten(ks) \subseteq Handler /\ \A a, b \in Forgotten(ks) : a = b
         /\ Forgotten(ks) = {} <=> acting = {}
         /\ \A b \in Forgotten(ks) : \E a \in acting : Alike(a, b)
         /\ \A a \in acting : \E b \in Forgotten(ks) : Alike(a, b)
<1> DEFINE f(a) == [a EXCEPT !.on = IF a.on \in ks THEN None ELSE a.on]
<1>1. ASSUME NEW a \in acting PROVE f(a) \in Handler /\ Alike(a, f(a))
  <2>1. a \in Handler
    OBVIOUS
  <2>2. f(a) \in Handler
    BY <2>1 DEF Handler
  <2>3. Alike(a, f(a))
    BY <2>1 DEF Handler, Alike
  <2> QED BY <2>2, <2>3
<1>2. Forgotten(ks) = {f(a) : a \in acting}
  BY DEF Forgotten
<1> HIDE DEF f
<1> QED BY <1>1, <1>2

\* What was on its way stays so, if every key that got new changes is fetched or
\* missed, and the handlers' debts remain.
LEMMA RequestKeeps ==
  ASSUME Typed, OnTheWay, NEW ks, NEW unmet, Request(ks, unmet),
         \A k \in Keys \ (ks \cup unmet), i \in Ids :
           mine'[i] > 0 /\ server'[i].key = k =>
             /\ mine[i] > 0 /\ server[i].key = k
             /\ Owed(k, i) => Owed(k, i)'
             /\ \A data : Fresh(data, i) => \/ \E r \in data : r.id = i /\ r.stamp >= mine'[i]
                                            \/ server'[i].status = "gone" /\ \A r \in data : r.id # i
  PROVE  OnTheWay' /\ entry' \in [Keys -> {"none", "sent", "read", "kept"}] /\ DOMAIN reading' = Keys
<1> SUFFICES ASSUME NEW k \in Keys, NEW i \in Ids, mine'[i] > 0, server'[i].key = k
             PROVE  \/ k \in missed' \/ Owed(k, i)'
                    \/ entry'[k] = "sent"
                    \/ entry'[k] = "read" /\ Fresh(reading[k], i)'
                    \/ entry'[k] \in {"none", "kept"} /\ (k \in failed' \/ Fresh(cache[k], i)')
  BY DEF Typed, Request, OnTheWay
<1>1. CASE k \in ks
  BY <1>1 DEF Request
<1>2. CASE k \in unmet \ ks
  BY <1>2 DEF Request
<1>3. CASE k \notin ks \cup unmet
  <2>1. entry'[k] = entry[k] /\ reading'[k] = reading[k] /\ cache' = cache /\ failed' = failed
    BY <1>3 DEF Request
  <2>2. /\ mine[i] > 0 /\ server[i].key = k
        /\ Owed(k, i) => Owed(k, i)'
        /\ Fresh(reading[k], i) => Fresh(reading[k], i)'
        /\ Fresh(cache[k], i) => Fresh(cache[k], i)'
    BY <1>3, <2>1 DEF Fresh
  <2>3. k \in missed => k \in missed'
    BY <1>3 DEF Request
  <2> QED BY <2>1, <2>2, <2>3 DEF OnTheWay
<1> QED BY <1>1, <1>2, <1>3

\* Lists are fetched, and nothing else happens to them.
LEMMA FetchKeeps ==
  ASSUME Data, NEW ks, Start(ks), UNCHANGED <<server, mine, revealed, busy>>, project' \in Projects,
         acting' = acting \/ acting' = Forgotten(ks)
  PROVE  Data'
<1> USE DEF Data
<1>1. /\ acting' \subseteq Handler /\ (\A a, b \in acting' : a = b) /\ (acting' = {} <=> acting = {})
      /\ \A b \in acting' : \E a \in acting : Alike(a, b)
      /\ \A a \in acting : \E b \in acting' : Alike(a, b)
  BY ForgottenAlike DEF Typed, Alone, Alike
<1>2. \A k \in Keys, i \in Ids : Owed(k, i) => Owed(k, i)'
  BY <1>1 DEF Owed, Alike
<1>3. OnTheWay' /\ entry' \in [Keys -> {"none", "sent", "read", "kept"}] /\ DOMAIN reading' = Keys
  BY <1>2, RequestKeeps DEF Start, Fresh
<1>4. cache' = cache /\ \A k \in Keys : reading'[k] \subseteq reading[k]
  BY DEF Start, Request
<1>5. Typed' /\ Alone'
  BY <1>1, <1>3, <1>4 DEF Typed, Alone
<1>6. Sorted'
  BY <1>4 DEF Sorted
<1>7. Informed' /\ Confirmed'
  BY <1>1 DEF Informed, Confirmed, Alike
<1> QED BY <1>3, <1>5, <1>6, <1>7

\* The user moves about, a list is fetched once more, or polled.
LEMMA MoveKeeps ==
  ASSUME Data,
         \/ \E t \in Visited : OpenService(t) \/ OpenFromHub(t)
         \/ ConsoleHome \/ Arrive \/ BackOrForward \/ SwitchProject
         \/ \E k \in Keys : Revalidate(k)
         \/ Poll
  PROVE  Data'
<1>1. CASE (\E t \in Visited : OpenFromHub(t)) \/ ConsoleHome
  <2>1. UNCHANGED <<project, server, swr, page>>
    BY <1>1 DEF OpenFromHub, ConsoleHome
  <2> QED BY <2>1 DEF swr, page, Data, Typed, Alone, Sorted, Informed, Confirmed, OnTheWay, Owed, Fresh
<1>2. CASE (\E t \in Visited : OpenService(t)) \/ Arrive \/ BackOrForward \/ SwitchProject
  <2>1. Mount /\ UNCHANGED <<server, page>> /\ project' \in Projects
    BY <1>2 DEF OpenService, Arrive, BackOrForward, SwitchProject, Data, Typed
  <2>2. PICK ks : Start(ks)
    BY <2>1 DEF Mount
  <2> QED BY <2>1, <2>2, FetchKeeps DEF page
<1>3. CASE \E k \in Keys : Revalidate(k)
  <2>1. PICK k \in Keys : Start({k}) /\ UNCHANGED <<where, server, page>>
    BY <1>3 DEF Revalidate
  <2> QED BY <2>1, FetchKeeps DEF page, where, Data, Typed
<1>4. CASE Poll
  <2>1. PICK k : Start({k}) /\ acting' = Forgotten({k}) /\ UNCHANGED <<where, server, busy, revealed, mine>>
    BY <1>4 DEF Poll
  <2> QED BY <2>1, FetchKeeps DEF where, Data, Typed
<1> QED BY <1>1, <1>2, <1>3, <1>4

\* The control plane answers with what it has: nothing confirmed is missing.
LEMMA ReadListKeeps ==
  ASSUME Data, NEW k \in Keys, ReadList(k)
  PROVE  Data'
<1> USE DEF Data, page, where
<1>1. UNCHANGED <<project, server, busy, acting, revealed, mine, cache, failed, missed>>
  BY DEF ReadList
<1>2. /\ entry' = [entry EXCEPT ![k] = "read"] /\ reading' = [reading EXCEPT ![k] = Read(k)]
  BY DEF ReadList
<1>3. Typed' /\ Alone' /\ Informed' /\ Confirmed'
  BY <1>1, <1>2 DEF Typed, Alone, Informed, Confirmed
<1>4. \A r \in Read(k) : r.id \in Ids /\ server[r.id] \in Resource /\ server[r.id].key = k
  BY DEF Read, Typed
<1>5. Sorted'
  BY <1>1, <1>2, <1>4 DEF Sorted, Typed
<1>6. ASSUME NEW i \in Ids, mine[i] > 0, server[i].key = k
      PROVE  Fresh(Read(k), i)
  <2>1. server[i] \in Resource /\ server[i].stamp >= mine[i] /\ server[i] # None
    BY <1>6, ConsoleAssumption DEF Confirmed, Typed, Resource
  <2>2. CASE server[i].status = "gone"
    BY <2>2 DEF Fresh, Read
  <2>3. CASE server[i].status # "gone"
    <3>1. [id |-> i, status |-> server[i].status, stamp |-> server[i].stamp] \in Read(k)
      BY <1>6, <2>1, <2>3 DEF Read
    <3> QED BY <2>1, <3>1 DEF Fresh
  <2> QED BY <2>2, <2>3
<1>7. OnTheWay'
  <2> SUFFICES ASSUME NEW j \in Keys, NEW i \in Ids, mine[i] > 0, server[i].key = j
               PROVE  \/ j \in missed \/ Owed(j, i)
                      \/ entry'[j] = "sent"
                      \/ entry'[j] = "read" /\ Fresh(reading'[j], i)
                      \/ entry'[j] \in {"none", "kept"} /\ (j \in failed \/ Fresh(cache[j], i))
    BY <1>1 DEF OnTheWay, Owed, Fresh
  <2>1. CASE j = k
    BY <1>2, <1>6, <2>1 DEF Typed
  <2>2. CASE j # k
    BY <1>2, <2>2 DEF Typed, OnTheWay
  <2> QED BY <2>1, <2>2
<1> QED BY <1>3, <1>5, <1>7

\* An answer arrives, a fetch fails, or an answer is no longer new.
LEMMA AnswerKeeps ==
  ASSUME Data, NEW k \in Keys, Answer(k) \/ Fail(k) \/ Expire(k)
  PROVE  Data'
<1> USE DEF Data, page, where
<1>1. UNCHANGED <<project, server, busy, revealed, mine, missed>>
  BY DEF Answer, Fail, Expire
<1>2. /\ acting' \subseteq Handler /\ (\A a, b \in acting' : a = b) /\ (acting' = {} <=> acting = {})
      /\ \A b \in acting' : \E a \in acting : Alike(a, b)
      /\ \A a \in acting : \E b \in acting' : Alike(a, b)
  BY ForgottenAlike DEF Typed, Alone, Alike, Answer, Fail, Expire
<1>3. \A j \in Keys, i \in Ids : Owed(j, i) => Owed(j, i)'
  BY <1>2 DEF Owed, Alike
<1>4. \A j \in Keys \ {k} : /\ entry'[j] = entry[j] /\ cache'[j] = cache[j] /\ reading'[j] = reading[j]
                           /\ (j \in failed' <=> j \in failed)
  BY DEF Answer, Fail, Expire, Typed, swr
<1>5. \/ entry[k] = "read" /\ cache'[k] = reading[k] /\ reading'[k] = {} /\ entry'[k] = "kept"
      \/ entry'[k] = "none" /\ cache'[k] = cache[k] /\ reading'[k] = {} /\ k \in failed'
      \/ /\ entry[k] = "kept" /\ entry'[k] = "none" /\ cache'[k] = cache[k] /\ reading'[k] = reading[k]
         /\ failed' = failed
  BY DEF Answer, Fail, Expire, Typed
<1>6. Typed' /\ Alone'
  BY <1>1, <1>2 DEF Typed, Alone, Answer, Fail, Expire
<1>7. Sorted'
  <2>1. \A j \in Keys : cache'[j] \cup reading'[j] \subseteq cache[j] \cup reading[j]
    BY <1>4, <1>5
  <2> QED BY <1>1, <2>1 DEF Sorted
<1>8. Informed' /\ Confirmed'
  BY <1>1, <1>2 DEF Informed, Confirmed, Alike
<1>9. OnTheWay'
  <2> SUFFICES ASSUME NEW j \in Keys, NEW i \in Ids, mine[i] > 0, server[i].key = j
               PROVE  \/ j \in missed \/ Owed(j, i)'
                      \/ entry'[j] = "sent"
                      \/ entry'[j] = "read" /\ Fresh(reading'[j], i)
                      \/ entry'[j] \in {"none", "kept"} /\ (j \in failed' \/ Fresh(cache'[j], i))
    BY <1>1 DEF OnTheWay, Fresh
  <2>1. CASE j = k
    BY <1>3, <1>5, <2>1 DEF OnTheWay
  <2>2. CASE j # k
    <3>1. entry'[j] = entry[j] /\ cache'[j] = cache[j] /\ reading'[j] = reading[j]
      BY <1>4, <2>2
    <3>2. j \in failed => j \in failed'
      BY <1>4, <2>2
    <3> QED BY <1>3, <3>1, <3>2 DEF OnTheWay
  <2> QED BY <2>1, <2>2
<1> QED BY <1>6, <1>7, <1>8, <1>9

\* A handler starts with its list still to fetch.
LEMMA ClickKeeps ==
  ASSUME Data, NEW h \in Offered, Click(h)
  PROVE  Data'
<1> USE DEF Data
<1>1. PICK i \in IF h.act = "create" THEN Unused ELSE ShownIds(h.list) :
        acting' = acting \cup {Started(h, i)}
  BY DEF Click
<1>2. acting = {} /\ busy' = TRUE /\ UNCHANGED <<project, server, swr, revealed, mine>>
  BY DEF Click, Ready, Alone, where
<1>3. h \in TableRows /\ h.list \in Watched
  BY DEF Offered, TableRows
<1>4. KeyOf(h.list, project) \in Keys
  BY <1>3 DEF Keys, Typed
<1>5. i \in Ids /\ (h.act # "create" => server[i] \in Resource /\ server[i].key = KeyOf(h.list, project))
  BY <1>1, <1>4 DEF Unused, ShownIds, Shown, Sorted
<1>7. h.mutates \in Seq(Lists) /\ (h.act # "reveal" => Covers(h.mutates, h.list))
  BY <1>3, RowsLists, FetchesAreLists, RowsCover
<1> DEFINE a == Started(h, i)
<1>8. /\ a.row = h /\ a.id = i /\ a.key = KeyOf(h.list, project) /\ a.was = revealed[h.list]
      /\ a.phase = "asked" /\ a.rest = h.mutates
  BY DEF Started
<1>9. a \in Handler
  BY <1>3, <1>4, <1>5, <1>7 DEF Started, Handler, Typed
<1> HIDE DEF a
<1>10. acting' = {a}
  BY <1>1, <1>2 DEF a
<1>11. Typed' /\ Alone'
  BY <1>2, <1>9, <1>10 DEF Typed, Alone, swr
<1>12. Sorted' /\ Confirmed'
  BY <1>2 DEF Sorted, Confirmed, swr
<1>13. Informed'
  BY <1>2, <1>3, <1>5, <1>7, <1>8, <1>10 DEF Informed
<1>14. OnTheWay'
  BY <1>2 DEF OnTheWay, Owed, Fresh, swr
<1> QED BY <1>11, <1>12, <1>13, <1>14

\* A handler ends: it has fetched all, or was answered badly.
LEMMA EndKeeps ==
  ASSUME Data, NEW a \in acting, Bad(a) \/ End(a)
  PROVE  Data'
<1> USE DEF Data
<1>1. acting = {a} /\ acting' = {} /\ busy' = FALSE
      /\ UNCHANGED <<project, server, swr, revealed, mine>>
  BY DEF Bad, End, Alone, where
<1>2. \A k \in Keys, i \in Ids : ~Owed(k, i)
  BY <1>1 DEF Owed, Bad, End, Covers
<1>3. Typed' /\ Alone' /\ Sorted' /\ Informed' /\ Confirmed'
  BY <1>1 DEF Typed, Alone, Sorted, Informed, Confirmed, swr
<1>4. OnTheWay'
  BY <1>1, <1>2 DEF OnTheWay, Fresh, swr
<1> QED BY <1>3, <1>4

\* What the control plane may do to a resource: make it, or change it for good.
Progress(i, v) ==
  /\ v \in Resource
  /\ server[i] # None => /\ v.key = server[i].key /\ v.stamp >= server[i].stamp
                         /\ server[i].status = "gone" => v.status = "gone"

LEMMA ChangedResource ==
  ASSUME NEW i \in Ids, server[i] \in Resource,
         NEW s \in {"on", "provisioning", "running", "gone"}
  PROVE  /\ Changed(i, s) \in Resource /\ Changed(i, s).key = server[i].key
         /\ Changed(i, s).stamp = server[i].stamp + 1 /\ Changed(i, s).status = s
         /\ server[i].stamp \in Nat /\ server[i].status \in {"on", "provisioning", "running", "gone"}
BY DEF Resource, Changed

LEMMA CallProgresses ==
  ASSUME Typed, NEW i \in Ids, NEW k \in Keys, NEW act \in {"create", "change", "delete", "reveal"},
         Possible(act, i), act # "create" => server[i] \in Resource
  PROVE  Progress(i, After(act, i, k)) /\ (act = "create" => After(act, i, k).key = k)
<1>1. CASE act = "create"
  BY <1>1 DEF Progress, After, Possible, Resource
<1>2. CASE act = "reveal"
  BY <1>2 DEF Progress, After, Resource
<1>3. CASE act \in {"change", "delete"}
  <2>1. server[i] \in Resource /\ server[i].status # "gone"
    BY <1>3 DEF Possible
  <2>2. PICK s \in {"on", "provisioning", "running", "gone"} : After(act, i, k) = Changed(i, s)
    BY <1>3, <2>1 DEF After, Resource
  <2>3. Changed(i, s).stamp >= server[i].stamp
    BY <2>1, ChangedResource
  <2> QED BY <1>3, <2>1, <2>2, <2>3, ChangedResource DEF Progress
<1> QED BY <1>1, <1>2, <1>3

\* The other parts of the invariant follow the control plane.
LEMMA ProgressKeeps ==
  ASSUME Typed, Sorted, Confirmed, NEW i \in Ids, NEW v, Progress(i, v),
         server' = [server EXCEPT ![i] = v]
  PROVE  /\ server' \in [Ids -> Resource \cup {None}] /\ server'[i] = v
         /\ \A j \in Ids : server[j] \in Resource =>
              /\ server'[j] \in Resource /\ server'[j].key = server[j].key
              /\ server[j].stamp <= server'[j].stamp
              /\ server[j].status = "gone" => server'[j].status = "gone"
         /\ \A k \in Keys : \A r \in cache[k] \cup reading[k] :
              r.id \in Ids /\ server'[r.id] \in Resource /\ server'[r.id].key = k
         /\ \A j \in Ids : mine[j] > 0 =>
              server'[j] \in Resource /\ mine[j] <= server'[j].stamp /\ server'[j].key = server[j].key
<1>1. server' \in [Ids -> Resource \cup {None}] /\ server'[i] = v
  BY DEF Typed, Progress
<1>2. \A j \in Ids : server[j] \in Resource =>
        /\ server'[j] \in Resource /\ server'[j].key = server[j].key
        /\ server[j].stamp <= server'[j].stamp
        /\ server[j].status = "gone" => server'[j].status = "gone"
  <2> SUFFICES ASSUME NEW j \in Ids, server[j] \in Resource
               PROVE  /\ server'[j] \in Resource /\ server'[j].key = server[j].key
                      /\ server[j].stamp <= server'[j].stamp
                      /\ server[j].status = "gone" => server'[j].status = "gone"
    OBVIOUS
  <2>1. CASE j = i
    BY <1>1, <2>1, ConsoleAssumption DEF Progress
  <2>2. CASE j # i
    <3>1. server'[j] = server[j]
      BY <2>2 DEF Typed
    <3> QED BY <3>1 DEF Resource
  <2> QED BY <2>1, <2>2
<1>3. \A j \in Ids : server[j] \in Resource => server[j].stamp \in Nat
  BY DEF Resource
<1>4. \A j \in Ids : server'[j] \in Resource => server'[j].stamp \in Nat
  BY DEF Resource
<1>5. \A k \in Keys : \A r \in cache[k] \cup reading[k] :
        r.id \in Ids /\ server'[r.id] \in Resource /\ server'[r.id].key = k
  BY <1>2 DEF Sorted
<1>6. \A j \in Ids : mine[j] > 0 =>
        server'[j] \in Resource /\ mine[j] <= server'[j].stamp /\ server'[j].key = server[j].key
  BY <1>2, <1>3, <1>4 DEF Confirmed, Typed
<1> QED BY <1>1, <1>2, <1>5, <1>6

\* The control plane is done with a deployment.
LEMMA SettleKeeps ==
  ASSUME Data, NEW i \in Ids, Settle(i)
  PROVE  Data'
<1> USE DEF Data
<1> DEFINE v == Changed(i, "running")
<1>1. /\ server' = [server EXCEPT ![i] = v]
      /\ UNCHANGED <<project, swr, page>>
  BY DEF Settle, where, Typed
<1>2. server[i] \in Resource /\ server[i].status = "provisioning"
  BY DEF Settle, Typed
<1>3. Progress(i, v)
  BY <1>2, ChangedResource DEF Progress
<1> HIDE DEF v
<1>4. /\ server' \in [Ids -> Resource \cup {None}]
      /\ \A j \in Ids : server[j] \in Resource =>
           /\ server'[j] \in Resource /\ server'[j].key = server[j].key
           /\ server[j].stamp <= server'[j].stamp
           /\ server[j].status = "gone" => server'[j].status = "gone"
  BY <1>1, <1>3, ProgressKeeps
<1>5. Typed' /\ Alone'
  BY <1>1, <1>4 DEF Typed, Alone, swr, page
<1>6. Sorted' /\ Confirmed'
  BY <1>1, <1>3, ProgressKeeps DEF Sorted, Confirmed, swr, page
<1>7. Informed'
  <2>1. \A j \in Ids : server[j] \in Resource => server[j].stamp \in Nat /\ server'[j].stamp \in Nat
    BY <1>4 DEF Resource
  <2>2. \A a \in acting : a.id \in Ids /\ a.stamp \in Nat
    BY DEF Typed, Handler
  <2> QED BY <1>1, <1>4, <2>1, <2>2 DEF Informed, page
<1>8. OnTheWay'
  BY <1>1, <1>4 DEF OnTheWay, Owed, Fresh, Confirmed, swr, page
<1> QED BY <1>5, <1>6, <1>7, <1>8

\* A call is carried out; nobody is told yet.
LEMMA CarryOutKeeps ==
  ASSUME Data, NEW a \in acting, CarryOut(a)
  PROVE  Data'
<1> USE DEF Data
<1> DEFINE v == After(a.row.act, a.id, a.key)
           b == [a EXCEPT !.phase = "done", !.stamp = server'[a.id].stamp]
<1>1. acting = {a} /\ acting' = {b} /\ server' = [server EXCEPT ![a.id] = v]
      /\ UNCHANGED <<project, swr, busy, revealed, mine>>
  BY DEF CarryOut, Become, Alone, where
<1>2. a \in Handler /\ a.phase = "asked" /\ Possible(a.row.act, a.id)
  BY DEF CarryOut, Typed
<1>3. a.row \in TableRows /\ a.id \in Ids /\ a.key \in Keys /\ a.stamp \in Nat
  BY <1>2 DEF Handler
<1>4. a.row.act \in {"create", "change", "delete", "reveal"}
  BY <1>3, RowsFetch DEF FetchesOwn
<1>5. a.row.act # "create" => server[a.id] \in Resource /\ server[a.id].key = a.key
  BY DEF Informed
<1>6. Progress(a.id, v) /\ (a.row.act = "create" => v.key = a.key)
  BY <1>2, <1>3, <1>4, <1>5, CallProgresses
<1> HIDE DEF v
<1>7. v \in Resource /\ v.key = a.key /\ v.stamp \in Nat
  <2>1. v \in Resource
    BY <1>6 DEF Progress
  <2>2. CASE a.row.act = "create"
    BY <1>6, <2>1, <2>2 DEF Resource
  <2>3. CASE a.row.act # "create"
    BY <1>5, <1>6, <2>1, <2>3, ConsoleAssumption DEF Progress, Resource
  <2> QED BY <2>2, <2>3
<1>8. /\ server' \in [Ids -> Resource \cup {None}] /\ server'[a.id] = v
      /\ \A j \in Ids : server[j] \in Resource /\ server[j].status = "gone" => server'[j].status = "gone"
      /\ \A j \in Ids : mine[j] > 0 => server'[j].key = server[j].key
  BY <1>1, <1>3, <1>6, ProgressKeeps
<1>9. b \in Handler /\ b.row = a.row /\ b.id = a.id /\ b.key = a.key /\ b.was = a.was
      /\ b.phase = "done" /\ b.stamp = v.stamp /\ b.rest = a.rest
  BY <1>2, <1>7, <1>8 DEF Handler
<1> HIDE DEF b
<1>10. Typed' /\ Alone'
  BY <1>1, <1>8, <1>9 DEF Typed, Alone, swr
<1>11. Sorted' /\ Confirmed'
  BY <1>1, <1>3, <1>6, ProgressKeeps DEF Sorted, Confirmed, swr
<1>12. Informed'
  BY <1>1, <1>2, <1>7, <1>8, <1>9 DEF Informed
<1>13. OnTheWay'
  BY <1>1, <1>2, <1>8 DEF OnTheWay, Owed, Fresh, Confirmed, swr
<1> QED BY <1>10, <1>11, <1>12, <1>13

\* From its good answer on a handler owes the fetch of its list.
LEMMA GoodKeeps ==
  ASSUME Data, NEW a \in acting, Good(a)
  PROVE  Data'
<1> USE DEF Data
<1> DEFINE b == [a EXCEPT !.phase = "after"]
<1>1. acting = {a} /\ acting' = {b} /\ a.phase = "done" /\ UNCHANGED <<project, server, swr, busy>>
  BY DEF Good, Become, Alone, where
<1>2. a \in Handler /\ a.id \in Ids /\ a.key \in Keys /\ a.stamp \in Nat
  BY DEF Typed, Handler
<1>3. b \in Handler /\ b.row = a.row /\ b.id = a.id /\ b.key = a.key
      /\ b.phase = "after" /\ b.stamp = a.stamp /\ b.rest = a.rest
  BY <1>2 DEF Handler
<1> HIDE DEF b
<1>4. mine' = [mine EXCEPT ![a.id] = IF a.row.act = "reveal" THEN mine[a.id] ELSE a.stamp]
  BY DEF Good
<1>5. /\ server[a.id] \in Resource /\ server[a.id].key = a.key /\ a.stamp <= server[a.id].stamp
      /\ a.row.list \in Watched /\ (a.row.act # "reveal" => Covers(a.rest, a.row.list))
  BY <1>1 DEF Informed
<1>6. revealed' \in [Watched -> Ids \cup {None}]
  BY <1>2, <1>5 DEF Good, Typed
<1>7. Typed' /\ Alone'
  BY <1>1, <1>2, <1>3, <1>4, <1>6 DEF Typed, Alone, swr
<1>8. Sorted' /\ Informed'
  BY <1>1, <1>3, <1>5 DEF Sorted, Informed, swr
<1>9. Confirmed'
  BY <1>1, <1>2, <1>4, <1>5 DEF Confirmed, Typed
<1>10. OnTheWay'
  <2> SUFFICES ASSUME NEW k \in Keys, NEW i \in Ids, mine'[i] > 0, server[i].key = k, ~Owed(k, i)'
               PROVE  \/ k \in missed
                      \/ entry[k] = "sent"
                      \/ entry[k] = "read" /\ Fresh(reading[k], i)'
                      \/ entry[k] \in {"none", "kept"} /\ (k \in failed \/ Fresh(cache[k], i)')
    BY <1>1 DEF OnTheWay, Fresh, swr
  <2>1. i # a.id \/ a.row.act = "reveal"
    BY <1>1, <1>3, <1>5 DEF Owed
  <2>2. mine'[i] = mine[i]
    BY <1>4, <2>1 DEF Typed
  <2>3. ~Owed(k, i)
    BY <1>1 DEF Owed
  <2> QED BY <1>1, <2>2, <2>3 DEF OnTheWay, Fresh, swr
<1> QED BY <1>7, <1>8, <1>9, <1>10

LEMMA TailCovers ==
  ASSUME NEW s \in Seq(Lists), s # <<>>, NEW list, Covers(s, list)
  PROVE  Head(s) = list \/ Covers(Tail(s), list)
<1>1. PICK n \in DOMAIN s : s[n] = list
  BY DEF Covers
<1>2. /\ Head(s) = s[1] /\ n \in 1 .. Len(s) /\ Len(s) \in Nat
      /\ Tail(s) \in Seq(Lists) /\ Len(Tail(s)) = Len(s) - 1
      /\ \A m \in 1 .. Len(s) - 1 : Tail(s)[m] = s[m + 1]
  OBVIOUS
<1>3. CASE n # 1
  <2>1. n - 1 \in 1 .. Len(s) - 1 /\ (n - 1) + 1 = n
    BY <1>2, <1>3
  <2>2. n - 1 \in DOMAIN Tail(s) /\ Tail(s)[n - 1] = list
    BY <1>1, <1>2, <2>1
  <2> QED BY <2>2 DEF Covers
<1> QED BY <1>1, <1>2, <1>3

\* The debt is paid by a fetch, or missed.
LEMMA MutateKeeps ==
  ASSUME Data, NEW a \in acting, Mutate(a)
  PROVE  Data'
<1> USE DEF Data
<1> DEFINE key == KeyOf(Head(a.rest), project)
           now == {key} \cap Current
           unmet == IF Head(a.rest) = a.row.list THEN {a.key} \ now ELSE {}
           b == [a EXCEPT !.rest = Tail(a.rest), !.on = IF now = {} THEN None ELSE key]
<1>1. /\ Request(now, unmet) /\ a.phase = "after" /\ a.rest # <<>> /\ a.on = None
      /\ acting' = (Forgotten(now) \ {a}) \cup {b}
      /\ UNCHANGED <<project, server, busy, revealed, mine>>
  BY DEF Mutate, where
<1>2. acting = {a} /\ a \in Handler
  BY DEF Alone, Typed
<1>3. now \subseteq Keys
  BY DEF Current, Keys, Typed
<1>4. a.rest \in Seq(Lists) /\ Tail(a.rest) \in Seq(Lists)
  <2>1. a.rest \in Seq(Lists)
    BY <1>2 DEF Handler
  <2>2. \A s \in Seq(Lists) : s # <<>> => Tail(s) \in Seq(Lists)
    OBVIOUS
  <2> QED BY <1>1, <2>1, <2>2
<1>5. Covers(a.rest, a.row.list) => Head(a.rest) = a.row.list \/ Covers(Tail(a.rest), a.row.list)
  BY <1>1, <1>4, TailCovers
<1>6. b \in Handler /\ b.row = a.row /\ b.id = a.id /\ b.key = a.key
      /\ b.phase = "after" /\ b.stamp = a.stamp /\ b.rest = Tail(a.rest)
  <2>1. (IF now = {} THEN None ELSE key) \in Keys \cup {None}
    BY <1>3
  <2> QED BY <1>1, <1>2, <1>4, <2>1 DEF Handler
<1>7. Forgotten(now) = {a}
  <2>1. [a EXCEPT !.on = IF a.on \in now THEN None ELSE a.on] = a
    BY <1>1, <1>2 DEF Handler
  <2> QED BY <1>2, <2>1 DEF Forgotten
<1> HIDE DEF b
<1>8. acting' = {b}
  BY <1>1, <1>7
<1>9. \A k \in Keys \ (now \cup unmet), i \in Ids : Owed(k, i) => Owed(k, i)'
  BY <1>1, <1>2, <1>5, <1>6, <1>8 DEF Owed
<1> HIDE DEF now, unmet
<1>10. OnTheWay' /\ entry' \in [Keys -> {"none", "sent", "read", "kept"}] /\ DOMAIN reading' = Keys
  BY <1>1, <1>9, RequestKeeps DEF Fresh
<1>11. cache' = cache /\ \A k \in Keys : reading'[k] \subseteq reading[k]
  BY <1>1 DEF Request
<1>12. Typed' /\ Alone'
  BY <1>1, <1>2, <1>6, <1>8, <1>10, <1>11 DEF Typed, Alone
<1>13. Sorted' /\ Confirmed'
  BY <1>1, <1>11 DEF Sorted, Confirmed
<1>14. Informed'
  BY <1>1, <1>2, <1>6, <1>8 DEF Informed
<1> QED BY <1>10, <1>12, <1>13, <1>14

\* What a command of the terminal changes is fetched at once, or missed.
LEMMA TerminalCommandKeeps ==
  ASSUME Data, TerminalCommand
  PROVE  Data'
<1> USE DEF Data
<1> DEFINE told == {KeyOf(l, project) : l \in Refreshed} \cap Current
<1>1. PICK act \in {"create", "change", "delete"}, list \in Watched, i \in Ids :
        /\ IF act = "create" THEN i \in Unused
           ELSE /\ server[i] # None /\ server[i].key = KeyOf(list, project)
                /\ Possible(act, i)
        /\ server' = [server EXCEPT ![i] = After(act, i, KeyOf(list, project))]
        /\ mine' = [mine EXCEPT ![i] = server'[i].stamp]
        /\ Request(told, {KeyOf(list, project)} \ told)
        /\ acting' = Forgotten(told)
        /\ UNCHANGED <<project, busy, revealed>>
  BY DEF TerminalCommand, where
<1> HIDE DEF told
<1> DEFINE key == KeyOf(list, project)
           v == After(act, i, key)
<1>2. key \in Keys
  BY DEF Keys, Typed
<1>3. act # "create" => server[i] \in Resource /\ server[i].key = key
  BY <1>1 DEF Typed
<1>4. Progress(i, v) /\ (act = "create" => v.key = key)
  <2>1. Possible(act, i)
    BY <1>1 DEF Possible, Unused
  <2> QED BY <1>1, <1>2, <1>3, <2>1, CallProgresses
<1> HIDE DEF v, key
<1>5. v \in Resource /\ v.key = key /\ v.stamp \in Nat
  <2>1. v \in Resource
    BY <1>4 DEF Progress
  <2>2. CASE act = "create"
    BY <1>4, <2>1, <2>2 DEF Resource
  <2>3. CASE act # "create"
    BY <1>3, <1>4, <2>1, <2>3, ConsoleAssumption DEF Progress, Resource
  <2> QED BY <2>2, <2>3
<1>6. server' = [server EXCEPT ![i] = v]
  BY <1>1 DEF v, key
<1>7. /\ server' \in [Ids -> Resource \cup {None}] /\ server'[i] = v
      /\ \A j \in Ids : server[j] \in Resource =>
           /\ server'[j] \in Resource /\ server'[j].key = server[j].key
           /\ server[j].stamp <= server'[j].stamp
           /\ server[j].status = "gone" => server'[j].status = "gone"
      /\ \A k \in Keys : \A r \in cache[k] \cup reading[k] :
           r.id \in Ids /\ server'[r.id] \in Resource /\ server'[r.id].key = k
      /\ \A j \in Ids : mine[j] > 0 => server'[j] \in Resource /\ mine[j] <= server'[j].stamp
  BY <1>4, <1>6, ProgressKeeps
<1>8. /\ acting' \subseteq Handler /\ (\A a, b \in acting' : a = b) /\ (acting' = {} <=> acting = {})
      /\ \A b \in acting' : \E a \in acting : Alike(a, b)
      /\ \A a \in acting : \E b \in acting' : Alike(a, b)
  BY <1>1, ForgottenAlike DEF Typed, Alone
<1>9. \A k \in Keys, j \in Ids : Owed(k, j) => Owed(k, j)'
  BY <1>8 DEF Owed, Alike
<1>10. mine' \in [Ids -> Nat] /\ mine'[i] = v.stamp /\ \A j \in Ids \ {i} : mine'[j] = mine[j] /\ server'[j] = server[j]
  BY <1>1, <1>5, <1>6, <1>7 DEF Typed
<1>11. cache' = cache /\ \A k \in Keys : reading'[k] \subseteq reading[k]
  BY <1>1 DEF Request
<1>12. OnTheWay' /\ entry' \in [Keys -> {"none", "sent", "read", "kept"}] /\ DOMAIN reading' = Keys
  <2>1. ASSUME NEW k \in Keys \ (told \cup ({key} \ told)), NEW j \in Ids, server'[j].key = k
        PROVE  mine'[j] = mine[j] /\ server'[j] = server[j]
    BY <1>5, <1>7, <1>10, <2>1
  <2>2. Request(told, {key} \ told)
    BY <1>1 DEF key
  <2> QED BY <1>9, <2>1, <2>2, RequestKeeps DEF Fresh
<1>13. Typed' /\ Alone'
  BY <1>1, <1>7, <1>8, <1>10, <1>11, <1>12 DEF Typed, Alone
<1>14. Sorted'
  BY <1>7, <1>11 DEF Sorted
<1>15. Confirmed'
  <2>1. v.stamp <= v.stamp
    BY <1>5
  <2> QED BY <1>5, <1>7, <1>10, <2>1 DEF Confirmed
<1>16. Informed'
  <2> SUFFICES ASSUME NEW b \in acting'
               PROVE  /\ b.row.list \in Watched
                      /\ b.row.act # "create" \/ b.phase # "asked" =>
                           server'[b.id] \in Resource /\ server'[b.id].key = b.key
                      /\ b.phase # "asked" => b.stamp <= server'[b.id].stamp
                      /\ b.phase # "after" =>
                           /\ b.was = revealed[b.row.list]
                           /\ b.row.act # "reveal" => Covers(b.rest, b.row.list)
    BY <1>1 DEF Informed
  <2>1. PICK a \in acting : Alike(a, b)
    BY <1>8
  <2>2. a.id \in Ids /\ a.stamp \in Nat
    BY DEF Typed, Handler
  <2>3. server[a.id] \in Resource => server[a.id].stamp \in Nat /\ server'[a.id].stamp \in Nat
    BY <1>7, <2>2 DEF Resource
  <2> QED BY <1>7, <2>1, <2>2, <2>3 DEF Informed, Alike
<1> QED BY <1>12, <1>13, <1>14, <1>15, <1>16

------------------------------------------------------------------------------
(* Every step keeps the tab in line with the addresses pushed. *)

\* What is left of the addresses, when one of them is reached, still ends as before.
LEMMA Suffix ==
  ASSUME NEW S, NEW s \in Seq(S), NEW n \in DOMAIN s, n # Len(s)
  PROVE  /\ SubSeq(s, n + 1, Len(s)) \in Seq(S) /\ SubSeq(s, n + 1, Len(s)) # <<>>
         /\ SubSeq(s, n + 1, Len(s))[Len(SubSeq(s, n + 1, Len(s)))] = s[Len(s)]
<1> DEFINE t == SubSeq(s, n + 1, Len(s))
           m == Len(s) - n
<1>1. n \in 1 .. Len(s) /\ Len(s) \in Nat
  OBVIOUS
<1>2. m \in Nat /\ 1 <= m /\ n + m = Len(s)
  <2>1. \A l \in Nat : \A j \in 1 .. l : j # l => l - j \in Nat /\ 1 <= l - j /\ j + (l - j) = l
    OBVIOUS
  <2> QED BY <1>1, <2>1
<1>3. t \in Seq(S) /\ Len(t) = m
  BY <1>1, <1>2
<1>4. t[m] = s[Len(s)]
  BY <1>1, <1>2
<1>5. t # <<>>
  BY <1>2, <1>3
<1> QED BY <1>3, <1>4, <1>5

LEMMA BoundKept ==
  ASSUME Bound, [Next]_vars
  PROVE  Bound'
<1> DEFINE A == Visited \cup {None}
           last == IF going = <<>> THEN url ELSE going[Len(going)]
<1>1. going \in Seq(A) /\ (last # None /\ last = url => tab = url)
  BY DEF Bound
<1> SUFFICES /\ going' \in Seq(A)
             /\ last' # None /\ last' = url' => tab' = url'
  BY DEF Bound
<1>2. CASE UNCHANGED where
  BY <1>1, <1>2 DEF where
<1>3. ASSUME NEW t \in A, going' = Append(going, t)
      PROVE  going' \in Seq(A) /\ last' = t
  <2>1. /\ Append(going, t) \in Seq(A) /\ Append(going, t) # <<>>
        /\ Append(going, t)[Len(Append(going, t))] = t
    BY <1>1
  <2> QED BY <1>3, <2>1
<1>4. CASE \E t \in Visited : OpenService(t) \/ OpenFromHub(t)
  <2>1. PICK t \in Visited : OpenService(t) \/ OpenFromHub(t)
    BY <1>4
  <2>2. going' \in Seq(A) /\ last' = t
    BY <1>3, <2>1 DEF OpenService, OpenFromHub
  <2> HIDE DEF last
  <2> QED BY <2>1, <2>2 DEF OpenService, OpenFromHub
<1>5. CASE ConsoleHome
  <2>1. going' \in Seq(A) /\ last' = None
    BY <1>3, <1>5 DEF ConsoleHome
  <2> HIDE DEF last
  <2> QED BY <2>1
<1>6. CASE Arrive
  <2>1. PICK n \in DOMAIN going :
          /\ url' = going[n] /\ tab' = TabOf(going[n])
          /\ going' = SubSeq(going, n + 1, Len(going))
    BY <1>6 DEF Arrive
  <2>2. last = going[Len(going)]
    BY <1>1, <2>1
  <2>3. going' \in Seq(A) /\ (n = Len(going) \/ last' = last)
    <3>1. CASE n = Len(going)
      <4>1. going' = <<>>
        BY <1>1, <2>1, <3>1
      <4> QED BY <3>1, <4>1
    <3>2. CASE n # Len(going)
      BY <1>1, <2>1, <2>2, <3>2, Suffix
    <3> QED BY <3>1, <3>2
  <2>4. url' # None /\ url' # url => tab' = url'
    BY <2>1 DEF TabOf
  <2>5. url' = url => tab' = tab
    BY <2>1 DEF TabOf
  <2>6. CASE n = Len(going)
    <3>1. url' = last /\ going' = <<>> /\ last' = url'
      BY <1>1, <2>1, <2>2, <2>6
    <3> HIDE DEF last
    <3> QED BY <1>1, <2>3, <2>4, <2>5, <3>1
  <2>7. CASE last' = last
    <3> HIDE DEF last
    <3> QED BY <1>1, <2>3, <2>4, <2>5, <2>7
  <2> QED BY <2>3, <2>6, <2>7
<1>7. CASE BackOrForward
  <2>1. going' = <<>> /\ url' # url /\ tab' = TabOf(url')
    BY <1>7 DEF BackOrForward
  <2>2. <<>> \in Seq(A)
    OBVIOUS
  <2> QED BY <2>1, <2>2 DEF TabOf
<1>8. CASE SwitchProject
  BY <1>1, <1>8 DEF SwitchProject
<1>9. CASE Poll \/ TerminalCommand
  BY <1>2, <1>9 DEF Poll, TerminalCommand
<1>10. CASE \E k \in Keys : ReadList(k) \/ Answer(k) \/ Fail(k) \/ Expire(k) \/ Revalidate(k)
  BY <1>2, <1>10 DEF ReadList, Answer, Fail, Expire, Revalidate
<1>11. CASE \E a \in acting : CarryOut(a) \/ Good(a) \/ Bad(a) \/ Mutate(a) \/ End(a)
  BY <1>2, <1>11 DEF CarryOut, Good, Bad, Mutate, End
<1>12. CASE (\E h \in Offered : Click(h)) \/ \E i \in Ids : Settle(i)
  BY <1>2, <1>12 DEF Click, Settle
<1>13. CASE UNCHANGED vars
  BY <1>2, <1>13 DEF vars
<1> HIDE DEF last, A
<1> QED BY <1>4, <1>5, <1>6, <1>7, <1>8, <1>9, <1>10, <1>11, <1>12, <1>13 DEF Next

------------------------------------------------------------------------------
(* The theorems. *)

LEMMA DataKept ==
  ASSUME Data, [Next]_vars
  PROVE  Data'
<1>1. CASE UNCHANGED vars
  BY <1>1 DEF vars, where, swr, page, Data, Typed, Alone, Sorted, Informed, Confirmed, OnTheWay,
     Owed, Fresh
<1>2. CASE \E k \in Keys : ReadList(k) \/ Answer(k) \/ Fail(k) \/ Expire(k) \/ Revalidate(k)
  BY <1>2, ReadListKeeps, AnswerKeeps, MoveKeeps
<1>3. CASE Poll \/ (\E t \in Visited : OpenService(t) \/ OpenFromHub(t))
           \/ ConsoleHome \/ Arrive \/ BackOrForward \/ SwitchProject
  BY <1>3, MoveKeeps
<1>4. CASE \E h \in Offered : Click(h)
  BY <1>4, ClickKeeps
<1>5. CASE \E a \in acting : CarryOut(a) \/ Good(a) \/ Bad(a) \/ Mutate(a) \/ End(a)
  BY <1>5, CarryOutKeeps, GoodKeeps, MutateKeeps, EndKeeps
<1>6. CASE TerminalCommand
  BY <1>6, TerminalCommandKeeps
<1>7. CASE \E i \in Ids : Settle(i)
  BY <1>7, SettleKeeps
<1> QED BY <1>1, <1>2, <1>3, <1>4, <1>5, <1>6, <1>7 DEF Next

LEMMA InitOk == Init => IInv
<1> SUFFICES ASSUME Init PROVE IInv
  OBVIOUS
<1> USE DEF Init
<1>1. \A list \in Watched : KeyOf(list, First) \in Keys
  BY ConsoleAssumption DEF Keys
<1>2. \A list \in Held : [key |-> KeyOf(list, First), stamp |-> 1, status |-> "on"] \in Resource
  BY <1>1, ConsoleAssumption DEF Resource
<1>3. server \in [Ids -> Resource \cup {None}]
  BY <1>2
<1>4. Typed
  BY <1>3, ConsoleAssumption DEF Typed
<1>5. Alone /\ Sorted /\ Informed
  BY DEF Alone, Sorted, Informed
<1>6. Confirmed /\ OnTheWay
  BY DEF Confirmed, OnTheWay
<1>7. Bound
  <2>1. <<>> \in Seq(Visited \cup {None})
    OBVIOUS
  <2> QED BY <2>1 DEF Bound
<1> QED BY <1>4, <1>5, <1>6, <1>7 DEF IInv, Data

\* The invariant holds whatever projects, tabs and lists there are, and however
\* often the user moves, polls, clicks and fails.
THEOREM Invariance == Spec => []IInv
<1>1. IInv /\ [Next]_vars => IInv'
  BY DataKept, BoundKept DEF IInv
<1> QED BY InitOk, <1>1, PTL DEF Spec

\* The buttons are locked exactly while the one handler runs.
THEOREM HandlersTakeTurns == Spec => []OneHandlerAtATime
<1>1. IInv => OneHandlerAtATime
  <2> SUFFICES ASSUME Alone PROVE OneHandlerAtATime
    BY DEF IInv, Data
  <2>1. CASE acting = {}
    BY <2>1, FS_EmptySet DEF OneHandlerAtATime, Alone
  <2>2. CASE acting # {}
    <3>1. PICK a : acting = {a}
      BY <2>2 DEF Alone
    <3>2. Cardinality(acting) = 1
      BY <3>1, FS_Singleton
    <3> QED BY <3>2 DEF OneHandlerAtATime, Alone
  <2> QED BY <2>1, <2>2
<1> QED BY <1>1, Invariance, PTL

\* Where no address is on its way, the tab of the address is shown.
THEOREM TheTabIsTheAddress == Spec => []TabFollowsUrl
<1>1. IInv => TabFollowsUrl
  BY DEF IInv, Bound, TabFollowsUrl
<1> QED BY <1>1, Invariance, PTL

\* No answer read before a confirmed change has the last word on a list.
THEOREM ConfirmedChangesShow == Spec => []ListsCatchUp
<1>1. IInv => ListsCatchUp
  <2> SUFFICES ASSUME IInv, acting = {}, NEW k \in Current,
                      entry[k] \in {"none", "kept"}, k \notin failed \cup missed,
                      NEW i \in Ids, mine[i] > 0, server[i].key = k
               PROVE  Reflects(k, i)
    BY DEF ListsCatchUp
  <2>1. k \in Keys /\ ~Owed(k, i)
    BY DEF Current, Keys, Owed, IInv, Data, Typed
  <2>2. Fresh(cache[k], i)
    BY <2>1 DEF IInv, Data, OnTheWay
  <2> QED BY <2>2 DEF Fresh, Reflects
<1> QED BY <1>1, Invariance, PTL

\* A resource whose deletion is confirmed to a handler is not revealed any more.
THEOREM DeletedIsNotRevealed == Spec => RevealedGoes
<1> DEFINE Gone ==
             \A a \in acting :
               /\ a.phase = "done" /\ a.row.act = "delete"
               /\ \E b \in acting' : b.id = a.id /\ b.phase = "after"
               => revealed'[a.row.list] # a.id
<1>1. IInv /\ [Next]_vars => [Gone]_vars
  <2> SUFFICES ASSUME IInv, Next, NEW a \in acting, a.phase = "done", a.row.act = "delete",
                      NEW b \in acting', b.id = a.id, b.phase = "after"
               PROVE  revealed'[a.row.list] # a.id
    OBVIOUS
  <2>1. acting = {a} /\ a \in Handler
    BY DEF IInv, Data, Alone, Typed
  <2>2. b # a
    OBVIOUS
  <2>3. ASSUME NEW ks, b \in Forgotten(ks)
        PROVE  FALSE
    <3>1. Alike(a, b)
      BY <2>1, <2>3, ForgottenAlike DEF IInv, Data, Alone, Typed
    <3> QED BY <3>1 DEF Alike
  <2>4. Good(a)
    <3>1. ASSUME acting' = acting PROVE FALSE
      BY <2>1, <2>2, <3>1
    <3>2. CASE \E k \in Keys : ReadList(k) \/ Answer(k) \/ Fail(k) \/ Expire(k) \/ Revalidate(k)
      BY <2>3, <3>1, <3>2 DEF ReadList, Answer, Fail, Expire, Revalidate, page
    <3>3. CASE Poll \/ TerminalCommand
      BY <2>3, <3>3 DEF Poll, TerminalCommand
    <3>4. CASE \/ \E t \in Visited : OpenService(t) \/ OpenFromHub(t)
               \/ ConsoleHome \/ Arrive \/ BackOrForward \/ SwitchProject
      BY <3>1, <3>4 DEF OpenService, OpenFromHub, ConsoleHome, Arrive, BackOrForward, SwitchProject, page
    <3>5. CASE (\E h \in Offered : Click(h)) \/ \E i \in Ids : Settle(i)
      BY <2>1, <2>2, <3>1, <3>5 DEF Click, Settle, page, Started, Ready, IInv, Data, Alone
    <3>6. CASE \E c \in acting : CarryOut(c) \/ Good(c) \/ Bad(c) \/ Mutate(c) \/ End(c)
      BY <2>1, <2>2, <3>6 DEF CarryOut, Bad, Mutate, End
    <3> QED BY <3>2, <3>3, <3>4, <3>5, <3>6 DEF Next
  <2>5. a.was = revealed[a.row.list] /\ a.row.list \in Watched
    BY DEF IInv, Data, Informed
  <2>6. a.id \in Ids /\ a.id # None
    BY <2>1, ConsoleAssumption DEF Handler
  <2> QED BY <2>4, <2>5, <2>6 DEF Good, IInv, Data, Typed
<1> QED BY <1>1, Invariance, PTL DEF Spec, RevealedGoes

------------------------------------------------------------------------------
(* The rest of the types: nothing else rests on them. *)

\* What is on the page comes from the addresses and the lists there are.
Shaped ==
  /\ url \in Visited \cup {None} /\ tab \in Visited \cup {"run-services"}
  /\ failed \subseteq Keys /\ missed \subseteq Keys

\* A resource has changed at least once, when it was made, and no list says otherwise.
Stamped ==
  /\ \A i \in Ids : server[i] \in Resource => server[i].stamp > 0
  /\ \A k \in Keys : \A r \in cache[k] \cup reading[k] : r.stamp > 0

\* A fetch, and what starts one, adds to a list only what the control plane says.
LEMMA RequestAdds ==
  ASSUME NEW ks, NEW unmet, unmet \subseteq Keys, missed \subseteq Keys, Request(ks, unmet)
  PROVE  /\ cache' = cache /\ failed' = failed /\ missed' \subseteq Keys
         /\ \A k \in Keys : reading'[k] \subseteq reading[k]
BY DEF Request

LEMMA StepAdds ==
  ASSUME IInv, missed \subseteq Keys, failed \subseteq Keys, [Next]_vars
  PROVE  /\ failed' \subseteq Keys /\ missed' \subseteq Keys
         /\ \A k \in Keys : cache'[k] \cup reading'[k] \subseteq cache[k] \cup reading[k] \cup Read(k)
<1> DEFINE Adds ==
             /\ failed' \subseteq Keys /\ missed' \subseteq Keys
             /\ \A k \in Keys :
                  cache'[k] \cup reading'[k] \subseteq cache[k] \cup reading[k] \cup Read(k)
<1>1. CASE UNCHANGED swr
  BY <1>1 DEF swr
<1>2. ASSUME NEW ks, NEW unmet, unmet \subseteq Keys, Request(ks, unmet) PROVE Adds
  <2>1. /\ cache' = cache /\ failed' = failed /\ missed' \subseteq Keys
        /\ \A k \in Keys : reading'[k] \subseteq reading[k]
    BY <1>2, RequestAdds
  <2> QED BY <2>1
<1>3. ASSUME NEW k \in Keys, ReadList(k) PROVE Adds
  BY <1>3 DEF ReadList, IInv, Data, Typed
<1>4. ASSUME NEW k \in Keys, Answer(k) PROVE Adds
  BY <1>4 DEF Answer, IInv, Data, Typed
<1>5. ASSUME NEW k \in Keys, Fail(k) PROVE Adds
  BY <1>5 DEF Fail, IInv, Data, Typed
<1>6. ASSUME NEW k \in Keys, Expire(k) \/ Revalidate(k) PROVE Adds
  <2>1. CASE Expire(k)
    BY <2>1 DEF Expire
  <2>2. CASE Revalidate(k)
    BY <1>2, <2>2 DEF Revalidate, Start
  <2> QED BY <1>6, <2>1, <2>2
<1>7. CASE Poll \/ (\E t \in Visited : OpenService(t)) \/ Arrive \/ BackOrForward \/ SwitchProject
  <2>1. PICK ks : Request(ks, {})
    BY <1>7 DEF Poll, OpenService, Arrive, BackOrForward, SwitchProject, Mount, Start
  <2> QED BY <1>2, <2>1
<1>8. CASE (\E t \in Visited : OpenFromHub(t)) \/ ConsoleHome \/ (\E h \in Offered : Click(h))
           \/ \E i \in Ids : Settle(i)
  BY <1>1, <1>8 DEF OpenFromHub, ConsoleHome, Click, Settle
<1>9. ASSUME NEW a \in acting, CarryOut(a) \/ Good(a) \/ Bad(a) \/ End(a) PROVE Adds
  BY <1>1, <1>9 DEF CarryOut, Good, Bad, End
<1>10. ASSUME NEW a \in acting, Mutate(a) PROVE Adds
  <2>1. a.key \in Keys
    BY DEF IInv, Data, Typed, Handler
  <2>2. PICK unmet \in SUBSET {a.key} : \E ks : Request(ks, unmet)
    BY <1>10 DEF Mutate
  <2> QED BY <1>2, <2>1, <2>2
<1>11. CASE TerminalCommand
  <2>1. \A list \in Watched : KeyOf(list, project) \in Keys
    BY DEF Keys, IInv, Data, Typed
  <2> QED BY <1>2, <1>11, <2>1 DEF TerminalCommand
<1>12. CASE UNCHANGED vars
  BY <1>1, <1>12 DEF vars
<1>13. CASE \E k \in Keys : ReadList(k) \/ Answer(k) \/ Fail(k) \/ Expire(k) \/ Revalidate(k)
  BY <1>3, <1>4, <1>5, <1>6, <1>13
<1>14. CASE \E a \in acting : CarryOut(a) \/ Good(a) \/ Bad(a) \/ Mutate(a) \/ End(a)
  BY <1>9, <1>10, <1>14
<1>15. Adds
  BY <1>7, <1>8, <1>11, <1>12, <1>13, <1>14 DEF Next
<1> QED BY <1>15 DEF Adds

LEMMA PlacesKept ==
  ASSUME IInv, Shaped, [Next]_vars
  PROVE  url' \in Visited \cup {None} /\ tab' \in Visited \cup {"run-services"}
<1>1. CASE UNCHANGED where
  BY <1>1 DEF Shaped, where
<1>2. CASE (\E t \in Visited : OpenService(t) \/ OpenFromHub(t)) \/ ConsoleHome \/ SwitchProject
  BY <1>2 DEF Shaped, OpenService, OpenFromHub, ConsoleHome, SwitchProject
<1>3. CASE Arrive
  <2>1. PICK n \in DOMAIN going : url' = going[n] /\ tab' = TabOf(going[n])
    BY <1>3 DEF Arrive
  <2>2. going[n] \in Visited \cup {None}
    BY <2>1 DEF IInv, Bound
  <2> QED BY <2>1, <2>2 DEF TabOf, Shaped
<1>4. CASE BackOrForward
  BY <1>4 DEF BackOrForward, TabOf, Shaped
<1>5. CASE Poll \/ TerminalCommand \/ (\E h \in Offered : Click(h)) \/ \E i \in Ids : Settle(i)
  BY <1>1, <1>5 DEF Poll, TerminalCommand, Click, Settle
<1>6. CASE \E k \in Keys : ReadList(k) \/ Answer(k) \/ Fail(k) \/ Expire(k) \/ Revalidate(k)
  BY <1>1, <1>6 DEF ReadList, Answer, Fail, Expire, Revalidate
<1>7. CASE \E a \in acting : CarryOut(a) \/ Good(a) \/ Bad(a) \/ Mutate(a) \/ End(a)
  BY <1>1, <1>7 DEF CarryOut, Good, Bad, Mutate, End
<1>8. CASE UNCHANGED vars
  BY <1>1, <1>8 DEF vars
<1> QED BY <1>2, <1>3, <1>4, <1>5, <1>6, <1>7, <1>8 DEF Next

\* A call gives a resource its first stamp, or the next one, or leaves it.
LEMMA AfterStamped ==
  ASSUME NEW act \in {"create", "change", "delete", "reveal"}, NEW i \in Ids, NEW k,
         act # "create" => server[i] \in Resource /\ server[i].stamp > 0
  PROVE  After(act, i, k).stamp > 0
<1>1. act # "create" => server[i].stamp \in Nat
  BY DEF Resource
<1>2. CASE act = "create"
  BY <1>2 DEF After
<1>3. CASE act = "change"
  BY <1>1, <1>3 DEF After, Changed
<1>4. CASE act = "delete"
  BY <1>1, <1>4 DEF After, Changed
<1>5. CASE act = "reveal"
  BY <1>5 DEF After
<1> QED BY <1>2, <1>3, <1>4, <1>5

LEMMA StampsKept ==
  ASSUME IInv, Shaped, Stamped, [Next]_vars
  PROVE  Stamped'
<1> USE DEF Stamped
<1>1. server \in [Ids -> Resource \cup {None}]
  BY DEF IInv, Data, Typed
<1>2. \A k \in Keys : \A r \in cache'[k] \cup reading'[k] : r.stamp > 0
  <2>1. \A k \in Keys : \A r \in Read(k) : r.stamp > 0
    BY <1>1 DEF Read
  <2> QED BY <2>1, StepAdds DEF Shaped
<1>3. ASSUME NEW i \in Ids, NEW v, server' = [server EXCEPT ![i] = v], v.stamp > 0
      PROVE  \A j \in Ids : server'[j] \in Resource => server'[j].stamp > 0
  BY <1>1, <1>3
<1>4. CASE server' = server
  BY <1>2, <1>4
<1>5. CASE \E i \in Ids : Settle(i)
  <2>1. PICK i \in Ids : /\ server[i] # None
                         /\ server' = [server EXCEPT ![i] = Changed(i, "running")]
    BY <1>5 DEF Settle
  <2>2. server[i] \in Resource
    BY <1>1, <2>1
  <2>3. Changed(i, "running").stamp > 0
    BY <2>2 DEF Changed, Resource
  <2> QED BY <1>2, <1>3, <2>1, <2>3
<1>6. CASE TerminalCommand
  <2>1. PICK act \in {"create", "change", "delete"}, list \in Watched, i \in Ids :
          /\ act # "create" => server[i] # None
          /\ server' = [server EXCEPT ![i] = After(act, i, KeyOf(list, project))]
    BY <1>6 DEF TerminalCommand
  <2>2. act # "create" => server[i] \in Resource
    BY <1>1, <2>1
  <2>3. After(act, i, KeyOf(list, project)).stamp > 0
    BY <2>1, <2>2, AfterStamped
  <2> QED BY <1>2, <1>3, <2>1, <2>3
<1>7. CASE \E a \in acting : CarryOut(a)
  <2>1. PICK a \in acting : CarryOut(a)
    BY <1>7
  <2>2. a \in Handler /\ a.id \in Ids
    BY DEF IInv, Data, Typed, Handler
  <2>3. a.row.act \in {"create", "change", "delete", "reveal"}
    BY <2>2, RowsFetch DEF Handler, FetchesOwn
  <2>4. a.row.act # "create" => server[a.id] \in Resource
    BY DEF IInv, Data, Informed
  <2>5. After(a.row.act, a.id, a.key).stamp > 0
    BY <2>2, <2>3, <2>4, AfterStamped
  <2> QED BY <1>2, <1>3, <2>1, <2>2, <2>5 DEF CarryOut
<1>8. CASE Poll \/ (\E t \in Visited : OpenService(t) \/ OpenFromHub(t)) \/ ConsoleHome
           \/ Arrive \/ BackOrForward \/ SwitchProject \/ \E h \in Offered : Click(h)
  BY <1>4, <1>8 DEF Poll, OpenService, OpenFromHub, ConsoleHome, Arrive, BackOrForward,
     SwitchProject, Click
<1>9. CASE \E k \in Keys : ReadList(k) \/ Answer(k) \/ Fail(k) \/ Expire(k) \/ Revalidate(k)
  BY <1>4, <1>9 DEF ReadList, Answer, Fail, Expire, Revalidate
<1>10. CASE \E a \in acting : Good(a) \/ Bad(a) \/ Mutate(a) \/ End(a)
  BY <1>4, <1>10 DEF Good, Bad, Mutate, End
<1>11. CASE UNCHANGED vars
  BY <1>4, <1>11 DEF vars
<1> QED BY <1>5, <1>6, <1>7, <1>8, <1>9, <1>10, <1>11 DEF Next

\* The variables have their types: what is on the page is of the lists and tabs there
\* are, and no list shows a resource that was never made.
THEOREM TypeCorrect == Spec => []TypeOK
<1>1. Init => Shaped /\ Stamped
  <2>1. ASSUME Init PROVE Shaped
    BY <2>1 DEF Init, Shaped
  <2>2. ASSUME Init PROVE Stamped
    <3>1. \A i \in Ids : server[i] = None \/ server[i].stamp = 1
      BY <2>2 DEF Init
    <3>2. None \notin Resource
      BY ConsoleAssumption
    <3> QED BY <2>2, <3>1, <3>2 DEF Init, Stamped
  <2> QED BY <2>1, <2>2
<1>2. IInv /\ Shaped /\ Stamped /\ [Next]_vars => (Shaped /\ Stamped)'
  BY PlacesKept, StepAdds, StampsKept DEF Shaped
<1>3. IInv /\ Shaped /\ Stamped => TypeOK
  <2> SUFFICES ASSUME IInv, Shaped, Stamped PROVE TypeOK
    OBVIOUS
  <2>1. \A n \in DOMAIN going : going[n] \in Visited \cup {None}
    BY DEF IInv, Bound
  <2>2. \A k \in Keys :
          /\ entry[k] \in {"none", "sent", "read", "kept"}
          /\ \A r \in cache[k] \cup reading[k] : r.id \in Ids /\ r.stamp > 0
    BY DEF IInv, Data, Typed, Sorted, Stamped
  <2>3. \A a \in acting : a.on \in Keys \cup {None}
    BY DEF IInv, Data, Typed, Handler
  <2>4. project \in Projects /\ \A list \in Watched : revealed[list] \in Ids \cup {None}
    BY DEF IInv, Data, Typed
  <2> QED BY <2>1, <2>2, <2>3, <2>4 DEF TypeOK, Shaped
<1> QED BY <1>1, <1>2, <1>3, Invariance, PTL DEF Spec
==============================================================================
