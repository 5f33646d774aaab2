------------------------------ MODULE EdgeSync ------------------------------
(***************************************************************************)
(* Load balancers and the nginx that serves them.  API processes write the *)
(* documents; the one beside nginx also rebuilds the conf files after each *)
(* of its writes and when it starts, and each worker rebuilds them after a *)
(* deployment went live.  The others are Netlify functions: the directory  *)
(* of conf files is out of their reach, and their exception is printed.    *)
(*                                                                         *)
(* A handler checks the port in one database operation and writes in       *)
(* another.  It does not await in between, so each API process is at one   *)
(* request at a time, but others may write in between.  Nor does anything  *)
(* keep two rebuilds apart: every file and database operation of           *)
(* sync_lb_configs is one step.  A file is truncated and then filled: two  *)
(* steps for a certificate only, because a torn key or conf file is made   *)
(* anew by the next rebuild.                                               *)
(*                                                                         *)
(* A balancer's name stands for _safe_lb_name of it, which two balancers   *)
(* may share, whoever owns them.  Names are numbers, in the order in which *)
(* a directory lists its files.                                            *)
(***************************************************************************)
EXTENDS Naturals, FiniteSets

CONSTANTS
  Balancers,   \* load_balancers documents
  NumNames,    \* file names are 1..NumNames
  Ports,       \* TCP listen ports within the published range
  Protocols,   \* of HTTP, HTTPS and TCP; GraphQL also stores a "tcp" as it is spelt
  Apis,        \* the API processes
  Api,         \* the one of them beside nginx
  Workers,     \* the provision-worker processes
  Patches,     \* bound: the bodies of the PATCHes that are sent
  MaxChanges,  \* bound: writes to documents and deployments, rebuilds of workers
  MaxDeaths,   \* bound: processes that die
  Torn,        \* a certificate that was truncated and not yet filled
  None         \* no document, no file, no port

Names == 1..NumNames
Procs == Apis \cup Workers
Dirs == {"lbs", "lb-stream"}

\* A balancer's document, and what its conf file says.
Documents == [status: {"active", "disabled"}, protocol: Protocols, name: Names,
              port: Ports \cup {None}, born: 0..MaxChanges]
Texts == [lb: Balancers, protocol: Protocols, port: Ports \cup {None}, running: BOOLEAN]

\* What a request that passed its check is about to write: a PATCH only the
\* fields that it names.
Creates == [lb: Balancers, protocol: Protocols, name: Names, port: Ports \cup {None}]
Updates == [lb: Balancers, status: {"active", "disabled", None}, name: Names \cup {None},
            port: Ports \cup {None}]

ASSUME EdgeAssumption ==
  /\ NumNames \in Nat
  /\ Protocols \subseteq {"HTTP", "HTTPS", "TCP", "tcp"}
  /\ Api \in Apis /\ Apis \cap Workers = {}
  /\ Patches \subseteq Updates
  /\ None \notin Balancers \cup Procs \cup Ports \cup {Torn} \cup Documents \cup Texts
  /\ Torn \notin Procs
  /\ MaxChanges \in Nat
  /\ MaxDeaths \in Nat

VARIABLES
  doc,        \* each balancer's document, or None
  up,         \* balancers whose target deployment is running
  disk,       \* by directory and name: what a conf file says, or None
  key, crt,   \* by name: the process that wrote the key and the certificate
  live,       \* the files nginx last accepted
  pc,         \* what each process does next
  dir,        \* the directory it is clearing
  todo,       \* the names it has yet to unlink, or the documents yet to write
  conf,       \* the text it is about to write
  req,        \* the request it is about to write, or None
  changes, deaths,  \* bounds used up
  solo,       \* history: nobody else changed anything while this rebuild ran
  overlapped, \* history: two rebuilds ran at once
  clashed     \* history: two active TCP balancers had one port

files == <<disk, key, crt>>
procs == <<pc, dir, todo, conf, req>>
history == <<solo, overlapped, clashed>>
vars == <<doc, up, files, live, procs, changes, deaths, history>>

Empty == [d \in Dirs |-> [n \in Names |-> None]]

Init ==
  /\ doc = [l \in Balancers |-> None]
  /\ up = {}
  /\ disk = Empty
  /\ key = [n \in Names |-> None]
  /\ crt = [n \in Names |-> None]
  /\ live = Empty
  /\ pc = [p \in Procs |-> "idle"]
  /\ dir = [p \in Procs |-> "lbs"]
  /\ todo = [p \in Procs |-> {}]
  /\ conf = [p \in Procs |-> None]
  /\ req = [p \in Procs |-> None]
  /\ changes = 0
  /\ deaths = 0
  /\ solo = [p \in Procs |-> FALSE]
  /\ overlapped = FALSE
  /\ clashed = FALSE

Idle(p) == pc[p] = "idle"
Handling(p) == pc[p] \in {"insert", "set"}
Syncing(p) == ~(Idle(p) \/ Handling(p) \/ pc[p] = "down")

Goto(p, step) == pc' = [pc EXCEPT ![p] = step]

Change ==
  /\ changes < MaxChanges
  /\ changes' = changes + 1

\* Process p enters sync_lb_configs.
BeginSync(p) ==
  /\ Goto(p, "glob")
  /\ solo' = [q \in Procs |-> q = p /\ \A r \in Procs \ {p} : ~Syncing(r)]
  /\ overlapped' = (overlapped \/ \E q \in Procs \ {p} : Syncing(q))
  /\ UNCHANGED <<dir, todo, conf>>

------------------------------------------------------------------------------
(* The handlers of /api/load-balancers. *)

Active(l) == doc[l] # None /\ doc[l].status = "active"
IsTcp(protocol) == protocol \in {"TCP", "tcp"}

\* "TCP listen ports must be unique" (docs/LB.md:24).
PortsUnique ==
  \A l, k \in Balancers :
    l # k /\ Active(l) /\ Active(k) /\ IsTcp(doc[l].protocol) /\ IsTcp(doc[k].protocol)
      => doc[l].port # doc[k].port

\* database.is_tcp_lb_port_taken, with exclude_lb_id = l.
PortTaken(port, l) ==
  \E k \in Balancers \ {l} : Active(k) /\ doc[k].protocol = "TCP" /\ doc[k].port = port

\* Process p has changed the documents.  The one beside nginx rebuilds the files.
Changed(p) ==
  /\ req' = [req EXCEPT ![p] = None]
  /\ \/ p = Api /\ BeginSync(p)
     \/ /\ p # Api
        /\ Goto(p, "idle")
        /\ solo' = [q \in Procs |-> FALSE]
        /\ UNCHANGED <<dir, todo, conf, overlapped>>

\* Process p writes or removes the document of l.
Store(p, l, d, running) ==
  /\ Change
  /\ doc' = [doc EXCEPT ![l] = d]
  /\ up' = IF running THEN up \cup {l} ELSE up \ {l}
  /\ clashed' = (clashed \/ ~PortsUnique')
  /\ Changed(p)
  /\ UNCHANGED <<files, live, deaths>>

\* A request whose port was free is yet to be written.
Wait(p, step, r) ==
  /\ Idle(p) /\ changes < MaxChanges
  /\ Goto(p, step)
  /\ req' = [req EXCEPT ![p] = r]
  /\ UNCHANGED <<doc, up, files, live, dir, todo, conf, changes, deaths, history>>

\* A new balancer has a new id: none that a request knows.
Fresh(l) == doc[l] = None /\ \A q \in Procs : Handling(q) => req[q].lb # l

\* create_load_balancer up to its check ...
Create(p, r) ==
  /\ Fresh(r.lb)
  /\ IsTcp(r.protocol) /\ r.port # None /\ ~PortTaken(r.port, r.lb)
  /\ Wait(p, "insert", r)

\* ... and from there; only TCP has a check.  createdAt orders the documents.
Insert(p, r, running) ==
  /\ \/ pc[p] = "insert" /\ r = req[p]
     \/ Idle(p) /\ Fresh(r.lb) /\ ~IsTcp(r.protocol) /\ r.port = None
  /\ Store(p, r.lb, [status |-> "active", protocol |-> r.protocol, name |-> r.name,
                     port |-> r.port, born |-> changes], running)

\* update_load_balancer up to its check: of the port, if the request names one ...
Update(p, r) ==
  /\ doc[r.lb] # None
  /\ IsTcp(doc[r.lb].protocol) /\ r.port # None /\ ~PortTaken(r.port, r.lb)
  /\ Wait(p, "set", r)

Named(field, old) == IF field = None THEN old ELSE field

\* ... and from there: at once, if it does not.  The named fields are set, the
\* target may change as well; or the document is gone (404).
Set(p, r, running) ==
  LET d == doc[r.lb] IN
  /\ \/ pc[p] = "set" /\ r = req[p]
     \/ Idle(p) /\ r.port = None /\ d # None
  /\ \/ /\ d # None
        /\ Store(p, r.lb, [status |-> Named(r.status, d.status), protocol |-> d.protocol,
                           name |-> Named(r.name, d.name), port |-> Named(r.port, d.port),
                           born |-> d.born], running)
     \/ /\ d = None
        /\ Goto(p, "idle")
        /\ req' = [req EXCEPT ![p] = None]
        /\ UNCHANGED <<doc, up, files, live, dir, todo, conf, changes, deaths, history>>

\* delete_load_balancer.
Delete(p, l) ==
  /\ Idle(p)
  /\ doc[l] # None
  /\ Store(p, l, None, FALSE)

\* A target goes live or is deleted: the deployments are another module's.  A
\* delete does not rebuild anything.
Retarget(l) ==
  /\ Change
  /\ doc[l] # None
  /\ up' = IF l \in up THEN up \ {l} ELSE up \cup {l}
  /\ solo' = [p \in Procs |-> FALSE]
  /\ UNCHANGED <<doc, files, live, procs, deaths, overlapped, clashed>>

\* process_job rebuilds after a deployment went live.
WorkerSync(w) ==
  /\ Idle(w) /\ Change
  /\ BeginSync(w)
  /\ UNCHANGED <<doc, up, files, live, req, deaths, clashed>>

------------------------------------------------------------------------------
(* sync_lb_configs, run by process p. *)

\* The first name in directory order.
First(S) == CHOOSE n \in S : \A m \in S : n <= m

\* Faulty: only the first directory is cleared.
ClearedEarly(p, rest) == rest = {}

\* The directory is cleared; lbs comes first, then lb-stream, then the list.
Cleared(p, rest) == rest = {} /\ dir[p] = "lb-stream"

\* Having rest left to unlink, go on, turn to the other directory, or list.
Unlinking(p, rest) ==
  /\ todo' = [todo EXCEPT ![p] = rest]
  /\ dir' = [dir EXCEPT ![p] = IF rest = {} THEN "lb-stream" ELSE @]
  /\ Goto(p, IF Cleared(p, rest) THEN "list" ELSE IF rest = {} THEN "glob" ELSE "unlink")
  /\ UNCHANGED conf

\* Path.glob reads the directory once, before the loop.
Glob(p) ==
  /\ pc[p] = "glob"
  /\ Unlinking(p, {n \in Names : disk[dir[p]][n] # None})
  /\ UNCHANGED <<doc, up, files, live, req, changes, deaths, history>>

\* Process p is done with its rebuild.
Stop(p, step) ==
  /\ Goto(p, step)
  /\ dir' = [dir EXCEPT ![p] = "lbs"]
  /\ todo' = [todo EXCEPT ![p] = {}]
  /\ conf' = [conf EXCEPT ![p] = None]
  /\ solo' = [solo EXCEPT ![p] = FALSE]

\* Faulty: the exception ends the loop only, with its names left over.
AbortLoop(p) ==
  /\ Goto(p, "list")
  /\ UNCHANGED <<todo, dir, conf, solo>>

\* The exception ends the rebuild; every caller prints it and goes on.
Abort(p) == Stop(p, "idle")

\* existing.unlink() raises if another process was faster.
Unlink(p) ==
  LET n == First(todo[p]) IN
  /\ pc[p] = "unlink"
  /\ \/ /\ disk[dir[p]][n] # None
        /\ disk' = [disk EXCEPT ![dir[p]][n] = None]
        /\ Unlinking(p, todo[p] \ {n})
        /\ UNCHANGED solo
     \/ /\ disk[dir[p]][n] = None
        /\ Abort(p)
        /\ UNCHANGED disk
  /\ UNCHANGED <<doc, up, key, crt, live, req, changes, deaths, overlapped, clashed>>

\* list_all_active_load_balancers.
List(p) ==
  /\ pc[p] = "list"
  /\ todo' = [todo EXCEPT ![p] = {[lb |-> l, doc |-> doc[l]] : l \in {k \in Balancers : Active(k)}}]
  /\ Goto(p, "next")
  /\ UNCHANGED <<doc, up, files, live, dir, conf, req, changes, deaths, history>>

\* Faulty: the list is read oldest first.
Eldest(S) == CHOOSE e \in S : \A f \in S : e.doc.born <= f.doc.born

\* The list is sorted by createdAt, youngest first.
Youngest(S) == CHOOSE e \in S : \A f \in S : f.doc.born <= e.doc.born

Entry(p) == Youngest(todo[p])
Has(file, n) == file[n] # None

\* HTTPS first looks for the certificate: both files there, or both made anew.
Take(p) ==
  LET d == Entry(p).doc IN
  /\ pc[p] = "next" /\ todo[p] # {}
  /\ Goto(p, IF d.protocol = "HTTPS" /\ ~(Has(key, d.name) /\ Has(crt, d.name))
             THEN "key" ELSE "render")
  /\ UNCHANGED <<doc, up, files, live, dir, todo, conf, req, changes, deaths, history>>

\* Faulty: a key that is there already is kept.
KeepOldKey(p, n) == IF Has(key, n) THEN key[n] ELSE p

\* ensure_self_signed_cert writes a new key ...
NewKey(p, n) == p

WriteKey(p) ==
  LET n == Entry(p).doc.name IN
  /\ pc[p] = "key"
  /\ key' = [key EXCEPT ![n] = NewKey(p, n)]
  /\ Goto(p, "crt")
  /\ UNCHANGED <<doc, up, disk, crt, live, dir, todo, conf, req, changes, deaths, history>>

\* ... and then its certificate, which is empty at first.
OpenCrt(p) ==
  LET n == Entry(p).doc.name IN
  /\ pc[p] = "crt"
  /\ crt' = [crt EXCEPT ![n] = Torn]
  /\ Goto(p, "fill")
  /\ UNCHANGED <<doc, up, disk, key, live, dir, todo, conf, req, changes, deaths, history>>

FillCrt(p) ==
  LET n == Entry(p).doc.name IN
  /\ pc[p] = "fill"
  /\ crt' = [crt EXCEPT ![n] = p]
  /\ Goto(p, "render")
  /\ UNCHANGED <<doc, up, disk, key, live, dir, todo, conf, req, changes, deaths, history>>

Text(l, d, running) ==
  [lb |-> l, protocol |-> d.protocol, port |-> d.port, running |-> running]

DirOf(protocol) == IF IsTcp(protocol) THEN "lb-stream" ELSE "lbs"

\* generate_lb_*_block looks the target up: an upstream, or a 503.
Render(p) ==
  LET e == Entry(p) IN
  /\ pc[p] = "render"
  /\ conf' = [conf EXCEPT ![p] = Text(e.lb, e.doc, e.lb \in up)]
  /\ Goto(p, "write")
  /\ UNCHANGED <<doc, up, files, live, dir, todo, req, changes, deaths, history>>

Write(p) ==
  LET e == Entry(p) IN
  /\ pc[p] = "write"
  /\ disk' = [disk EXCEPT ![DirOf(e.doc.protocol)][e.doc.name] = conf[p]]
  /\ conf' = [conf EXCEPT ![p] = None]
  /\ todo' = [todo EXCEPT ![p] = @ \ {e}]
  /\ Goto(p, "next")
  /\ UNCHANGED <<doc, up, key, crt, live, dir, req, changes, deaths, history>>

\* What nginx accepts: one listener per TCP port, and keys that fit.
Valid ==
  /\ \A m, n \in Names :
       m # n /\ disk["lb-stream"][m] # None /\ disk["lb-stream"][n] # None
         => disk["lb-stream"][m].port # disk["lb-stream"][n].port
  /\ \A n \in Names :
       disk["lbs"][n] # None /\ disk["lbs"][n].protocol = "HTTPS"
         => key[n] = crt[n] /\ Has(key, n)

\* reload_gateway_proxy: nginx keeps its configuration if the files are bad.
Reload(p) ==
  /\ pc[p] = "next" /\ todo[p] = {}
  /\ live' = IF Valid THEN disk ELSE live
  /\ Stop(p, "idle")
  /\ UNCHANGED <<doc, up, files, req, changes, deaths, overlapped, clashed>>

Sync(p) ==
  \/ Glob(p)
  \/ Unlink(p)
  \/ List(p)
  \/ Take(p)
  \/ WriteKey(p)
  \/ OpenCrt(p)
  \/ FillCrt(p)
  \/ Render(p)
  \/ Write(p)
  \/ Reload(p)

\* An idle worker or Netlify function has nothing to lose.
Die(p) ==
  /\ Syncing(p) \/ (p = Api /\ pc[p] # "down")
  /\ Change /\ deaths < MaxDeaths
  /\ deaths' = deaths + 1
  /\ Stop(p, "down")
  /\ req' = [req EXCEPT ![p] = None]
  /\ UNCHANGED <<doc, up, files, live, overlapped, clashed>>

\* The API rebuilds the files when it starts (main.lifespan), a worker does not,
\* and a Netlify function cannot.
Restart(p) ==
  /\ pc[p] = "down"
  /\ \/ p = Api /\ BeginSync(p)
     \/ p # Api /\ Goto(p, "idle") /\ UNCHANGED <<dir, todo, conf, solo, overlapped>>
  /\ UNCHANGED <<doc, up, files, live, req, changes, deaths, clashed>>

Next ==
  \/ \E p \in Apis :
       \/ \E r \in Creates : Create(p, r) \/ \E running \in BOOLEAN : Insert(p, r, running)
       \/ \E r \in Patches : Update(p, r) \/ \E running \in BOOLEAN : Set(p, r, running)
       \/ \E l \in Balancers : Delete(p, l)
  \/ \E l \in Balancers : Retarget(l)
  \/ \E w \in Workers : WorkerSync(w)
  \/ \E p \in Procs : Sync(p) \/ Die(p) \/ Restart(p)

Spec == Init /\ [][Next]_vars

------------------------------------------------------------------------------
(* What has to hold. *)

Disks == [Dirs -> [Names -> Texts \cup {None}]]
Entries == [lb: Balancers, doc: Documents]

\* The values of every variable; a process holds names while it unlinks,
\* documents while it writes files, and a request until it is stored.
TypeOK ==
  /\ doc \in [Balancers -> Documents \cup {None}]
  /\ up \subseteq Balancers
  /\ disk \in Disks /\ live \in Disks
  /\ key \in [Names -> Procs \cup {None}]
  /\ crt \in [Names -> Procs \cup {Torn, None}]
  /\ pc \in [Procs -> {"idle", "down", "insert", "set", "glob", "unlink", "list", "next",
                       "key", "crt", "fill", "render", "write"}]
  /\ dir \in [Procs -> Dirs]
  /\ \A p \in Procs :
       CASE pc[p] = "unlink" -> todo[p] \in (SUBSET Names) \ {{}}
         [] pc[p] = "next" -> todo[p] \in SUBSET Entries
         [] pc[p] \in {"key", "crt", "fill", "render", "write"} -> todo[p] \in (SUBSET Entries) \ {{}}
         [] OTHER -> todo[p] = {}
  /\ \A p \in Procs : conf[p] = None <=> pc[p] # "write"
  /\ \A p \in Procs :
       CASE pc[p] = "insert" -> req[p] \in Creates
         [] pc[p] = "set" -> req[p] \in Updates
         [] OTHER -> req[p] = None
  /\ changes \in 0..MaxChanges
  /\ deaths \in 0..MaxDeaths
  /\ solo \in [Procs -> BOOLEAN]
  /\ overlapped \in BOOLEAN
  /\ clashed \in BOOLEAN

\* The documents whose file is name n of directory d.
Claimants(d, n) ==
  {l \in Balancers : Active(l) /\ DirOf(doc[l].protocol) = d /\ doc[l].name = n}

\* What the files should say: of balancers that share a file, the oldest has it.
Rendered ==
  [d \in Dirs |-> [n \in Names |->
    LET S == Claimants(d, n)
        l == CHOOSE k \in S : \A m \in S : doc[k].born <= doc[m].born
    IN IF S = {} THEN None ELSE Text(l, doc[l], l \in up)]]

\* A rebuild that runs alone repairs whatever deaths, aborted and interleaved
\* rebuilds left behind: its reload finds the files of the active balancers,
\* and no others.
SoloSyncExact ==
  \A p \in Procs : solo[p] /\ pc[p] = "next" /\ todo[p] = {} => disk = Rendered

\* A rebuild keeps the pair of files it finds, for good.  As long as no two
\* rebuilds overlapped, a certificate is therefore that of the key beside it,
\* wherever processes died, but for one place: between truncating a certificate
\* and filling it.
CertsFit ==
  ~overlapped => \A n \in Names : Has(key, n) /\ Has(crt, n) => crt[n] \in {key[n], Torn}

\* When nobody rebuilds, nginx runs the files on disk, whatever other processes
\* wrote meanwhile: the last change of a file was followed by a reload, and nginx
\* accepted it.  Overlapping rebuilds, deaths and ports in use twice are excepted;
\* nginx itself is up, and docker at hand.
NginxRunsTheFiles ==
  ~overlapped /\ ~clashed /\ deaths = 0 /\ (\A p \in Procs : ~Syncing(p)) => live = disk
==============================================================================
