--------------------------- MODULE EdgeSyncProofs ---------------------------
(***************************************************************************)
(* Theorems about EdgeSync, for any balancers, names, ports and processes. *)
(***************************************************************************)
EXTENDS EdgeSync, WellFoundedInduction, TLAPS

------------------------------------------------------------------------------
(* The choices have something to choose. *)

Below == {pair \in Nat \X Nat : pair[1] < pair[2]}

LEMMA Least ==
  ASSUME NEW S \in SUBSET Nat, S # {}
  PROVE  \E m \in S : \A n \in S : m <= n
<1>1. IsWellFoundedOn(Below, Nat)
  BY NatLessThanWellFounded DEF Below, OpToRel
<1>2. PICK m \in S : \A n \in S : <<n, m>> \notin Below
  BY <1>1, WFMin
<1>3. \A n \in S : ~(n < m)
  BY <1>2 DEF Below
<1> QED BY <1>3

LEMMA FirstIn ==
  ASSUME NEW S \in SUBSET Names, S # {}
  PROVE  First(S) \in S
<1>1. \E n \in S : \A m \in S : n <= m
  BY Least, EdgeAssumption DEF Names
<1> QED BY <1>1 DEF First

LEMMA OldestIn ==
  ASSUME NEW S \in SUBSET Entries, S # {}
  PROVE  \E e \in S : \A f \in S : e.doc.born <= f.doc.born
<1> DEFINE B == {e.doc.born : e \in S}
<1>1. B \in SUBSET Nat /\ B # {}
  BY EdgeAssumption DEF Entries, Documents
<1>2. PICK b \in B : \A c \in B : b <= c
  BY <1>1, Least
<1> QED BY <1>2

LEMMA YoungestIn ==
  ASSUME NEW S \in SUBSET Entries, S # {}
  PROVE  Youngest(S) \in S /\ \A f \in S : f.doc.born <= Youngest(S).doc.born
<1> DEFINE B == {MaxChanges - e.doc.born : e \in S}
<1>1. \A e \in S : e.doc.born \in 0 .. MaxChanges
  BY DEF Entries, Documents
<1>2. B \in SUBSET Nat /\ B # {}
  BY <1>1, EdgeAssumption
<1>3. PICK b \in B : \A c \in B : b <= c
  BY <1>2, Least
<1>4. PICK e \in S : b = MaxChanges - e.doc.born
  BY <1>3
<1>5. \A f \in S : f.doc.born <= e.doc.born
  <2> TAKE f \in S
  <2>1. MaxChanges - e.doc.born <= MaxChanges - f.doc.born
    BY <1>3, <1>4
  <2> QED BY <1>1, <2>1, EdgeAssumption
<1> QED BY <1>5 DEF Youngest

------------------------------------------------------------------------------
(* The inductive invariant. *)

\* What a process is at beside rebuilding.
Away == {"idle", "down", "insert", "set"}

\* What is about to be written is the text of a conf file, and a rebuild begins
\* with lbs.
Typed ==
  /\ TypeOK
  /\ todo = [p \in Procs |-> todo[p]] /\ conf = [p \in Procs |-> conf[p]]
  /\ req = [p \in Procs |-> req[p]]
  /\ \A p \in Procs : pc[p] = "write" => conf[p] \in Texts
  /\ \A p \in Procs : pc[p] \in Away => dir[p] = "lbs"

\* No two documents are of one age.
Aged ==
  \A l \in Balancers : doc[l] # None =>
    /\ doc[l].born < changes
    /\ \A k \in Balancers \ {l} : doc[k] # None => doc[k].born # doc[l].born

\* A rebuild that nobody has disturbed: nobody else rebuilds now.
Alone(p) == Syncing(p) /\ (solo[p] \/ ~overlapped)
Apart == \A p, q \in Procs : Alone(p) /\ p # q => ~Syncing(q)

\* Keys come first and stay.
KeysFirst ==
  /\ \A n \in Names : Has(crt, n) => Has(key, n)
  /\ \A p \in Procs : pc[p] \in {"crt", "fill"} => Has(key, Entry(p).doc.name)

\* A pair of files in the making, where rebuilds do not overlap.
Pairs ==
  ~overlapped => \A p \in Procs :
    /\ pc[p] = "key" => ~Has(crt, Entry(p).doc.name)
    /\ pc[p] = "crt" => key[Entry(p).doc.name] = p /\ ~Has(crt, Entry(p).doc.name)
    /\ pc[p] = "fill" => key[Entry(p).doc.name] = p /\ crt[Entry(p).doc.name] = Torn

\* Without deaths a certificate is torn only until it is filled.
Whole ==
  ~overlapped /\ deaths = 0 =>
    \A n \in Names : crt[n] = Torn => \E p \in Procs : pc[p] = "fill" /\ Entry(p).doc.name = n

\* What an undisturbed rebuild has unlinked, and has yet to.
Cleaned(p) ==
  /\ pc[p] \in {"glob", "unlink"} /\ dir[p] = "lb-stream" => \A n \in Names : disk["lbs"][n] = None
  /\ pc[p] = "unlink" => todo[p] = {n \in Names : disk[dir[p]][n] # None}
  /\ pc[p] = "list" => \A d \in Dirs, n \in Names : disk[d][n] = None

Filling == {"next", "key", "crt", "fill", "render", "write"}
Ent(l) == [lb |-> l, doc |-> doc[l]]

\* A file says what a document that was read does, and whether its target runs,
\* unless this has changed meanwhile.
Says(p, text, e) ==
  \E running \in BOOLEAN :
    text = Text(e.lb, e.doc, running) /\ (solo[p] => running = (e.lb \in up))

\* What one reading of the documents may have found.
Reading(L) ==
  /\ L \in SUBSET Entries
  /\ \A e, f \in L : e # f => e.doc.born # f.doc.born
  /\ ~clashed => \A e, f \in L :
       e # f /\ IsTcp(e.doc.protocol) /\ IsTcp(f.doc.protocol) => e.doc.port # f.doc.port

\* Those that a rebuild which read L has written to name n of directory d.
Filed(p, L, d, n) == {e \in L \ todo[p] : DirOf(e.doc.protocol) = d /\ e.doc.name = n}

\* Of those that share a file the oldest so far has it, as the youngest is
\* written first; and an HTTPS file is written beside its pair only.
FilledFrom(p, L) ==
  /\ Reading(L)
  /\ solo[p] => L = {Ent(l) : l \in {k \in Balancers : Active(k)}}
  /\ todo[p] \subseteq L
  /\ \A e \in L \ todo[p], f \in todo[p] : f.doc.born < e.doc.born
  /\ \A d \in Dirs, n \in Names :
       /\ Filed(p, L, d, n) = {} => disk[d][n] = None
       /\ \A e \in Filed(p, L, d, n) :
            (\A f \in Filed(p, L, d, n) : e.doc.born <= f.doc.born) => Says(p, disk[d][n], e)
  /\ \A e \in L \ todo[p] : e.doc.protocol = "HTTPS" => Has(key, e.doc.name) /\ Has(crt, e.doc.name)
  /\ pc[p] \in {"render", "write"} /\ Entry(p).doc.protocol = "HTTPS" =>
       Has(key, Entry(p).doc.name) /\ Has(crt, Entry(p).doc.name)
  /\ pc[p] = "write" => Says(p, conf[p], Entry(p))

Filled(p) == pc[p] \in Filling => \E L \in SUBSET Entries : FilledFrom(p, L)

Undisturbed == \A p \in Procs : Alone(p) => Cleaned(p) /\ Filled(p)

Documented == Aged /\ (~clashed => PortsUnique)
Certified == KeysFirst /\ Pairs /\ CertsFit /\ Whole

IInv == Typed /\ Documented /\ Apart /\ Certified /\ Undisturbed /\ NginxRunsTheFiles

------------------------------------------------------------------------------
(* Types. *)

LEMMA EntryIn ==
  ASSUME TypeOK, NEW p \in Procs,
         pc[p] \in {"next", "key", "crt", "fill", "render", "write"}, todo[p] # {}
  PROVE  /\ todo[p] \in SUBSET Entries /\ Entry(p) \in todo[p] /\ Entry(p) \in Entries
         /\ \A f \in todo[p] : f.doc.born <= Entry(p).doc.born
         /\ Entry(p).lb \in Balancers /\ Entry(p).doc \in Documents
         /\ Entry(p).doc.name \in Names /\ Entry(p).doc.protocol \in Protocols
<1>1. todo[p] \in SUBSET Entries /\ todo[p] # {}
  BY DEF TypeOK
<1>2. Entry(p) \in todo[p] /\ \A f \in todo[p] : f.doc.born <= Entry(p).doc.born
  BY <1>1, YoungestIn DEF Entry
<1>3. Entry(p).lb \in Balancers /\ Entry(p).doc \in Documents
  BY <1>1, <1>2 DEF Entries
<1> QED BY <1>1, <1>2, <1>3 DEF Documents

LEMMA TextTyped ==
  ASSUME NEW l \in Balancers, NEW d \in Documents, NEW S
  PROVE  Text(l, d, l \in S) \in Texts /\ Text(l, d, l \in S) # None
<1>1. (l \in S) \in BOOLEAN
  OBVIOUS
<1>2. d.protocol \in Protocols /\ d.port \in Ports \cup {None}
  BY DEF Documents
<1>3. \A running \in BOOLEAN : Text(l, d, running) \in Texts
  BY <1>2 DEF Text, Texts
<1>4. Text(l, d, l \in S) \in Texts
  BY <1>1, <1>3
<1> QED BY <1>4, EdgeAssumption

Steps == {"idle", "down", "insert", "set", "glob", "unlink", "list", "next", "key", "crt",
          "fill", "render", "write"}

\* The processes' variables, for one of them.
Busy(p) ==
  /\ pc[p] = "unlink" => todo[p] \in (SUBSET Names) \ {{}}
  /\ pc[p] = "next" => todo[p] \in SUBSET Entries
  /\ pc[p] \in {"key", "crt", "fill", "render", "write"} => todo[p] \in (SUBSET Entries) \ {{}}
  /\ pc[p] \in {"idle", "down", "insert", "set", "glob", "list"} => todo[p] = {}
  /\ conf[p] = None <=> pc[p] # "write"
  /\ pc[p] = "write" => conf[p] \in Texts
  /\ pc[p] = "insert" => req[p] \in Creates
  /\ pc[p] = "set" => req[p] \in Updates
  /\ pc[p] \notin {"insert", "set"} => req[p] = None
  /\ pc[p] \in Away => dir[p] = "lbs"

ProcsTyped ==
  /\ pc \in [Procs -> Steps]
  /\ dir \in [Procs -> Dirs]
  /\ todo = [p \in Procs |-> todo[p]] /\ conf = [p \in Procs |-> conf[p]]
  /\ req = [p \in Procs |-> req[p]]
  /\ \A p \in Procs : Busy(p)

Rest ==
  /\ doc \in [Balancers -> Documents \cup {None}]
  /\ up \subseteq Balancers
  /\ disk \in Disks /\ live \in Disks
  /\ key \in [Names -> Procs \cup {None}]
  /\ crt \in [Names -> Procs \cup {Torn, None}]
  /\ changes \in 0 .. MaxChanges /\ deaths \in 0 .. MaxDeaths
  /\ solo \in [Procs -> BOOLEAN] /\ overlapped \in BOOLEAN /\ clashed \in BOOLEAN

LEMMA TypedParts == Typed <=> ProcsTyped /\ Rest
<1>1. ASSUME Typed PROVE ProcsTyped /\ Rest
  <2>1. Rest
    BY <1>1 DEF Typed, TypeOK, Rest
  <2>2. ASSUME NEW p \in Procs PROVE Busy(p)
    BY <1>1 DEF Typed, TypeOK, Busy
  <2> QED BY <1>1, <2>1, <2>2 DEF Typed, TypeOK, ProcsTyped, Steps
<1>2. ASSUME ProcsTyped, Rest PROVE Typed
  <2>1. ASSUME NEW p \in Procs
        PROVE  /\ CASE pc[p] = "unlink" -> todo[p] \in (SUBSET Names) \ {{}}
                    [] pc[p] = "next" -> todo[p] \in SUBSET Entries
                    [] pc[p] \in {"key", "crt", "fill", "render", "write"} ->
                         todo[p] \in (SUBSET Entries) \ {{}}
                    [] OTHER -> todo[p] = {}
               /\ conf[p] = None <=> pc[p] # "write"
               /\ CASE pc[p] = "insert" -> req[p] \in Creates
                    [] pc[p] = "set" -> req[p] \in Updates
                    [] OTHER -> req[p] = None
               /\ pc[p] = "write" => conf[p] \in Texts
               /\ pc[p] \in Away => dir[p] = "lbs"
    BY <1>2 DEF ProcsTyped, Busy, Steps
  <2> QED BY <1>2, <2>1 DEF Typed, TypeOK, ProcsTyped, Rest, Steps
<1> QED BY <1>1, <1>2

LEMMA TypedAfter == ProcsTyped' /\ Rest' => Typed'
BY TypedParts, PTL

\* A step of p leaves the variables of the other processes alone.
OthersKept(p) ==
  /\ pc' \in [Procs -> Steps] /\ dir' \in [Procs -> Dirs]
  /\ todo' = [q \in Procs |-> todo'[q]] /\ conf' = [q \in Procs |-> conf'[q]]
  /\ req' = [q \in Procs |-> req'[q]]
  /\ \A q \in Procs \ {p} : /\ pc'[q] = pc[q] /\ todo'[q] = todo[q] /\ conf'[q] = conf[q]
                           /\ dir'[q] = dir[q] /\ req'[q] = req[q]

LEMMA MineTyped ==
  ASSUME ProcsTyped, NEW p \in Procs, OthersKept(p), Busy(p)'
  PROVE  ProcsTyped'
<1>1. \A q \in Procs \ {p} : Busy(q)'
  BY DEF ProcsTyped, Busy, OthersKept
<1> QED BY <1>1 DEF ProcsTyped, Steps, OthersKept

\* One process steps.
Step(p) ==
  Sync(p) \/ Die(p) \/ Restart(p)

LEMMA BeginTyped ==
  ASSUME ProcsTyped, NEW p \in Procs, pc[p] \in Away, BeginSync(p),
         req' = [req EXCEPT ![p] = None]
  PROVE  /\ ProcsTyped' /\ OthersKept(p) /\ pc'[p] = "glob" /\ dir' = dir
         /\ solo' \in [Procs -> BOOLEAN] /\ (overlapped \in BOOLEAN => overlapped' \in BOOLEAN)
         /\ \A q \in Procs \ {p} : ~solo'[q]
<1>1. OthersKept(p)
  BY DEF BeginSync, Goto, ProcsTyped, Steps, OthersKept
<1>2. pc'[p] = "glob" /\ Busy(p)'
  BY DEF BeginSync, Goto, ProcsTyped, Busy, Away
<1> QED BY <1>1, <1>2, MineTyped DEF BeginSync

\* A process that is not at a request has none.
LEMMA NoRequest ==
  ASSUME ProcsTyped, NEW p \in Procs, pc[p] \notin {"insert", "set"}, UNCHANGED req
  PROVE  req' = [req EXCEPT ![p] = None]
<1>1. req[p] = None
  BY DEF ProcsTyped, Busy
<1>2. req = [q \in Procs |-> req[q]]
  BY DEF ProcsTyped
<1> QED BY <1>1, <1>2

LEMMA SyncTyped ==
  ASSUME Typed, NEW p \in Procs, Step(p)
  PROVE  OthersKept(p) /\ Busy(p)'
<1>0. ProcsTyped /\ Rest /\ TypeOK
  BY TypedParts DEF Typed
<1> USE <1>0
<1>1. CASE Glob(p)
  <2>1. PICK rest \in SUBSET Names : Unlinking(p, rest)
    BY <1>1 DEF Glob
  <2>2. /\ todo' = [todo EXCEPT ![p] = rest] /\ UNCHANGED <<conf, req>> /\ pc[p] = "glob"
        /\ dir' = [dir EXCEPT ![p] = IF rest = {} THEN "lb-stream" ELSE dir[p]]
    BY <1>1, <2>1 DEF Glob, Unlinking
  <2>3. PICK s \in {"list", "glob", "unlink"} :
          pc' = [pc EXCEPT ![p] = s] /\ (s = "unlink" <=> rest # {})
    BY <2>1 DEF Unlinking, Goto, Cleared
  <2>4. OthersKept(p)
    BY <2>2, <2>3 DEF ProcsTyped, OthersKept, Steps, Dirs
  <2>5. /\ pc'[p] = s /\ todo'[p] = rest /\ conf'[p] = conf[p] /\ conf[p] = None
        /\ req'[p] = None
    BY <2>2, <2>3 DEF ProcsTyped, Busy
  <2> QED BY <2>3, <2>4, <2>5 DEF Busy, Away
<1>2. CASE Unlink(p)
  <2>1. todo[p] \in SUBSET Names
    BY <1>2 DEF ProcsTyped, Busy, Unlink
  <2>2. todo[p] \ {First(todo[p])} \in SUBSET Names /\ pc[p] = "unlink" /\ req' = req
    BY <1>2, <2>1 DEF Unlink
  <2>3. CASE Abort(p)
    BY <2>2, <2>3 DEF Abort, Stop, Goto, ProcsTyped, Busy, OthersKept, Steps, Dirs, Away
  <2>4. CASE Unlinking(p, todo[p] \ {First(todo[p])})
    BY <2>2, <2>4 DEF Unlinking, Cleared, Goto, ProcsTyped, Busy, OthersKept, Steps, Dirs, Away
  <2> QED BY <1>2, <2>3, <2>4 DEF Unlink
<1>3. CASE List(p)
  <2>1. {[lb |-> l, doc |-> doc[l]] : l \in {k \in Balancers : Active(k)}} \in SUBSET Entries
    BY DEF Rest, Active, Entries
  <2> QED BY <1>3, <2>1 DEF List, Goto, ProcsTyped, Busy, OthersKept, Steps, Dirs, Away
<1>4. CASE Take(p)
  <2>1. PICK s \in {"key", "render"} : pc' = [pc EXCEPT ![p] = s]
    BY <1>4 DEF Take, Goto
  <2>2. UNCHANGED <<todo, dir, conf, req>> /\ pc[p] = "next" /\ todo[p] # {}
    BY <1>4 DEF Take
  <2>3. OthersKept(p)
    BY <2>1, <2>2 DEF ProcsTyped, OthersKept, Steps
  <2>4. /\ pc'[p] = s /\ todo'[p] = todo[p] /\ conf'[p] = conf[p]
        /\ conf[p] = None /\ todo[p] \in SUBSET Entries /\ req'[p] = None
    BY <2>1, <2>2 DEF ProcsTyped, Busy
  <2> QED BY <2>2, <2>3, <2>4 DEF Busy, Away
<1>5. CASE WriteKey(p) \/ OpenCrt(p) \/ FillCrt(p)
  <2>1. PICK s \in {"crt", "fill", "render"} : pc' = [pc EXCEPT ![p] = s]
    BY <1>5 DEF WriteKey, OpenCrt, FillCrt, Goto
  <2>2. UNCHANGED <<todo, dir, conf, req>> /\ pc[p] \in {"key", "crt", "fill"}
    BY <1>5 DEF WriteKey, OpenCrt, FillCrt
  <2> QED BY <2>1, <2>2 DEF ProcsTyped, Busy, OthersKept, Steps, Away
<1>8. CASE Render(p)
  <2>1. pc[p] = "render" /\ todo[p] # {}
    BY <1>8 DEF Render, ProcsTyped, Busy
  <2>2. Entry(p).lb \in Balancers /\ Entry(p).doc \in Documents
    BY <2>1, EntryIn
  <2>3. PICK text \in Texts : text # None /\ conf' = [conf EXCEPT ![p] = text]
    BY <1>8, <2>2, TextTyped DEF Render
  <2> QED BY <1>8, <2>3 DEF Render, Goto, ProcsTyped, Busy, OthersKept, Steps, Dirs, Away
<1>6. CASE Write(p)
  BY <1>6 DEF Write, Goto, ProcsTyped, Busy, OthersKept, Steps, Dirs, Away
<1>9. CASE Reload(p)
  BY <1>9 DEF Reload, Stop, Goto, ProcsTyped, Busy, OthersKept, Steps, Dirs, Away
<1>10. CASE Die(p)
  BY <1>10 DEF Die, Stop, Goto, ProcsTyped, Busy, OthersKept, Steps, Dirs, Away
<1>7. CASE Restart(p)
  <2>1. CASE p = Api /\ BeginSync(p)
    <3>1. pc[p] = "down" /\ UNCHANGED req
      BY <1>7 DEF Restart
    <3>2. req' = [req EXCEPT ![p] = None]
      BY <3>1, NoRequest
    <3> QED BY <2>1, <3>1, <3>2, BeginTyped DEF ProcsTyped, Away
  <2>2. CASE Goto(p, "idle") /\ UNCHANGED <<dir, todo, conf, solo, overlapped>>
    BY <1>7, <2>2 DEF Restart, Goto, ProcsTyped, Busy, OthersKept, Steps, Dirs, Away
  <2> QED BY <1>7, <2>1, <2>2 DEF Restart
<1> QED BY <1>1, <1>2, <1>3, <1>4, <1>5, <1>6, <1>7, <1>8, <1>9, <1>10 DEF Step, Sync

LEMMA FileTyped ==
  ASSUME NEW f \in Disks, NEW d \in Dirs, NEW n \in Names, NEW v \in Texts \cup {None}
  PROVE  [f EXCEPT ![d][n] = v] \in Disks
BY DEF Disks

LEMMA StepTyped ==
  ASSUME Typed, NEW p \in Procs, Step(p)
  PROVE  Typed'
<1>0. ProcsTyped /\ Rest /\ TypeOK
  BY TypedParts DEF Typed
<1>1. ProcsTyped'
  BY <1>0, SyncTyped, MineTyped
<1>2. Rest'
  <2> USE <1>0 DEF Rest
  <2>1. CASE Glob(p) \/ List(p) \/ Take(p) \/ Render(p)
    BY <2>1 DEF Glob, List, Take, Render, files, history
  <2>2. CASE Unlink(p)
    <3>1. CASE disk' = [disk EXCEPT ![dir[p]][First(todo[p])] = None]
      <4>1. dir[p] \in Dirs /\ First(todo[p]) \in Names
        BY <2>2, FirstIn DEF Unlink, ProcsTyped, Busy
      <4>2. disk' \in Disks
        BY <3>1, <4>1, FileTyped
      <4>3. solo' \in [Procs -> BOOLEAN]
        BY <2>2 DEF Unlink, Abort, Stop
      <4> QED BY <2>2, <4>2, <4>3 DEF Unlink
    <3>2. CASE disk' = disk
      <4>1. solo' \in [Procs -> BOOLEAN]
        BY <2>2 DEF Unlink, Abort, Stop
      <4> QED BY <2>2, <3>2, <4>1 DEF Unlink
    <3> QED BY <2>2, <3>1, <3>2 DEF Unlink
  <2>3. CASE WriteKey(p) \/ OpenCrt(p) \/ FillCrt(p)
    BY <2>3 DEF WriteKey, NewKey, OpenCrt, FillCrt, history
  <2>4. CASE Write(p)
    <3>1. Entry(p).doc.name \in Names /\ DirOf(Entry(p).doc.protocol) \in Dirs /\ conf[p] \in Texts
      BY <2>4, EntryIn DEF Write, ProcsTyped, Busy, DirOf, Dirs
    <3>2. disk' \in Disks
      BY <2>4, <3>1, FileTyped DEF Write
    <3> QED BY <2>4, <3>2 DEF Write, history
  <2>5. CASE Reload(p)
    BY <2>5 DEF Reload, Stop, files
  <2>6. CASE Die(p)
    BY <2>6, EdgeAssumption DEF Die, Change, Stop, files
  <2>7. CASE Restart(p)
    <3>1. UNCHANGED <<doc, up, files, live, changes, deaths, clashed>>
          /\ (BeginSync(p) \/ UNCHANGED <<solo, overlapped>>)
      BY <2>7 DEF Restart
    <3> QED BY <3>1 DEF BeginSync, files
  <2> QED BY <2>1, <2>2, <2>3, <2>4, <2>5, <2>6, <2>7 DEF Step, Sync
<1> QED BY <1>1, <1>2, TypedAfter

\* What a handler does in one step: it stores a document of a new age or its own,
\* or removes one; or it waits for its turn to; or it finds the document gone.
Stores(p) ==
  \E l \in Balancers, d \in Documents \cup {None}, running \in BOOLEAN :
    /\ Store(p, l, d, running)
    /\ d # None => d.born = changes \/ (doc[l] # None /\ d.born = doc[l].born)
Waits(p) ==
  \/ pc[p] = "idle" /\ \E r \in Creates : Wait(p, "insert", r)
  \/ pc[p] = "idle" /\ \E r \in Updates : Wait(p, "set", r)
Misses(p) ==
  /\ pc[p] = "set"
  /\ Goto(p, "idle")
  /\ req' = [req EXCEPT ![p] = None]
  /\ UNCHANGED <<doc, up, files, live, dir, todo, conf, changes, deaths, history>>

Handler(p) ==
  \/ \E r \in Creates : Create(p, r) \/ \E running \in BOOLEAN : Insert(p, r, running)
  \/ \E r \in Patches : Update(p, r) \/ \E running \in BOOLEAN : Set(p, r, running)
  \/ \E l \in Balancers : Delete(p, l)

LEMMA HandlerDoes ==
  ASSUME Typed, NEW p \in Apis, Handler(p)
  PROVE  /\ p \in Procs /\ pc[p] \in {"idle", "insert", "set"}
         /\ Stores(p) \/ Waits(p) \/ Misses(p)
<1>0. Rest /\ ProcsTyped
  BY TypedParts
<1>1. p \in Procs
  BY DEF Procs
<1>2. ASSUME NEW r \in Creates, Create(p, r)
      PROVE  pc[p] = "idle" /\ Waits(p)
  BY <1>2 DEF Create, Wait, Idle, Waits
<1>3. ASSUME NEW r \in Creates, NEW running \in BOOLEAN, Insert(p, r, running)
      PROVE  pc[p] \in {"idle", "insert"} /\ Stores(p)
  <2> DEFINE d == [status |-> "active", protocol |-> r.protocol, name |-> r.name,
                   port |-> r.port, born |-> changes]
  <2>1. d \in Documents /\ d.born = changes /\ r.lb \in Balancers
    BY <1>0 DEF Documents, Creates, Rest
  <2>2. Store(p, r.lb, d, running) /\ pc[p] \in {"idle", "insert"}
    BY <1>3 DEF Insert, Idle
  <2> HIDE DEF d
  <2> QED BY <2>1, <2>2 DEF Stores
<1>4. ASSUME NEW r \in Updates, Update(p, r)
      PROVE  pc[p] = "idle" /\ Waits(p)
  BY <1>4 DEF Update, Wait, Idle, Waits
<1>5. ASSUME NEW r \in Updates, NEW running \in BOOLEAN, Set(p, r, running)
      PROVE  pc[p] \in {"idle", "set"} /\ (Stores(p) \/ Misses(p))
  <2> DEFINE c == doc[r.lb]
             d == [status |-> Named(r.status, c.status), protocol |-> c.protocol,
                   name |-> Named(r.name, c.name), port |-> Named(r.port, c.port),
                   born |-> c.born]
  <2>1. pc[p] \in {"idle", "set"} /\ r.lb \in Balancers
    BY <1>5 DEF Set, Idle, Updates
  <2>2. CASE c # None /\ Store(p, r.lb, d, running)
    <3>1. c \in Documents
      BY <1>0, <2>1, <2>2 DEF Rest
    <3>2. d \in Documents
      BY <3>1 DEF Documents, Updates, Named
    <3>3. d.born = c.born
      OBVIOUS
    <3> HIDE DEF d
    <3> QED BY <2>1, <2>2, <3>2, <3>3 DEF Stores
  <2>3. CASE c = None
    <3>1. pc[p] = "set" /\ ~(c # None)
      BY <1>5, <2>3 DEF Set
    <3> QED BY <1>5, <3>1 DEF Set, Misses
  <2> QED BY <1>5, <2>1, <2>2, <2>3 DEF Set
<1>6. ASSUME NEW l \in Balancers, Delete(p, l)
      PROVE  pc[p] = "idle" /\ Stores(p)
  <2>1. pc[p] = "idle" /\ Store(p, l, None, FALSE)
    BY <1>6 DEF Delete, Idle
  <2> QED BY <2>1 DEF Stores
<1>7. Patches \subseteq Updates
  BY EdgeAssumption
<1> QED BY <1>1, <1>2, <1>3, <1>4, <1>5, <1>6, <1>7 DEF Handler

LEMMA StoreTyped ==
  ASSUME Typed, NEW p \in Procs, pc[p] \in Away, NEW l \in Balancers,
         NEW d \in Documents \cup {None}, NEW running, Store(p, l, d, running)
  PROVE  Typed'
<1>0. ProcsTyped /\ Rest
  BY TypedParts
<1>1. ProcsTyped' /\ solo' \in [Procs -> BOOLEAN] /\ overlapped' \in BOOLEAN
  <2>1. Changed(p) /\ req' = [req EXCEPT ![p] = None]
    BY DEF Store, Changed
  <2>2. CASE BeginSync(p)
    BY <1>0, <2>1, <2>2, BeginTyped DEF Rest
  <2>3. CASE /\ Goto(p, "idle") /\ solo' = [q \in Procs |-> FALSE]
             /\ UNCHANGED <<dir, todo, conf, overlapped>>
    <3>1. OthersKept(p) /\ Busy(p)'
      BY <1>0, <2>1, <2>3 DEF Goto, ProcsTyped, Busy, OthersKept, Steps, Away
    <3> QED BY <1>0, <2>3, <3>1, MineTyped DEF Rest
  <2> QED BY <2>1, <2>2, <2>3 DEF Changed
<1>2. doc' \in [Balancers -> Documents \cup {None}] /\ up' \subseteq Balancers /\ clashed' \in BOOLEAN
  BY <1>0 DEF Store, Rest
<1>3. changes' \in 0 .. MaxChanges
  BY <1>0, EdgeAssumption DEF Store, Change, Rest
<1> QED BY <1>0, <1>1, <1>2, <1>3, TypedAfter DEF Store, files, Rest

LEMMA HandlerTyped ==
  ASSUME Typed,
         \/ \E p \in Apis : Handler(p)
         \/ \E l \in Balancers : Retarget(l)
         \/ \E w \in Workers : WorkerSync(w)
  PROVE  Typed'
<1>0. ProcsTyped /\ Rest /\ TypeOK
  BY TypedParts DEF Typed
<1> USE <1>0
<1>1. CASE \E p \in Apis : Handler(p)
  <2>1. PICK p \in Apis : Handler(p)
    BY <1>1
  <2>2. p \in Procs /\ pc[p] \in Away
    BY <2>1, HandlerDoes DEF Away
  <2>3. CASE Stores(p)
    BY <2>2, <2>3, StoreTyped DEF Stores
  <2>4. CASE Waits(p)
    <3>1. PICK step, r : /\ Wait(p, step, r) /\ pc[p] = "idle"
                         /\ \/ step = "insert" /\ r \in Creates
                            \/ step = "set" /\ r \in Updates
      BY <2>4 DEF Waits
    <3>2. OthersKept(p) /\ Busy(p)'
      BY <2>2, <3>1 DEF Wait, Goto, ProcsTyped, Busy, OthersKept, Steps, Away
    <3>3. Rest'
      BY <3>1 DEF Wait, files, history, Rest
    <3> QED BY <2>2, <3>2, <3>3, MineTyped, TypedAfter
  <2>5. CASE Misses(p)
    <3>1. OthersKept(p) /\ Busy(p)'
      BY <2>2, <2>5 DEF Misses, Goto, ProcsTyped, Busy, OthersKept, Steps, Away
    <3>2. Rest'
      BY <2>5 DEF Misses, files, history, Rest
    <3> QED BY <2>2, <3>1, <3>2, MineTyped, TypedAfter
  <2> QED BY <2>1, <2>3, <2>4, <2>5, HandlerDoes
<1>2. CASE \E l \in Balancers : Retarget(l)
  <2>1. PICK l \in Balancers : Retarget(l)
    BY <1>2
  <2>2. ProcsTyped'
    BY <2>1 DEF Retarget, procs, ProcsTyped, Busy
  <2>3. Rest'
    BY <2>1, EdgeAssumption DEF Retarget, Change, files, Rest
  <2> QED BY <2>2, <2>3, TypedAfter
<1>3. CASE \E w \in Workers : WorkerSync(w)
  <2>1. PICK w \in Workers : WorkerSync(w)
    BY <1>3
  <2>2. w \in Procs /\ pc[w] = "idle" /\ BeginSync(w) /\ UNCHANGED req
    BY <2>1 DEF WorkerSync, Idle, Procs
  <2>3. req' = [req EXCEPT ![w] = None]
    BY <2>2, NoRequest
  <2>4. ProcsTyped' /\ solo' \in [Procs -> BOOLEAN] /\ overlapped' \in BOOLEAN
    BY <2>2, <2>3, BeginTyped DEF Away, Rest
  <2>5. Rest'
    BY <2>1, <2>4, EdgeAssumption DEF WorkerSync, Change, files, Rest
  <2> QED BY <2>4, <2>5, TypedAfter
<1> QED BY <1>1, <1>2, <1>3

------------------------------------------------------------------------------
(* Documents. *)

LEMMA DocumentsKept ==
  ASSUME Typed, Documented, Next
  PROVE  Documented'
<1>0. Rest
  BY TypedParts
<1>1. changes \in Nat /\ \A k \in Balancers : doc[k] # None => doc[k].born \in Nat
  BY <1>0, EdgeAssumption DEF Rest, Documents
<1>2. CASE \E p \in Apis : Stores(p)
  <2>1. PICK p \in Apis, l \in Balancers, d \in Documents \cup {None}, running \in BOOLEAN :
          /\ Store(p, l, d, running)
          /\ d # None => d.born = changes \/ (doc[l] # None /\ d.born = doc[l].born)
    BY <1>2 DEF Stores
  <2>2. doc'[l] = d /\ \A k \in Balancers \ {l} : doc'[k] = doc[k]
    BY <1>0, <2>1 DEF Store, Rest
  <2>3. changes' = changes + 1 /\ (~clashed' => PortsUnique')
    BY <2>1 DEF Store, Change
  <2>4. Aged'
    BY <1>1, <2>1, <2>2, <2>3 DEF Documented, Aged
  <2> QED BY <2>3, <2>4 DEF Documented
<1>3. CASE doc' = doc /\ clashed' = clashed /\ changes' \in {changes, changes + 1}
  BY <1>1, <1>3 DEF Documented, Aged, PortsUnique, Active
<1>4. CASE \E p \in Apis : Waits(p) \/ Misses(p)
  BY <1>3, <1>4 DEF Waits, Wait, Misses, history
<1>5. CASE \/ \E l \in Balancers : Retarget(l)
           \/ \E w \in Workers : WorkerSync(w)
  BY <1>3, <1>5 DEF Retarget, WorkerSync, Change
<1>6. CASE \E p \in Procs : Sync(p) \/ Die(p) \/ Restart(p)
  BY <1>3, <1>6 DEF Sync, Glob, Unlink, List, Take, WriteKey, OpenCrt, FillCrt, Render, Write,
     Reload, Die, Change, Restart, history
<1> QED BY <1>2, <1>4, <1>5, <1>6, HandlerDoes DEF Next, Handler

------------------------------------------------------------------------------
(* Rebuilds that begin, and processes that die or start. *)

\* A rebuild begins.
Begins(p) ==
  /\ pc[p] \in Away
  /\ BeginSync(p)
  /\ req' = [req EXCEPT ![p] = None]
  /\ UNCHANGED <<files, live, deaths>>
  /\ clashed => clashed'

\* A step beside the rebuilds: if it changes what they read, they are on record
\* as disturbed.
Aside ==
  /\ \A q \in Procs : pc'[q] = pc[q] \/ {pc[q], pc'[q]} \subseteq Away
  /\ UNCHANGED <<files, live, dir, todo, conf, deaths, overlapped>>
  /\ clashed => clashed'
  /\ (\A q \in Procs : ~solo'[q]) \/ UNCHANGED <<doc, up, solo>>

\* What a step is for the files.
LEMMA Kinds ==
  ASSUME Typed, Next
  PROVE  \/ \E p \in Procs : Begins(p)
         \/ \E p \in Procs : Sync(p) \/ Die(p)
         \/ Aside
<1>0. ProcsTyped /\ Rest
  BY TypedParts
<1>1. ASSUME NEW p \in Apis, Handler(p)
      PROVE  Begins(p) \/ Aside
  <2>1. p \in Procs /\ pc[p] \in Away
    BY <1>1, HandlerDoes DEF Away
  <2>2. CASE Stores(p)
    <3>1. PICK l \in Balancers, d \in Documents \cup {None}, running \in BOOLEAN :
            Store(p, l, d, running)
      BY <2>2 DEF Stores
    <3>2. CASE BeginSync(p)
      BY <2>1, <3>1, <3>2 DEF Store, Changed, Begins
    <3>3. CASE /\ Goto(p, "idle") /\ solo' = [q \in Procs |-> FALSE]
               /\ UNCHANGED <<dir, todo, conf, overlapped>>
      <4>1. \A q \in Procs : pc'[q] = pc[q] \/ {pc[q], pc'[q]} \subseteq Away
        BY <1>0, <2>1, <3>3 DEF Goto, ProcsTyped, Away
      <4> QED BY <3>1, <3>3, <4>1 DEF Store, Aside
    <3> QED BY <3>1, <3>2, <3>3 DEF Store, Changed
  <2>3. CASE Waits(p)
    <3>1. PICK step \in {"insert", "set"} : \E r : Wait(p, step, r)
      BY <2>3 DEF Waits
    <3>2. \A q \in Procs : pc'[q] = pc[q] \/ {pc[q], pc'[q]} \subseteq Away
      BY <1>0, <2>1, <3>1 DEF Wait, Goto, ProcsTyped, Away
    <3> QED BY <3>1, <3>2 DEF Wait, history, Aside
  <2>4. CASE Misses(p)
    <3>1. \A q \in Procs : pc'[q] = pc[q] \/ {pc[q], pc'[q]} \subseteq Away
      BY <1>0, <2>1, <2>4 DEF Misses, Goto, ProcsTyped, Away
    <3> QED BY <2>4, <3>1 DEF Misses, history, Aside
  <2> QED BY <1>1, <2>2, <2>3, <2>4, HandlerDoes
<1>2. ASSUME NEW w \in Workers, WorkerSync(w)
      PROVE  w \in Procs /\ Begins(w)
  <2>1. w \in Procs /\ pc[w] = "idle" /\ UNCHANGED req
    BY <1>2 DEF WorkerSync, Idle, Procs
  <2>2. req' = [req EXCEPT ![w] = None]
    BY <1>0, <2>1, NoRequest
  <2> QED BY <1>2, <2>1, <2>2 DEF WorkerSync, Begins, Away
<1>3. ASSUME NEW p \in Procs, Restart(p)
      PROVE  Begins(p) \/ Aside
  <2>1. pc[p] = "down" /\ UNCHANGED <<doc, up, files, live, req, deaths, clashed>>
    BY <1>3 DEF Restart
  <2>2. CASE BeginSync(p)
    <3>1. req' = [req EXCEPT ![p] = None]
      BY <1>0, <2>1, NoRequest
    <3> QED BY <2>1, <2>2, <3>1 DEF Begins, Away
  <2>3. CASE Goto(p, "idle") /\ UNCHANGED <<dir, todo, conf, solo, overlapped>>
    <3>1. \A q \in Procs : pc'[q] = pc[q] \/ {pc[q], pc'[q]} \subseteq Away
      BY <1>0, <2>1, <2>3 DEF Goto, ProcsTyped, Away
    <3> QED BY <2>1, <2>3, <3>1 DEF Aside
  <2> QED BY <1>3, <2>2, <2>3 DEF Restart
<1>4. ASSUME NEW l \in Balancers, Retarget(l)
      PROVE  Aside
  BY <1>4 DEF Retarget, procs, Aside
<1>5. Apis \subseteq Procs
  BY DEF Procs
<1> QED BY <1>1, <1>2, <1>3, <1>4, <1>5 DEF Next, Handler

LEMMA Begun ==
  ASSUME Typed, NEW p \in Procs, Begins(p)
  PROVE  /\ \A q \in Procs : Alone(q)' => q = p
         /\ Alone(p)' => \A q \in Procs \ {p} : ~Syncing(q)'
         /\ pc'[p] = "glob" /\ dir'[p] = "lbs" /\ todo' = todo
         /\ \A q \in Procs \ {p} : pc'[q] = pc[q]
         /\ overlapped => overlapped'
<1>1. ProcsTyped /\ BeginSync(p) /\ OthersKept(p) /\ pc'[p] = "glob" /\ dir' = dir
  BY TypedParts, BeginTyped DEF Begins
<1>2. \A q \in Procs \ {p} : pc'[q] = pc[q] /\ (Syncing(q)' <=> Syncing(q))
  BY <1>1 DEF OthersKept, Syncing, Idle, Handling
<1>3. \A q \in Procs \ {p} : ~solo'[q] /\ (Syncing(q) => overlapped')
  BY <1>1 DEF BeginSync
<1>4. solo'[p] \/ ~overlapped' => \A q \in Procs \ {p} : ~Syncing(q)
  BY <1>1 DEF BeginSync
<1>5. dir[p] = "lbs"
  BY <1>1 DEF Begins, ProcsTyped, Busy
<1> QED BY <1>1, <1>2, <1>3, <1>4, <1>5 DEF Alone, BeginSync

\* A step within a rebuild, or a death.
LEMMA Within ==
  ASSUME Typed, NEW p \in Procs, Sync(p) \/ Die(p)
  PROVE  /\ UNCHANGED <<doc, up, overlapped, clashed>>
         /\ \A q \in Procs \ {p} : /\ pc'[q] = pc[q] /\ todo'[q] = todo[q] /\ conf'[q] = conf[q]
                                  /\ dir'[q] = dir[q] /\ solo'[q] = solo[q]
         /\ solo'[p] => solo[p]
         /\ \A q \in Procs : Syncing(q)' => Syncing(q)
         /\ \A q \in Procs : Alone(q)' => Alone(q)
<1>0. Rest /\ ProcsTyped
  BY TypedParts
<1>1. OthersKept(p)
  BY SyncTyped DEF Step
<1>2. Sync(p) => Syncing(p)
  BY DEF Sync, Syncing, Idle, Handling, Glob, Unlink, List, Take, WriteKey, OpenCrt, FillCrt, Render,
     Write, Reload
<1>3. Die(p) => pc'[p] = "down"
  BY <1>0 DEF Die, Stop, Goto, ProcsTyped
<1>4. UNCHANGED <<doc, up, overlapped, clashed>>
  BY DEF Sync, Glob, Unlink, List, Take, WriteKey, OpenCrt, FillCrt, Render, Write, Reload, Die, history
<1>5. solo' = solo \/ solo' = [solo EXCEPT ![p] = FALSE]
  BY DEF Sync, Glob, Unlink, Abort, List, Take, WriteKey, OpenCrt, FillCrt, Render, Write, Reload, Die,
     Stop, history
<1>6. (solo'[p] => solo[p]) /\ \A q \in Procs \ {p} : solo'[q] = solo[q]
  BY <1>0, <1>5 DEF Rest
<1>7. \A q \in Procs \ {p} : pc'[q] = pc[q]
  BY <1>1 DEF OthersKept
<1>8. \A q \in Procs : Syncing(q)' => Syncing(q)
  BY <1>2, <1>3, <1>7 DEF Syncing, Idle, Handling
<1> QED BY <1>1, <1>4, <1>6, <1>8 DEF OthersKept, Alone

\* A step beside the rebuilds begins and ends none.
LEMMA Beside ==
  ASSUME Aside
  PROVE  /\ \A q \in Procs : (Syncing(q)' <=> Syncing(q)) /\ (Alone(q)' => Alone(q))
         /\ \A q \in Procs : Syncing(q) => pc'[q] = pc[q]
         /\ \A q \in Procs : pc'[q] = pc[q] \/ pc'[q] \in Away
BY DEF Aside, Syncing, Idle, Handling, Alone, Away

LEMMA ApartKept ==
  ASSUME Typed, Apart, Next
  PROVE  Apart'
<1>1. CASE \E p \in Procs : Begins(p)
  BY <1>1, Begun DEF Apart
<1>2. CASE \E p \in Procs : Sync(p) \/ Die(p)
  BY <1>2, Within DEF Apart
<1>3. CASE Aside
  BY <1>3, Beside DEF Apart
<1> QED BY <1>1, <1>2, <1>3, Kinds

------------------------------------------------------------------------------
(* Keys and certificates. *)

\* Nothing happens to the pairs, and nobody arrives where one is made.
LEMMA PairsStay ==
  ASSUME Certified, UNCHANGED <<key, crt>>,
         \A p \in Procs : pc'[p] \in {"key", "crt", "fill"} => pc'[p] = pc[p] /\ todo'[p] = todo[p],
         ~overlapped' => ~overlapped,
         ~overlapped' /\ deaths' = 0 =>
           /\ deaths = 0
           /\ \A p \in Procs : pc[p] = "fill" => pc'[p] = "fill" /\ todo'[p] = todo[p]
  PROVE  Certified'
<1>1. \A p \in Procs : todo'[p] = todo[p] => Entry(p)' = Entry(p)
  BY DEF Entry
<1>2. KeysFirst'
  BY <1>1 DEF Certified, KeysFirst, Has
<1>3. Pairs' /\ CertsFit'
  BY <1>1 DEF Certified, Pairs, CertsFit, Has
<1>4. Whole'
  BY <1>1 DEF Certified, Whole
<1> QED BY <1>2, <1>3, <1>4 DEF Certified

\* A pair of files is looked for, made in three steps, and kept.
LEMMA MakingCertifies ==
  ASSUME Typed, Apart, Certified, NEW p \in Procs,
         Take(p) \/ WriteKey(p) \/ OpenCrt(p) \/ FillCrt(p)
  PROVE  Certified'
<1>0. ProcsTyped /\ Rest /\ TypeOK
  BY TypedParts DEF Typed
<1> DEFINE n == Entry(p).doc.name
<1>1. /\ UNCHANGED <<todo, solo, overlapped, deaths, doc>> /\ Syncing(p)
      /\ \A q \in Procs \ {p} : pc'[q] = pc[q]
      /\ \A q \in Procs : Entry(q)' = Entry(q)
  BY <1>0 DEF Take, WriteKey, OpenCrt, FillCrt, Goto, ProcsTyped, Syncing, Idle, Handling, history, Entry
<1>2. ~overlapped => \A q \in Procs \ {p} : ~Syncing(q)
  BY <1>1 DEF Apart, Alone
<1>3. n \in Names
  BY <1>0, EntryIn DEF Take, WriteKey, OpenCrt, FillCrt, ProcsTyped, Busy
<1>4. p # None /\ Torn # None /\ Torn # p
  BY EdgeAssumption
<1> HIDE DEF n
<1>5. CASE Take(p)
  <2>1. UNCHANGED <<key, crt>> /\ pc'[p] \in {"key", "render"} /\ pc[p] = "next"
    BY <1>0, <1>5 DEF Take, Goto, ProcsTyped, files
  <2>2. pc'[p] = "key" => ~(Has(key, n) /\ Has(crt, n))
    BY <1>0, <1>5 DEF Take, Goto, ProcsTyped, n
  <2>3. KeysFirst'
    BY <1>1, <2>1 DEF Certified, KeysFirst, Has
  <2>4. Pairs'
    BY <1>1, <1>2, <1>3, <2>1, <2>2 DEF Certified, KeysFirst, Pairs, Has, Syncing, Idle, Handling, n
  <2>5. CertsFit'
    BY <1>1, <2>1 DEF Certified, CertsFit, Has
  <2>6. Whole'
    BY <1>1, <2>1 DEF Certified, Whole
  <2> QED BY <2>3, <2>4, <2>5, <2>6 DEF Certified
<1>6. CASE WriteKey(p)
  <2>1. crt' = crt /\ key' = [key EXCEPT ![n] = p] /\ pc'[p] = "crt" /\ pc[p] = "key"
    BY <1>0, <1>6 DEF WriteKey, NewKey, Goto, ProcsTyped, n
  <2>2. key'[n] = p /\ \A m \in Names \ {n} : key'[m] = key[m]
    BY <1>0, <1>3, <2>1 DEF Rest
  <2>3. KeysFirst'
    <3>1. \A m \in Names : Has(key, m) => Has(key', m)
      BY <1>4, <2>2 DEF Has
    <3>2. \A q \in Procs : pc[q] \in {"crt", "fill"} => Entry(q).doc.name \in Names
      BY <1>0, EntryIn DEF ProcsTyped, Busy
    <3> QED BY <1>1, <1>4, <2>1, <2>2, <3>1, <3>2 DEF Certified, KeysFirst, Has, n
  <2>4. Pairs'
    BY <1>1, <1>2, <2>1, <2>2 DEF Certified, Pairs, Syncing, Idle, Handling, Has, n
  <2>5. CertsFit'
    BY <1>1, <2>1, <2>2 DEF Certified, Pairs, CertsFit, Has, n
  <2>6. Whole'
    BY <1>1, <2>1 DEF Certified, Whole
  <2> QED BY <2>3, <2>4, <2>5, <2>6 DEF Certified
<1>7. CASE OpenCrt(p)
  <2>1. key' = key /\ crt' = [crt EXCEPT ![n] = Torn] /\ pc'[p] = "fill" /\ pc[p] = "crt"
    BY <1>0, <1>7 DEF OpenCrt, Goto, ProcsTyped, n
  <2>2. crt'[n] = Torn /\ \A m \in Names \ {n} : crt'[m] = crt[m]
    BY <1>0, <1>3, <2>1 DEF Rest
  <2>3. KeysFirst'
    BY <1>1, <2>1, <2>2 DEF Certified, KeysFirst, Has, n
  <2>4. Pairs'
    BY <1>1, <1>2, <2>1, <2>2 DEF Certified, Pairs, Syncing, Idle, Handling, Has, n
  <2>5. CertsFit'
    BY <1>1, <2>1, <2>2 DEF Certified, CertsFit, Has
  <2>6. Whole'
    BY <1>1, <2>1, <2>2 DEF Certified, Whole, n
  <2> QED BY <2>3, <2>4, <2>5, <2>6 DEF Certified
<1>8. CASE FillCrt(p)
  <2>1. key' = key /\ crt' = [crt EXCEPT ![n] = p] /\ pc'[p] = "render" /\ pc[p] = "fill"
    BY <1>0, <1>8 DEF FillCrt, Goto, ProcsTyped, n
  <2>2. crt'[n] = p /\ \A m \in Names \ {n} : crt'[m] = crt[m]
    BY <1>0, <1>3, <2>1 DEF Rest
  <2>3. KeysFirst'
    BY <1>1, <2>1, <2>2 DEF Certified, KeysFirst, Has, n
  <2>4. Pairs'
    BY <1>1, <1>2, <2>1, <2>2 DEF Certified, Pairs, Syncing, Idle, Handling, Has, n
  <2>5. CertsFit'
    BY <1>1, <2>1, <2>2 DEF Certified, Pairs, CertsFit, Has, n
  <2>6. Whole'
    BY <1>1, <1>4, <2>1, <2>2 DEF Certified, Whole, n
  <2> QED BY <2>3, <2>4, <2>5, <2>6 DEF Certified
<1> QED BY <1>5, <1>6, <1>7, <1>8

LEMMA CertifiedKept ==
  ASSUME Typed, Apart, Certified, Next
  PROVE  Certified'
<1>0. ProcsTyped /\ Rest
  BY TypedParts
<1>1. CASE \E p \in Procs : Begins(p)
  <2>1. PICK p \in Procs : Begins(p)
    BY <1>1
  <2>2. /\ pc'[p] = "glob" /\ todo' = todo /\ (\A q \in Procs \ {p} : pc'[q] = pc[q])
        /\ (overlapped => overlapped')
    BY <2>1, Begun
  <2>3. pc[p] # "fill" /\ UNCHANGED <<key, crt, deaths>>
    BY <2>1 DEF Begins, Away, files
  <2> QED BY <2>2, <2>3, PairsStay
<1>2. CASE Aside
  <2>1. \A q \in Procs : pc'[q] = pc[q] \/ (pc'[q] \in Away /\ pc[q] \in Away)
    BY <1>2 DEF Aside
  <2>2. UNCHANGED <<todo, key, crt, deaths, overlapped>>
    BY <1>2 DEF Aside, files
  <2> QED BY <2>1, <2>2, PairsStay DEF Away
<1>3. CASE \E p \in Procs : Take(p) \/ WriteKey(p) \/ OpenCrt(p) \/ FillCrt(p)
  BY <1>3, MakingCertifies
<1>4. CASE \E p \in Procs : Glob(p) \/ Unlink(p) \/ List(p) \/ Render(p) \/ Write(p) \/ Reload(p)
  <2>1. PICK p \in Procs : Glob(p) \/ Unlink(p) \/ List(p) \/ Render(p) \/ Write(p) \/ Reload(p)
    BY <1>4
  <2>2. \A q \in Procs \ {p} : pc'[q] = pc[q] /\ todo'[q] = todo[q]
    BY <2>1, Within DEF Sync
  <2>3. UNCHANGED <<key, crt, deaths, overlapped>>
    BY <2>1 DEF Glob, Unlink, List, Render, Write, Reload, files, history
  <2>4. pc'[p] \notin {"key", "crt", "fill"} /\ pc[p] # "fill"
    BY <1>0, <2>1 DEF Glob, Unlink, Unlinking, Abort, Stop, List, Render, Write, Reload, Goto, ProcsTyped
  <2> QED BY <2>2, <2>3, <2>4, PairsStay
<1>5. CASE \E p \in Procs : Die(p)
  <2>1. PICK p \in Procs : Die(p)
    BY <1>5
  <2>2. (\A q \in Procs \ {p} : pc'[q] = pc[q] /\ todo'[q] = todo[q]) /\ overlapped' = overlapped
    BY <2>1, Within
  <2>3. pc'[p] = "down" /\ deaths' # 0 /\ UNCHANGED <<key, crt>>
    BY <1>0, <2>1 DEF Die, Stop, Goto, ProcsTyped, Rest, files
  <2> QED BY <2>2, <2>3, PairsStay
<1> QED BY <1>1, <1>2, <1>3, <1>4, <1>5, Kinds DEF Sync

------------------------------------------------------------------------------
(* An undisturbed rebuild. *)

\* The names left to unlink are those of the directory's files.
LEMMA UnlinkingCleans ==
  ASSUME ProcsTyped, NEW p \in Procs, NEW rest, Unlinking(p, rest),
         rest = {n \in Names : disk'[dir[p]][n] # None},
         dir[p] = "lb-stream" => \A n \in Names : disk'["lbs"][n] = None
  PROVE  Cleaned(p)' /\ Filled(p)'
<1>1. /\ todo'[p] = rest /\ dir'[p] = (IF rest = {} THEN "lb-stream" ELSE dir[p])
      /\ pc'[p] = (IF rest = {} /\ dir[p] = "lb-stream" THEN "list"
                   ELSE IF rest = {} THEN "glob" ELSE "unlink")
      /\ dir[p] \in {"lbs", "lb-stream"}
  BY DEF Unlinking, Cleared, Goto, ProcsTyped, Dirs
<1>2. Filled(p)'
  BY <1>1 DEF Filled, Filling
<1>3. CASE rest = {}
  <2>1. \A n \in Names : disk'[dir[p]][n] = None
    BY <1>3
  <2> QED BY <1>1, <1>2, <1>3, <2>1 DEF Cleaned, Dirs
<1>4. CASE rest # {}
  BY <1>1, <1>2, <1>4 DEF Cleaned
<1> QED BY <1>3, <1>4

LEMMA CleaningKept ==
  ASSUME Typed, NEW p \in Procs, Alone(p), Cleaned(p), Glob(p) \/ Unlink(p)
  PROVE  Cleaned(p)' /\ Filled(p)' /\ pc'[p] \notin Away
<1>0. ProcsTyped /\ Rest
  BY TypedParts
<1>1. CASE Glob(p)
  <2>1. disk' = disk /\ pc[p] = "glob" /\ Unlinking(p, {n \in Names : disk[dir[p]][n] # None})
    BY <1>1 DEF Glob, files
  <2>2. Cleaned(p)' /\ Filled(p)'
    BY <1>0, <2>1, UnlinkingCleans DEF Cleaned
  <2>3. pc'[p] \notin Away
    BY <1>0, <2>1 DEF Unlinking, Cleared, Goto, ProcsTyped, Away
  <2> QED BY <2>2, <2>3
<1>2. CASE Unlink(p)
  <2> DEFINE n == First(todo[p])
             d == dir[p]
             rest == todo[p] \ {n}
  <2>1. pc[p] = "unlink" /\ todo[p] = {m \in Names : disk[d][m] # None} /\ d \in Dirs
    BY <1>0, <1>2 DEF Unlink, Cleaned, ProcsTyped
  <2>2. todo[p] \in (SUBSET Names) \ {{}}
    BY <1>0, <2>1 DEF ProcsTyped, Busy
  <2>3. n \in todo[p] /\ n \in Names
    BY <2>2, FirstIn
  <2> HIDE DEF n
  <2>4. disk' = [disk EXCEPT ![d][n] = None] /\ Unlinking(p, rest)
    BY <1>2, <2>1, <2>3 DEF Unlink, n
  <2>5. disk'[d][n] = None /\ (\A m \in Names \ {n} : disk'[d][m] = disk[d][m])
        /\ \A c \in Dirs \ {d} : disk'[c] = disk[c]
    BY <1>0, <2>1, <2>3, <2>4 DEF Rest, Disks
  <2>6. rest = {m \in Names : disk'[d][m] # None}
    BY <2>1, <2>3, <2>5
  <2>7. d = "lb-stream" => \A m \in Names : disk'["lbs"][m] = None
    BY <2>1, <2>5 DEF Cleaned, Dirs
  <2>8. Cleaned(p)' /\ Filled(p)'
    BY <1>0, <2>4, <2>6, <2>7, UnlinkingCleans
  <2>9. pc'[p] \notin Away
    BY <1>0, <2>4 DEF Unlinking, Cleared, Goto, ProcsTyped, Away
  <2> QED BY <2>8, <2>9
<1> QED BY <1>1, <1>2

LEMMA ListFills ==
  ASSUME Typed, Documented, NEW p \in Procs, Cleaned(p), List(p)
  PROVE  Cleaned(p)' /\ Filled(p)'
<1>0. ProcsTyped /\ Rest
  BY TypedParts
<1> DEFINE Found == {Ent(l) : l \in {k \in Balancers : Active(k)}}
<1>1. /\ pc[p] = "list" /\ pc'[p] = "next" /\ UNCHANGED <<doc, disk, key, crt, up, solo, clashed>>
      /\ todo'[p] = Found
  BY <1>0 DEF List, Goto, ProcsTyped, files, history, Ent
<1>2. Found \in SUBSET Entries
  BY <1>0 DEF Ent, Active, Rest, Entries
<1>11. PICK L \in SUBSET Entries : L = Found
  BY <1>2
<1>3. ASSUME NEW e \in L, NEW f \in L, e # f
      PROVE  /\ e.doc.born # f.doc.born
             /\ ~clashed /\ IsTcp(e.doc.protocol) /\ IsTcp(f.doc.protocol) => e.doc.port # f.doc.port
  <2>1. PICK l \in Balancers : Active(l) /\ e = Ent(l)
    BY <1>3, <1>11
  <2>2. PICK k \in Balancers : Active(k) /\ f = Ent(k)
    BY <1>3, <1>11
  <2>3. l # k /\ e.doc = doc[l] /\ f.doc = doc[k] /\ doc[l] # None /\ doc[k] # None
    BY <1>3, <2>1, <2>2 DEF Ent, Active
  <2>4. e.doc.born # f.doc.born
    BY <2>3 DEF Documented, Aged
  <2>5. ~clashed /\ IsTcp(e.doc.protocol) /\ IsTcp(f.doc.protocol) => e.doc.port # f.doc.port
    BY <2>1, <2>2, <2>3 DEF Documented, PortsUnique
  <2> QED BY <2>4, <2>5
<1>4. \A d \in Dirs, n \in Names : disk[d][n] = None
  BY <1>1 DEF Cleaned
<1>5. Found' = Found
  BY <1>1 DEF Ent, Active
<1>6. Reading(L)'
  BY <1>1, <1>3 DEF Reading
<1>8. solo'[p] => L = {Ent(l) : l \in {k \in Balancers : Active(k)}}'
  BY <1>5, <1>11
<1> HIDE DEF Found
<1>7. todo'[p] = L /\ L \ todo'[p] = {} /\ \A d, n : Filed(p, L, d, n)' = {}
  BY <1>1, <1>11 DEF Filed
<1>9. \A d \in Dirs, n \in Names :
        /\ Filed(p, L, d, n)' = {} => disk'[d][n] = None
        /\ \A e \in Filed(p, L, d, n)' :
             (\A f \in Filed(p, L, d, n)' : e.doc.born <= f.doc.born) => Says(p, disk[d][n], e)'
  BY <1>1, <1>4, <1>7
<1>10. FilledFrom(p, L)'
  BY <1>1, <1>6, <1>7, <1>8, <1>9 DEF FilledFrom
<1> QED BY <1>1, <1>10 DEF Cleaned, Filled

\* What a rebuild has filled stays, where nothing it depends on changes but what
\* the rebuild is then on record for as disturbed.
LEMMA FilledStays ==
  ASSUME NEW p, Filled(p), UNCHANGED <<disk, key, crt>>,
         todo'[p] = todo[p], conf'[p] = conf[p], pc'[p] = pc[p],
         clashed => clashed',
         ~solo'[p] \/ (solo'[p] = solo[p] /\ UNCHANGED <<doc, up>>)
  PROVE  Filled(p)'
<1> SUFFICES ASSUME pc[p] \in Filling PROVE \E L \in SUBSET Entries : FilledFrom(p, L)'
  BY DEF Filled, Filling
<1>1. PICK L \in SUBSET Entries : FilledFrom(p, L)
  BY DEF Filled
<1>2. Entry(p)' = Entry(p) /\ \A d, n : Filed(p, L, d, n)' = Filed(p, L, d, n)
  BY DEF Entry, Filed
<1>3. \A text, e : Says(p, text, e) => Says(p, text, e)'
  BY DEF Says
<1>4. \A text, e : text' = text /\ Says(p, text, e) => Says(p, text, e)'
  BY <1>3
<1>5. Reading(L)'
  BY <1>1 DEF FilledFrom, Reading
<1>6. solo'[p] => L = {Ent(l) : l \in {k \in Balancers : Active(k)}}'
  BY <1>1 DEF FilledFrom, Ent, Active
<1>7. \A d \in Dirs, n \in Names :
        /\ Filed(p, L, d, n)' = {} => disk'[d][n] = None
        /\ \A e \in Filed(p, L, d, n)' :
             (\A f \in Filed(p, L, d, n)' : e.doc.born <= f.doc.born) => Says(p, disk[d][n], e)'
  BY <1>1, <1>2 DEF FilledFrom, Says
<1>8. pc'[p] = "write" => Says(p, conf[p], Entry(p))'
  BY <1>1, <1>2 DEF FilledFrom, Says
<1>9. FilledFrom(p, L)'
  BY <1>1, <1>2, <1>5, <1>6, <1>7, <1>8 DEF FilledFrom, Has
<1> QED BY <1>9

\* A pair of files is looked for or made, the text composed.
LEMMA ComposingKept ==
  ASSUME Typed, KeysFirst, NEW p \in Procs, Filled(p),
         Take(p) \/ WriteKey(p) \/ OpenCrt(p) \/ FillCrt(p) \/ Render(p)
  PROVE  Cleaned(p)' /\ Filled(p)'
<1>0. ProcsTyped /\ Rest /\ TypeOK
  BY TypedParts DEF Typed
<1> DEFINE e == Entry(p)
           n == Entry(p).doc.name
<1>1. /\ UNCHANGED <<doc, disk, up, solo, clashed, todo>> /\ pc[p] \in Filling
      /\ pc'[p] \in {"key", "crt", "fill", "render", "write"}
      /\ Entry(p)' = Entry(p)
      /\ pc[p] \in {"next", "key", "crt", "fill", "render"} /\ todo[p] # {}
  BY <1>0 DEF Take, WriteKey, OpenCrt, FillCrt, Render, Goto, ProcsTyped, Busy, files, history, Filling,
     Entry
<1>2. PICK L \in SUBSET Entries : FilledFrom(p, L)
  BY <1>1 DEF Filled
<1>3. e \in todo[p] /\ n \in Names /\ \A f \in L : f.doc.name \in Names
  BY <1>0, <1>1, EntryIn DEF Entries, Documents
<1> HIDE DEF e, n
<1>5. \A m \in Names : (Has(key, m) => Has(key', m)) /\ (Has(crt, m) => Has(crt', m))
  BY <1>0, EdgeAssumption DEF Take, WriteKey, NewKey, OpenCrt, FillCrt, Render, Has, files, Rest
<1>6. \A f \in L \ todo[p] : f.doc.protocol = "HTTPS" => Has(key', f.doc.name) /\ Has(crt', f.doc.name)
  BY <1>2, <1>3, <1>5 DEF FilledFrom
<1>7. pc'[p] \in {"render", "write"} /\ e.doc.protocol = "HTTPS" => Has(key', n) /\ Has(crt', n)
  <2>1. CASE Take(p)
    <3>1. pc'[p] = "render" /\ e.doc.protocol = "HTTPS" => Has(key, n) /\ Has(crt, n)
      BY <1>0, <2>1 DEF Take, Goto, ProcsTyped, e, n
    <3>2. pc'[p] # "write" /\ key' = key /\ crt' = crt
      BY <1>0, <2>1 DEF Take, Goto, ProcsTyped, files
    <3> QED BY <3>1, <3>2
  <2>2. CASE WriteKey(p) \/ OpenCrt(p)
    BY <1>0, <2>2 DEF WriteKey, OpenCrt, Goto, ProcsTyped
  <2>3. CASE FillCrt(p)
    <3>1. key' = key /\ crt' = [crt EXCEPT ![n] = p] /\ Has(key, n)
      BY <2>3 DEF FillCrt, KeysFirst, n
    <3>2. crt'[n] = p /\ p # None
      BY <1>0, <1>3, <3>1, EdgeAssumption DEF Rest
    <3> QED BY <3>1, <3>2 DEF Has
  <2>4. CASE Render(p)
    <3>1. pc[p] = "render" /\ (e.doc.protocol = "HTTPS" => Has(key, n) /\ Has(crt, n))
      BY <1>2, <2>4 DEF Render, FilledFrom, e, n
    <3> QED BY <1>3, <1>5, <3>1
  <2> QED BY <2>1, <2>2, <2>3, <2>4
<1>8. pc'[p] = "write" => Says(p, conf[p], Entry(p))'
  <2>1. pc'[p] = "write" => conf'[p] = Text(e.lb, e.doc, e.lb \in up)
    BY <1>0 DEF Take, WriteKey, OpenCrt, FillCrt, Render, Goto, ProcsTyped, e
  <2>2. (e.lb \in up) \in BOOLEAN /\ Entry(p)' = e
    BY <1>1 DEF e
  <2>3. pc'[p] = "write" => \E running \in BOOLEAN :
          conf'[p] = Text(e.lb, e.doc, running) /\ (solo[p] => running = (e.lb \in up))
    BY <2>1, <2>2
  <2> QED BY <1>1, <2>2, <2>3 DEF Says
<1>9. FilledFrom(p, L)'
  <2>1. Reading(L)'
    BY <1>1, <1>2 DEF FilledFrom, Reading
  <2>2. solo'[p] => L = {Ent(l) : l \in {k \in Balancers : Active(k)}}'
    BY <1>1, <1>2 DEF FilledFrom, Ent, Active
  <2>3. \A d, m : Filed(p, L, d, m)' = Filed(p, L, d, m)
    BY <1>1 DEF Filed
  <2>4. \A d \in Dirs, m \in Names :
          /\ Filed(p, L, d, m)' = {} => disk'[d][m] = None
          /\ \A f \in Filed(p, L, d, m)' :
               (\A g \in Filed(p, L, d, m)' : f.doc.born <= g.doc.born) => Says(p, disk[d][m], f)'
    BY <1>1, <1>2, <2>3 DEF FilledFrom, Says
  <2>5. \A f \in L \ todo'[p] : f.doc.protocol = "HTTPS" => Has(key, f.doc.name)' /\ Has(crt, f.doc.name)'
    BY <1>1, <1>6
  <2>6. pc'[p] \in {"render", "write"} /\ Entry(p)'.doc.protocol = "HTTPS" =>
          Has(key, Entry(p).doc.name)' /\ Has(crt, Entry(p).doc.name)'
    BY <1>1, <1>7 DEF e, n
  <2> QED BY <1>1, <1>2, <1>8, <2>1, <2>2, <2>4, <2>5, <2>6 DEF FilledFrom
<1> QED BY <1>1, <1>9 DEF Cleaned, Filled

\* The file of the youngest balancer left is written over those of younger ones.
LEMMA WriteFills ==
  ASSUME Typed, NEW p \in Procs, Filled(p), Write(p)
  PROVE  Cleaned(p)' /\ Filled(p)'
<1>0. ProcsTyped /\ Rest /\ TypeOK
  BY TypedParts DEF Typed
<1> DEFINE b == Entry(p)
           N == Entry(p).doc.name
           D == DirOf(Entry(p).doc.protocol)
<1>1. /\ pc[p] = "write" /\ pc'[p] = "next" /\ todo'[p] = todo[p] \ {b}
      /\ UNCHANGED <<doc, up, key, crt, solo, clashed>>
      /\ disk' = [disk EXCEPT ![D][N] = conf[p]]
  BY <1>0 DEF Write, Goto, ProcsTyped, history
<1>2. /\ todo[p] \in SUBSET Entries /\ b \in todo[p]
      /\ N \in Names /\ D \in Dirs /\ \A f \in todo[p] : f.doc.born <= b.doc.born
  <2>1. todo[p] # {}
    BY <1>0, <1>1 DEF ProcsTyped, Busy
  <2> QED BY <1>0, <1>1, <2>1, EntryIn DEF DirOf, Dirs
<1>3. PICK L \in SUBSET Entries : FilledFrom(p, L)
  BY <1>1 DEF Filled, Filling
<1>4. /\ Says(p, conf[p], b)
      /\ b.doc.protocol = "HTTPS" => Has(key, N) /\ Has(crt, N)
      /\ b \in L
  BY <1>1, <1>2, <1>3 DEF FilledFrom
<1>5. b.doc.name = N /\ DirOf(b.doc.protocol) = D
  OBVIOUS
<1>6. disk'[D][N] = conf[p] /\ \A d \in Dirs, n \in Names : d # D \/ n # N => disk'[d][n] = disk[d][n]
  BY <1>0, <1>1, <1>2 DEF Rest, Disks
<1> HIDE DEF b, N, D
<1>7. L \ todo'[p] = (L \ todo[p]) \cup {b}
  BY <1>1, <1>4
<1>8. \A e \in L \ todo[p] : b.doc.born < e.doc.born
  BY <1>2, <1>3 DEF FilledFrom
<1>9. \A e \in L : e.doc.born \in Nat
  BY <1>3, EdgeAssumption DEF Entries, Documents
<1>10. \A e \in L \ todo'[p], f \in todo'[p] : f.doc.born < e.doc.born
  <2> SUFFICES ASSUME NEW e \in (L \ todo[p]) \cup {b}, NEW f \in todo[p], f # b
               PROVE  f.doc.born < e.doc.born
    BY <1>1, <1>7
  <2>1. f \in L
    BY <1>3 DEF FilledFrom
  <2>2. CASE e = b
    <3>1. f.doc.born # b.doc.born /\ f.doc.born <= b.doc.born
      BY <1>2, <1>3, <1>4, <2>1 DEF FilledFrom, Reading
    <3>2. f.doc.born \in Nat /\ b.doc.born \in Nat
      BY <1>4, <1>9, <2>1
    <3> QED BY <2>2, <3>1, <3>2
  <2>3. CASE e \in L \ todo[p]
    BY <1>3, <2>3 DEF FilledFrom
  <2> QED BY <2>2, <2>3
<1>11. ASSUME NEW d \in Dirs, NEW n \in Names
       PROVE  /\ Filed(p, L, d, n)' = {} => disk'[d][n] = None
              /\ \A e \in Filed(p, L, d, n)' :
                   (\A f \in Filed(p, L, d, n)' : e.doc.born <= f.doc.born) => Says(p, disk[d][n], e)'
  <2>1. Filed(p, L, d, n)' = IF d = D /\ n = N THEN Filed(p, L, d, n) \cup {b} ELSE Filed(p, L, d, n)
    BY <1>5, <1>7 DEF Filed
  <2>2. CASE d = D /\ n = N
    <3>1. \A e \in Filed(p, L, d, n)' :
            (\A f \in Filed(p, L, d, n)' : e.doc.born <= f.doc.born) => e = b
      <4> SUFFICES ASSUME NEW e \in Filed(p, L, d, n), e.doc.born <= b.doc.born PROVE FALSE
        BY <2>1, <2>2
      <4>1. e \in L \ todo[p]
        BY DEF Filed
      <4>2. e.doc.born \in Nat /\ b.doc.born \in Nat /\ b.doc.born < e.doc.born
        BY <1>4, <1>8, <1>9, <4>1
      <4> QED BY <4>2
    <3>2. \A e : e = b => Says(p, disk[d][n], e)'
      BY <1>1, <1>4, <1>6, <2>2 DEF Says
    <3>3. b \in Filed(p, L, d, n)'
      BY <2>1, <2>2
    <3> QED BY <3>1, <3>2, <3>3
  <2>3. CASE ~(d = D /\ n = N)
    <3>1. Filed(p, L, d, n)' = Filed(p, L, d, n) /\ disk'[d][n] = disk[d][n]
      BY <1>6, <2>1, <2>3
    <3>2. /\ Filed(p, L, d, n) = {} => disk[d][n] = None
          /\ \A e \in Filed(p, L, d, n) :
               (\A f \in Filed(p, L, d, n) : e.doc.born <= f.doc.born) => Says(p, disk[d][n], e)
      BY <1>3 DEF FilledFrom
    <3> QED BY <1>1, <3>1, <3>2 DEF Says
  <2> QED BY <2>2, <2>3
<1>12. \A e \in L \ todo'[p] : e.doc.protocol = "HTTPS" => Has(key, e.doc.name)' /\ Has(crt, e.doc.name)'
  BY <1>1, <1>3, <1>4, <1>5, <1>7 DEF FilledFrom
<1>13. Reading(L)'
  BY <1>1, <1>3 DEF FilledFrom, Reading
<1>14. solo'[p] => L = {Ent(l) : l \in {k \in Balancers : Active(k)}}'
  BY <1>1, <1>3 DEF FilledFrom, Ent, Active
<1>15. todo'[p] \subseteq L
  BY <1>1, <1>3 DEF FilledFrom
<1>16. FilledFrom(p, L)'
  BY <1>1, <1>10, <1>11, <1>12, <1>13, <1>14, <1>15 DEF FilledFrom
<1> QED BY <1>1, <1>16 DEF Cleaned, Filled

LEMMA UndisturbedKept ==
  ASSUME Typed, Documented, Apart, Certified, Undisturbed, Next
  PROVE  Undisturbed'
<1>0. ProcsTyped /\ Rest
  BY TypedParts
<1>1. CASE \E p \in Procs : Begins(p)
  <2>1. PICK p \in Procs : Begins(p)
    BY <1>1
  <2>2. pc'[p] = "glob" /\ dir'[p] = "lbs" /\ \A q \in Procs : Alone(q)' => q = p
    BY <2>1, Begun
  <2> QED BY <2>2 DEF Undisturbed, Cleaned, Filled, Filling
<1>2. CASE Aside
  <2> SUFFICES ASSUME NEW p \in Procs, Alone(p)'
               PROVE  Cleaned(p)' /\ Filled(p)'
    BY DEF Undisturbed
  <2>1. Alone(p) /\ pc'[p] = pc[p]
    BY <1>2, Beside DEF Alone
  <2>2. Cleaned(p) /\ Filled(p)
    BY <2>1 DEF Undisturbed
  <2>3. UNCHANGED <<disk, key, crt, dir, todo, conf>>
    BY <1>2 DEF Aside, files
  <2>4. Filled(p)'
    <3>1. ~solo'[p] \/ (solo'[p] = solo[p] /\ UNCHANGED <<doc, up>>)
      BY <1>2 DEF Aside
    <3>2. clashed => clashed'
      BY <1>2 DEF Aside
    <3> QED BY <2>1, <2>2, <2>3, <3>1, <3>2, FilledStays
  <2> QED BY <2>1, <2>2, <2>3, <2>4 DEF Cleaned
<1>3. CASE \E p \in Procs : Sync(p) \/ Die(p)
  <2>1. PICK p \in Procs : Sync(p) \/ Die(p)
    BY <1>3
  <2> SUFFICES ASSUME NEW q \in Procs, Alone(q)'
               PROVE  Cleaned(q)' /\ Filled(q)'
    BY DEF Undisturbed
  <2>2. Alone(q)
    BY <2>1, Within
  <2>3. Cleaned(q) /\ Filled(q) /\ (q # p => ~Syncing(p))
    BY <2>2 DEF Undisturbed, Apart
  <2>4. CASE Die(p)
    <3>1. pc'[p] = "down" /\ UNCHANGED <<disk, key, crt>>
      BY <1>0, <2>4 DEF Die, Stop, Goto, ProcsTyped, files
    <3>2. q # p
      BY <3>1 DEF Alone, Syncing
    <3>3. /\ pc'[q] = pc[q] /\ todo'[q] = todo[q] /\ conf'[q] = conf[q] /\ dir'[q] = dir[q]
          /\ solo'[q] = solo[q] /\ UNCHANGED <<doc, up, clashed>>
      BY <2>4, <3>2, Within
    <3>4. Filled(q)'
      BY <2>3, <3>1, <3>3, FilledStays
    <3> QED BY <2>3, <3>1, <3>3, <3>4 DEF Cleaned
  <2>5. CASE Sync(p)
    <3>1. Syncing(p)
      BY <2>5 DEF Sync, Syncing, Idle, Handling, Glob, Unlink, List, Take, WriteKey, OpenCrt, FillCrt,
         Render, Write, Reload
    <3>2. q = p
      BY <2>3, <3>1
    <3>3. CASE Reload(p)
      BY <1>0, <3>2, <3>3 DEF Reload, Stop, Goto, ProcsTyped, Alone, Syncing, Idle
    <3> QED BY <2>2, <2>3, <2>5, <3>2, <3>3, CleaningKept, ListFills, ComposingKept, WriteFills
            DEF Sync, Certified
  <2> QED BY <2>1, <2>4, <2>5
<1> QED BY <1>1, <1>2, <1>3, Kinds

------------------------------------------------------------------------------
(* A finished rebuild, and the reload. *)

\* All documents are written: each file is that of the oldest of its claimants.
LEMMA FinishedFiles ==
  ASSUME Typed, NEW p \in Procs, pc[p] = "next", todo[p] = {},
         NEW L \in SUBSET Entries, FilledFrom(p, L), NEW d \in Dirs, NEW n \in Names
  PROVE  LET C == {e \in L : DirOf(e.doc.protocol) = d /\ e.doc.name = n} IN
         /\ C = {} => disk[d][n] = None
         /\ C # {} => \E e \in C : /\ \A f \in C : e.doc.born <= f.doc.born
                                  /\ Says(p, disk[d][n], e)
<1> DEFINE C == {e \in L : DirOf(e.doc.protocol) = d /\ e.doc.name = n}
<1>1. Filed(p, L, d, n) = C
  BY DEF Filed
<1>2. C # {} => \E e \in C : \A f \in C : e.doc.born <= f.doc.born
  BY OldestIn
<1>3. /\ C = {} => disk[d][n] = None
      /\ \A e \in C : (\A f \in C : e.doc.born <= f.doc.born) => Says(p, disk[d][n], e)
  BY <1>1 DEF FilledFrom
<1> QED BY <1>2, <1>3

\* A file says the protocol and the port of a document that has its name.
LEMMA FinishedFile ==
  ASSUME Typed, NEW p \in Procs, pc[p] = "next", todo[p] = {},
         NEW L \in SUBSET Entries, FilledFrom(p, L), NEW d \in Dirs, NEW n \in Names,
         disk[d][n] # None
  PROVE  \E e \in L : /\ DirOf(e.doc.protocol) = d /\ e.doc.name = n
                      /\ disk[d][n].port = e.doc.port /\ disk[d][n].protocol = e.doc.protocol
<1>1. PICK e \in L : /\ DirOf(e.doc.protocol) = d /\ e.doc.name = n
                     /\ Says(p, disk[d][n], e)
  BY FinishedFiles
<1>2. PICK running \in BOOLEAN : disk[d][n] = Text(e.lb, e.doc, running)
  BY <1>1 DEF Says
<1>3. disk[d][n].port = e.doc.port /\ disk[d][n].protocol = e.doc.protocol
  BY <1>2 DEF Text
<1> QED BY <1>1, <1>3

\* nginx accepts what a rebuild leaves, as long as no two have overlapped.
LEMMA Accepted ==
  ASSUME Typed, Apart, Certified, Undisturbed, NEW p \in Procs,
         pc[p] = "next", todo[p] = {}, ~overlapped, ~clashed, deaths = 0
  PROVE  Valid
<1>1. PICK L \in SUBSET Entries : FilledFrom(p, L)
  BY DEF Undisturbed, Alone, Syncing, Idle, Handling, Filled, Filling
<1>2. "lbs" \in Dirs /\ "lb-stream" \in Dirs
  BY DEF Dirs
<1>3. ASSUME NEW m \in Names, NEW n \in Names, m # n,
             disk["lb-stream"][m] # None, disk["lb-stream"][n] # None
      PROVE  disk["lb-stream"][m].port # disk["lb-stream"][n].port
  <2>1. PICK e \in L : /\ DirOf(e.doc.protocol) = "lb-stream" /\ e.doc.name = m
                       /\ disk["lb-stream"][m].port = e.doc.port
    BY <1>1, <1>2, <1>3, FinishedFile
  <2>2. PICK f \in L : /\ DirOf(f.doc.protocol) = "lb-stream" /\ f.doc.name = n
                       /\ disk["lb-stream"][n].port = f.doc.port
    BY <1>1, <1>2, <1>3, FinishedFile
  <2>3. e # f /\ IsTcp(e.doc.protocol) /\ IsTcp(f.doc.protocol)
    BY <1>3, <2>1, <2>2 DEF DirOf
  <2> QED BY <1>1, <2>1, <2>2, <2>3 DEF FilledFrom, Reading
<1>4. ASSUME NEW n \in Names, disk["lbs"][n] # None, disk["lbs"][n].protocol = "HTTPS"
      PROVE  key[n] = crt[n] /\ Has(key, n)
  <2>1. PICK e \in L : e.doc.name = n /\ disk["lbs"][n].protocol = e.doc.protocol
    BY <1>1, <1>2, <1>4, FinishedFile
  <2>2. Has(key, n) /\ Has(crt, n)
    BY <1>1, <1>4, <2>1 DEF FilledFrom
  <2>3. crt[n] # Torn
    BY DEF Certified, Whole, Apart, Alone, Syncing, Idle, Handling
  <2> QED BY <2>2, <2>3 DEF Certified, CertsFit
<1> QED BY <1>3, <1>4 DEF Valid

LEMMA ServingKept ==
  ASSUME Typed, Documented, Apart, Certified, Undisturbed, NginxRunsTheFiles, Next
  PROVE  NginxRunsTheFiles'
<1>0. ProcsTyped /\ Rest
  BY TypedParts
<1>1. CASE \E p \in Procs : Begins(p)
  BY <1>1, Begun DEF NginxRunsTheFiles, Syncing, Idle, Handling
<1>2. CASE Aside
  BY <1>2, Beside DEF Aside, files, NginxRunsTheFiles
<1>3. CASE \E p \in Procs : Die(p)
  <2>1. deaths' # 0
    BY <1>0, <1>3 DEF Die, Rest
  <2> QED BY <2>1 DEF NginxRunsTheFiles
<1>5. CASE \E p \in Procs : Sync(p)
  <2>1. PICK p \in Procs : Sync(p)
    BY <1>5
  <2>2. UNCHANGED <<overlapped, clashed>>
    BY <2>1, Within
  <2>3. deaths' = deaths
    BY <2>1 DEF Sync, Glob, Unlink, List, Take, WriteKey, OpenCrt, FillCrt, Render, Write, Reload
  <2> SUFFICES ASSUME ~overlapped, ~clashed, deaths = 0, ~Syncing(p)'
               PROVE  live' = disk'
    BY <2>2, <2>3 DEF NginxRunsTheFiles
  <2>4. CASE Glob(p) \/ Unlink(p)
    <3>1. Alone(p) /\ Cleaned(p)
      BY <2>4 DEF Undisturbed, Alone, Syncing, Idle, Handling, Glob, Unlink
    <3>2. pc'[p] \notin Away
      BY <2>4, <3>1, CleaningKept
    <3> QED BY <3>2 DEF Syncing, Idle, Handling, Away
  <2>5. CASE List(p) \/ Take(p) \/ WriteKey(p) \/ OpenCrt(p) \/ FillCrt(p) \/ Render(p) \/ Write(p)
    BY <1>0, <2>5 DEF List, Take, WriteKey, OpenCrt, FillCrt, Render, Write, Goto, ProcsTyped, Syncing,
       Idle, Handling
  <2>6. CASE Reload(p)
    <3>1. Valid
      BY <2>6, Accepted DEF Reload
    <3> QED BY <2>6, <3>1 DEF Reload, files
  <2> QED BY <2>1, <2>4, <2>5, <2>6 DEF Sync
<1> QED BY <1>1, <1>2, <1>3, <1>5, Kinds

------------------------------------------------------------------------------
(* The theorems. *)

LEMMA Initially == Init => IInv
<1> SUFFICES ASSUME Init PROVE IInv
  OBVIOUS
<1>1. ProcsTyped
  BY DEF Init, ProcsTyped, Busy, Dirs, Steps
<1>2. Empty \in Disks
  BY DEF Empty, Disks
<1>3. Rest
  <2>1. 0 \in 0 .. MaxChanges /\ 0 \in 0 .. MaxDeaths
    BY EdgeAssumption
  <2>2. doc \in [Balancers -> Documents \cup {None}] /\ up \subseteq Balancers
    BY DEF Init
  <2>3. key \in [Names -> Procs \cup {None}] /\ crt \in [Names -> Procs \cup {Torn, None}]
    BY DEF Init
  <2>4. solo \in [Procs -> BOOLEAN] /\ overlapped \in BOOLEAN /\ clashed \in BOOLEAN
    BY DEF Init
  <2> QED BY <1>2, <2>1, <2>2, <2>3, <2>4 DEF Init, Rest
<1>4. Documented
  BY DEF Init, Documented, Aged, PortsUnique, Active
<1>5. Apart /\ Undisturbed /\ NginxRunsTheFiles
  BY DEF Init, Apart, Undisturbed, NginxRunsTheFiles, Alone, Syncing, Idle, Handling
<1>6. Certified
  BY EdgeAssumption DEF Init, Certified, KeysFirst, Pairs, CertsFit, Whole, Has
<1> QED BY <1>1, <1>3, <1>4, <1>5, <1>6, TypedParts DEF IInv

LEMMA Kept == IInv /\ [Next]_vars => IInv'
<1> SUFFICES ASSUME IInv, [Next]_vars PROVE IInv'
  OBVIOUS
<1> USE DEF IInv
<1>1. CASE Next
  <2>1. Typed'
    BY <1>1, StepTyped, HandlerTyped DEF Next, Handler, Step
  <2>2. Documented' /\ Apart' /\ Certified' /\ Undisturbed' /\ NginxRunsTheFiles'
    BY <1>1, DocumentsKept, ApartKept, CertifiedKept, UndisturbedKept, ServingKept
  <2> QED BY <2>1, <2>2
<1>2. CASE UNCHANGED vars
  <2> USE <1>2 DEF vars, files, procs, history
  <2>1. Typed'
    <3>1. ProcsTyped' /\ Rest'
      BY TypedParts DEF ProcsTyped, Busy, Rest
    <3> QED BY <3>1, TypedAfter
  <2>2. Documented' /\ Apart' /\ NginxRunsTheFiles'
    BY DEF Documented, Aged, PortsUnique, Active, Apart, Alone, Syncing, Idle, Handling, NginxRunsTheFiles
  <2>3. Certified'
    BY PairsStay
  <2>4. Undisturbed'
    <3> SUFFICES ASSUME NEW p \in Procs, Alone(p)'
                 PROVE  Cleaned(p)' /\ Filled(p)'
      BY DEF Undisturbed
    <3>1. Cleaned(p) /\ Filled(p)
      BY DEF Undisturbed, Alone, Syncing, Idle, Handling
    <3>2. Filled(p)'
      BY <3>1, FilledStays
    <3> QED BY <3>1, <3>2 DEF Cleaned
  <2> QED BY <2>1, <2>2, <2>3, <2>4
<1> QED BY <1>1, <1>2

\* What the rebuilds rely on holds in every reachable state: documents of
\* different ages, pairs of files made in order, and an undisturbed rebuild that
\* has unlinked and written just what it should have by now.
THEOREM Invariance == Spec => []IInv
BY Initially, Kept, PTL DEF Spec

\* TypeOK: the variables keep their types, a process its names while it unlinks,
\* its documents while it writes files, and its request until it is stored.
THEOREM TypeCorrect == Spec => []TypeOK
<1>1. IInv => TypeOK
  BY DEF IInv, Typed
<1> QED BY <1>1, Invariance, PTL

\* SoloSyncExact: whatever deaths, aborted and interleaved rebuilds left behind,
\* the reload of a rebuild that ran alone finds the files of the active balancers.
THEOREM LoneRebuildIsExact == Spec => []SoloSyncExact
<1>1. IInv => SoloSyncExact
  <2> SUFFICES ASSUME IInv, NEW p \in Procs, solo[p], pc[p] = "next", todo[p] = {}
               PROVE  disk = Rendered
    BY DEF SoloSyncExact
  <2>1. Typed /\ Filled(p) /\ Rest /\ Documented
    BY TypedParts DEF IInv, Undisturbed, Alone, Syncing, Idle, Handling
  <2>2. PICK L \in SUBSET Entries : FilledFrom(p, L)
    BY <2>1 DEF Filled, Filling
  <2>3. L = {Ent(l) : l \in {k \in Balancers : Active(k)}}
    BY <2>2 DEF FilledFrom
  <2>4. ASSUME NEW d \in Dirs, NEW n \in Names
        PROVE  disk[d][n] = Rendered[d][n]
    <3> DEFINE C == {e \in L : DirOf(e.doc.protocol) = d /\ e.doc.name = n}
               l == CHOOSE k \in Claimants(d, n) :
                      \A m \in Claimants(d, n) : doc[k].born <= doc[m].born
    <3>1. Rendered[d][n] = IF Claimants(d, n) = {} THEN None ELSE Text(l, doc[l], l \in up)
      BY DEF Rendered
    <3>2. C = {Ent(k) : k \in Claimants(d, n)}
      BY <2>3 DEF Claimants, Ent
    <3>3. CASE Claimants(d, n) = {}
      BY <2>1, <2>2, <3>1, <3>2, <3>3, FinishedFiles
    <3>4. CASE Claimants(d, n) # {}
      <4>1. PICK e \in C : (\A f \in C : e.doc.born <= f.doc.born) /\ Says(p, disk[d][n], e)
        BY <2>1, <2>2, <3>2, <3>4, FinishedFiles
      <4>2. PICK k \in Claimants(d, n) : e = Ent(k)
        BY <3>2
      <4>3. \A m \in Claimants(d, n) : doc[k].born <= doc[m].born
        <5> TAKE m \in Claimants(d, n)
        <5>1. Ent(m) \in C
          BY <3>2
        <5> QED BY <4>1, <4>2, <5>1 DEF Ent
      <4>4. l \in Claimants(d, n) /\ \A m \in Claimants(d, n) : doc[l].born <= doc[m].born
        BY <4>3
      <4> HIDE DEF l
      <4>5. doc[l].born <= doc[k].born /\ doc[k].born <= doc[l].born
        BY <4>3, <4>4
      <4>6. doc[l] # None /\ doc[k] # None /\ doc[l].born \in Nat /\ doc[k].born \in Nat
        BY <2>1, <4>4, EdgeAssumption DEF Claimants, Active, Rest, Documents
      <4>7. l = k
        BY <2>1, <4>4, <4>5, <4>6 DEF Documented, Aged, Claimants
      <4>8. disk[d][n] = Text(l, doc[l], l \in up)
        BY <4>1, <4>2, <4>7 DEF Says, Ent
      <4> QED BY <3>1, <3>4, <4>8
    <3> QED BY <3>3, <3>4
  <2>5. disk \in Disks
    BY <2>1 DEF Rest
  <2> QED BY <2>4, <2>5 DEF Disks, Rendered
<1> QED BY <1>1, Invariance, PTL

\* CertsFit: where no two rebuilds overlapped, a certificate is that of the key
\* beside it, or torn.
THEOREM CertificatesFit == Spec => []CertsFit
<1>1. IInv => CertsFit
  BY DEF IInv, Certified
<1> QED BY <1>1, Invariance, PTL

\* NginxRunsTheFiles: after the last rebuild nginx runs the files on disk, where
\* rebuilds did not overlap, no process died and no port was in use twice.
THEOREM NginxIsUpToDate == Spec => []NginxRunsTheFiles
<1>1. IInv => NginxRunsTheFiles
  BY DEF IInv
<1> QED BY <1>1, Invariance, PTL
==============================================================================
