-------------------------- MODULE ManagedSqlProofs --------------------------
(***************************************************************************)
(* Theorems about ManagedSql, for any instances, names, sizes and          *)
(* processes.                                                              *)
(***************************************************************************)
EXTENDS ManagedSql, FiniteSetTheorems, WellFoundedInduction, TLAPS

------------------------------------------------------------------------------
(* The inductive invariant. *)

Busy(p) == pc[p] # "idle"

\* Steps of a create after the placeholder, and after the choice of a port.
Placed == CreateSteps \ {"insert"}
Ported == Placed \ {"port"}

\* A request and the document it is about agree on what never changes.
Matches(p) ==
  LET r == req[p] IN
  Exists(r.id) => doc[r.id].name = r.name /\ doc[r.id].engine = r.engine
                  /\ doc[r.id].dedicated = r.dedicated

\* What each request has to do with the documents, however many there are.
Working(p) ==
  /\ Busy(p) => req[p].id \in born /\ Matches(p)
  /\ pc[p] \in CreateSteps => ~req[p].named /\ req[p].port = None
  /\ pc[p] = "insert" => ~Exists(req[p].id)
  /\ pc[p] \in {"port", "run"} => req[p].dedicated
  /\ pc[p] \in Placed /\ Exists(req[p].id) => ~doc[req[p].id].named
  /\ pc[p] \in DeleteSteps => req[p].id \in doomed
  /\ pc[p] = "rm" => req[p].dedicated
  /\ port[p] # None <=> pc[p] \in Ported /\ req[p].dedicated

\* A create is alone with its instance until the placeholder shows it.
OwnIds ==
  \A p, q \in Apis : p # q /\ pc[p] \in CreateSteps =>
    /\ pc[q] \in CreateSteps => req[p].id # req[q].id
    /\ pc[p] = "insert" /\ Busy(q) => req[p].id # req[q].id

\* The index on tenant and name.
NamesDiffer == \A i, j \in Instances : i # j /\ Exists(i) /\ Exists(j) => doc[i].name # doc[j].name

\* A request whose ident nobody else has had at the same time.
Clear(p) == Busy(p) /\ Ident[req[p].name] \notin contested

\* It has its ident and its document to itself.
Separate ==
  \A p \in Apis : Clear(p) =>
    /\ \A q \in Apis \ {p} : Busy(q) => Ident[req[q].name] # Ident[req[p].name]
    /\ \A i \in Instances : Exists(i) /\ Ident[doc[i].name] = Ident[req[p].name] => doc[i].name = req[p].name
    /\ pc[p] \in Placed => doc[req[p].id] = req[p]
    /\ pc[p] \in DeleteSteps \cup {"patch"} => Exists(req[p].id)

\* The object o of request r is there and its own.
Has(r, o) == made[ServerOf(r)][o][Ident[r.name]] = r.id

\* What a create has made so far.
Owning ==
  \A p \in Apis : Clear(p) =>
    /\ pc[p] \in {"second", "finalize"} => Has(req[p], First(req[p]))
    /\ pc[p] = "finalize" => Has(req[p], Second(req[p]))
    /\ pc[p] \in {"first", "second", "finalize"} /\ req[p].dedicated => bound[req[p].id] = port[p]

\* Requests one at a time.
Lone == ~overlapped => \A p, q \in Apis : Busy(p) /\ Busy(q) => p = q

\* The port a create has chosen is still free.
PortFree ==
  ~overlapped => \A p \in Apis, i \in Instances : port[p] # None /\ Exists(i) => doc[i].port # port[p]

Base == TypeOK /\ (\A p \in Apis : Working(p)) /\ OwnIds /\ NamesDiffer
------------------------------------------------------------------------------
(* What a step is for the documents and the requests. *)

\* The requests of the other processes are left alone.
Others(p) ==
  \A q \in Apis \ {p} : pc'[q] = pc[q] /\ req'[q] = req[q] /\ port'[q] = port[q]

LEMMA GotoIs ==
  ASSUME TypeOK, NEW p \in Apis, NEW step, Goto(p, step)
  PROVE  Others(p) /\ pc'[p] = step /\ req' = req /\ port' = port
BY DEF TypeOK, Goto, Others

LEMMA LeaveIs ==
  ASSUME TypeOK, NEW p \in Apis, Leave(p)
  PROVE  Others(p) /\ pc'[p] = "idle" /\ req'[p] = None /\ port'[p] = None
BY DEF TypeOK, Leave, Others

LEMMA EnterIs ==
  ASSUME TypeOK, NEW p \in Apis, NEW step, NEW r, Enter(p, step, r), port' = port
  PROVE  Others(p) /\ pc[p] = "idle" /\ pc'[p] = step /\ req'[p] = r
BY DEF TypeOK, Enter, Others

\* A request goes on without touching a document.
Flow ==
  {<<"run", "first">>, <<"first", "second">>, <<"first", "undoDatabase">>, <<"first", "discard">>,
   <<"second", "finalize">>, <<"second", "undoDatabase">>, <<"undoDatabase", "undoRole">>,
   <<"undoDatabase", "discard">>, <<"undoRole", "discard">>, <<"dropDatabase", "dropRole">>,
   <<"dropDatabase", "erase">>, <<"dropRole", "rm">>, <<"dropRole", "erase">>, <<"rm", "erase">>}

GoesOn(p, step) ==
  /\ Goto(p, step) /\ UNCHANGED <<doc, born, requests, history>>
  /\ <<pc[p], step>> \in Flow
  /\ step = "rm" => req[p].dedicated
  /\ deaths' = deaths

\* It gives up, or dies, without touching a document: in a create that has
\* placed its document only a dedicated one gives up.
GivesUp(p) ==
  /\ Leave(p) /\ UNCHANGED <<doc, born, requests, history>>
  /\ Busy(p)
  /\ deaths' \in {deaths, deaths + 1}
  /\ deaths' = deaths /\ pc[p] \in Placed => req[p].dedicated

Places(p) ==
  LET r == req[p] IN
  /\ pc[p] = "insert"
  /\ \A j \in Instances : Exists(j) => doc[j].name # r.name
  /\ doc' = [doc EXCEPT ![r.id] = r]
  /\ Goto(p, IF r.dedicated THEN "port" ELSE "first")
  /\ UNCHANGED <<born, made, bound, bounds, history>>

Chooses(p) ==
  /\ pc[p] = "port" /\ Ports \ Used # {}
  /\ port' = [port EXCEPT ![p] = Min(Ports \ Used)]
  /\ pc' = [pc EXCEPT ![p] = "run"]
  /\ UNCHANGED <<doc, born, made, bound, req, bounds, history>>

\* Discard and Erase.
Unplaces(p) ==
  /\ pc[p] \in {"discard", "erase"}
  /\ doc' = [doc EXCEPT ![req[p].id] = None]
  /\ Leave(p)
  /\ UNCHANGED <<born, made, bound, bounds, history>>

LEMMA Kinds ==
  ASSUME TypeOK, NEW p \in Apis, CreateStep(p) \/ DeleteStep(p) \/ Resize(p) \/ Die(p), Working(p)
  PROVE  \/ \E step : GoesOn(p, step)
         \/ GivesUp(p) \/ Places(p) \/ Chooses(p) \/ Unplaces(p) \/ Finalize(p) \/ Resize(p)
<1>1. CASE Insert(p)
  BY <1>1 DEF Insert, Places, GivesUp, Busy, Placed, bounds
<1>2. CASE Allocate(p)
  BY <1>2 DEF Allocate, Chooses, GivesUp, Busy, Working, bounds
<1>3. CASE Run(p)
  <2>1. CASE Goto(p, "first")
    BY <1>3, <2>1 DEF Run, GoesOn, Flow
  <2>2. CASE Leave(p)
    BY <1>3, <2>2 DEF Run, GivesUp, Busy, Working
  <2> QED BY <1>3, <2>1, <2>2 DEF Run
<1>4. ASSUME NEW step \in {"first", "second"}, NEW o, NEW then, Make(p, step, o, then),
             step = "first" => then = "second", step = "second" => then = "finalize"
      PROVE  \E s : GoesOn(p, s)
  <2>1. PICK s \in {then, "undoDatabase", "discard"} : Goto(p, s) /\ (s = "discard" => step = "first")
    BY <1>4 DEF Make
  <2>2. pc[p] = step /\ UNCHANGED <<doc, born, requests, deaths, history>>
    BY <1>4 DEF Make
  <2> QED BY <1>4, <2>1, <2>2 DEF GoesOn, Flow
<1>5. ASSUME NEW step \in {"undoDatabase", "undoRole"}, NEW o, NEW then, Undo(p, step, o, then),
             step = "undoDatabase" => then = "undoRole", step = "undoRole" => then = "discard"
      PROVE  \E s : GoesOn(p, s)
  BY <1>5 DEF Undo, UndoFails, GoesOn, Flow
<1>6. CASE Discard(p) \/ Erase(p)
  BY <1>6 DEF Discard, Erase, Unplaces
<1>7. ASSUME NEW step \in {"dropDatabase", "dropRole"}, NEW o, NEW then, DropObject(p, step, o, then),
             step = "dropDatabase" => then = "dropRole",
             step = "dropRole" => then = IF req[p].dedicated THEN "rm" ELSE "erase"
      PROVE  GivesUp(p) \/ \E s : GoesOn(p, s)
  <2>1. pc[p] = step /\ UNCHANGED <<doc, born, requests, deaths, history>>
    BY <1>7 DEF DropObject
  <2>2. CASE Leave(p)
    BY <2>1, <2>2 DEF GivesUp, Busy, Placed, CreateSteps
  <2>3. CASE \E s \in {then, "erase"} : Goto(p, s)
    <3>1. PICK s \in {then, "erase"} : Goto(p, s)
      BY <2>3
    <3>2. <<step, s>> \in Flow /\ (s = "rm" => req[p].dedicated)
      BY <1>7, <3>1 DEF Flow
    <3> QED BY <2>1, <3>1, <3>2 DEF GoesOn
  <2> QED BY <1>7, <2>2, <2>3 DEF DropObject
<1>8. CASE Remove(p)
  BY <1>8 DEF Remove, GoesOn, GivesUp, Flow, Busy, Placed, CreateSteps
<1>9. CASE Die(p)
  BY <1>9 DEF Die, GivesUp, Busy, TypeOK
<1> QED BY <1>1, <1>2, <1>3, <1>4, <1>5, <1>6, <1>7, <1>8, <1>9 DEF CreateStep, DeleteStep

------------------------------------------------------------------------------
(* Types. *)

LEMMA SizesSmall == \A size \in Sizes : size \in Nat /\ size <= MaxSize
BY ManagedSqlAssumption

LEMMA RequestTyped ==
  ASSUME TypeOK, NEW p \in Apis, Busy(p)
  PROVE  /\ req[p] \in Documents /\ req[p].id \in Instances /\ req[p].name \in Names
         /\ req[p].engine \in Engines /\ req[p].dedicated \in BOOLEAN /\ req[p].size \in Sizes
         /\ req[p].named \in BOOLEAN /\ req[p].port \in Ports \cup {None}
         /\ Ident[req[p].name] \in Idents /\ ServerOf(req[p]) \in Servers
         /\ UndoServer(req[p]) \in Servers
<1>1. req[p] \in Documents
  BY DEF TypeOK, Busy
<1>2. /\ req[p].id \in Instances /\ req[p].name \in Names
      /\ req[p].engine \in Engines /\ req[p].dedicated \in BOOLEAN /\ req[p].size \in Sizes
      /\ req[p].named \in BOOLEAN /\ req[p].port \in Ports \cup {None}
  BY <1>1, ManagedSqlAssumption DEF Documents
<1>3. Ident[req[p].name] \in Idents
  BY <1>2, ManagedSqlAssumption
<1>4. ServerOf(req[p]) \in Servers /\ UndoServer(req[p]) \in Servers
  BY <1>2, ManagedSqlAssumption DEF ServerOf, UndoServer, Servers
<1> QED BY <1>1, <1>2, <1>3, <1>4

LEMMA DocumentTyped ==
  ASSUME TypeOK, NEW i \in Instances, Exists(i)
  PROVE  /\ doc[i] \in Documents /\ doc[i].id = i /\ i \in born /\ doc[i].name \in Names
         /\ doc[i].engine \in Engines /\ doc[i].dedicated \in BOOLEAN /\ doc[i].size \in Sizes
         /\ doc[i].named \in BOOLEAN /\ doc[i].port \in Ports \cup {None}
         /\ doc[i].port # None <=> doc[i].named /\ doc[i].dedicated
         /\ Ident[doc[i].name] \in Idents /\ ServerOf(doc[i]) \in Servers
<1>1. doc[i] \in Documents
  BY DEF TypeOK, Exists
<1>2. /\ doc[i].id = i /\ doc[i].name \in Names
      /\ doc[i].engine \in Engines /\ doc[i].dedicated \in BOOLEAN /\ doc[i].size \in Sizes
      /\ doc[i].named \in BOOLEAN /\ doc[i].port \in Ports \cup {None}
  BY <1>1, ManagedSqlAssumption DEF Documents, TypeOK
<1>3. Ident[doc[i].name] \in Idents
  BY <1>2, ManagedSqlAssumption
<1>4. ServerOf(doc[i]) \in Servers
  BY <1>2, ManagedSqlAssumption DEF ServerOf, Servers
<1> QED BY <1>1, <1>2, <1>3, <1>4 DEF TypeOK

LEMMA Least ==
  ASSUME NEW S \in SUBSET Nat, S # {}
  PROVE  \E m \in S : \A n \in S : m <= n
<1> DEFINE R == OpToRel(<, Nat)
<1>1. PICK m \in S : \A n \in S : <<n, m>> \notin R
  BY NatLessThanWellFounded, WFMin
<1>2. \A n \in S : ~(n < m)
  BY <1>1 DEF OpToRel
<1>3. \A n \in S : m <= n
  BY <1>2
<1> QED BY <1>3

LEMMA PortChosen ==
  ASSUME Ports \ Used # {}
  PROVE  Min(Ports \ Used) \in Ports \ Used
<1>1. Ports \ Used \in SUBSET Nat
  BY DEF Ports
<1> QED BY <1>1, Least DEF Min

\* The document of request r after it was completed.
LEMMA CompletedTyped ==
  ASSUME TypeOK, NEW p \in Apis, Busy(p)
  PROVE  LET d == Completed(req[p], p) IN
         /\ d \in Documents /\ d.id = req[p].id /\ d.name = req[p].name /\ d.engine = req[p].engine
         /\ d.dedicated = req[p].dedicated /\ d.size = req[p].size /\ d.named /\ d.port = port[p]
         /\ d.dedicated <=> req[p].dedicated
<1>1. req[p] \in Documents /\ port[p] \in Ports \cup {None}
  BY RequestTyped DEF TypeOK
<1> QED BY <1>1 DEF Completed, Documents

\* The document of instance i after a change of its size.
LEMMA ResizedTyped ==
  ASSUME TypeOK, NEW i \in Instances, Exists(i), NEW size \in Sizes
  PROVE  LET d == [doc[i] EXCEPT !.size = size] IN
         /\ d \in Documents /\ d.id = i /\ d.name = doc[i].name /\ d.engine = doc[i].engine
         /\ d.dedicated = doc[i].dedicated /\ d.size = size /\ d.named = doc[i].named
         /\ d.port = doc[i].port
         /\ d.dedicated <=> doc[i].dedicated
         /\ d.named <=> doc[i].named
BY DocumentTyped DEF Documents

\* What the steps that write a document do to it.
LEMMA Written ==
  ASSUME TypeOK, NEW p \in Apis, Places(p) \/ Unplaces(p) \/ Finalize(p) \/ Resize(p), Working(p)
  PROVE  LET i == req[p].id IN
         /\ \A j \in Instances \ {i} : doc'[j] = doc[j]
         /\ Places(p) => doc'[i] = req[p] /\ req[p].id = i
         /\ Unplaces(p) => doc'[i] = None
         /\ ~Exists(i) /\ ~Places(p) => doc'[i] = None
         /\ Finalize(p) /\ Exists(i) => doc'[i] = Completed(req[p], p)
         /\ Resize(p) /\ Exists(i) => doc'[i] = [doc[i] EXCEPT !.size = req[p].size]
<1>1. Busy(p)
  BY DEF Places, Unplaces, Finalize, Resize, Busy
<1>2. req[p].id \in Instances
  BY <1>1, RequestTyped
<1>3. doc = [j \in Instances |-> doc[j]]
  BY DEF TypeOK
<1> QED BY <1>2, <1>3 DEF Places, Unplaces, Finalize, Resize, Exists

LEMMA DocumentsTyped ==
  ASSUME TypeOK, \A p \in Apis : Working(p), Next
  PROVE  /\ doc' \in [Instances -> Documents \cup {None}]
         /\ \A i \in Instances : Exists(i)' =>
              /\ i \in born' /\ doc'[i].id = i
              /\ doc'[i].port # None <=> doc'[i].named /\ doc'[i].dedicated
<1>1. PICK p \in Apis : Request(p) \/ CreateStep(p) \/ DeleteStep(p) \/ Resize(p) \/ Die(p)
  BY DEF Next
<1>2. CASE doc' = doc /\ born \subseteq born'
  BY <1>2 DEF TypeOK, Exists
<1>3. CASE Request(p)
  <2>1. doc' = doc /\ born \subseteq born'
    BY <1>3 DEF Request, Create, Patch, Delete
  <2> QED BY <1>2, <2>1
<1>4. CASE Places(p) \/ Unplaces(p) \/ Finalize(p) \/ Resize(p)
  <2>0. Busy(p) /\ Working(p)
    BY <1>4 DEF Places, Unplaces, Finalize, Resize, Busy
  <2>1. PICK i \in Instances : i = req[p].id /\ i \in born
    BY <2>0, RequestTyped DEF Working
  <2>2. /\ \A j \in Instances \ {i} : doc'[j] = doc[j]
        /\ Places(p) => doc'[i] = req[p]
        /\ Unplaces(p) => doc'[i] = None
        /\ ~Exists(i) /\ ~Places(p) => doc'[i] = None
        /\ Finalize(p) /\ Exists(i) => doc'[i] = Completed(req[p], p)
        /\ Resize(p) /\ Exists(i) => doc'[i] = [doc[i] EXCEPT !.size = req[p].size]
    BY <1>4, <2>0, <2>1, Written
  <2>3. born' = born /\ doc' = [j \in Instances |-> doc'[j]]
    BY <1>4 DEF Places, Unplaces, Finalize, Resize, TypeOK
  <2>4. doc'[i] = None \/ (/\ doc'[i] \in Documents /\ doc'[i].id = i
                           /\ doc'[i].port # None <=> doc'[i].named /\ doc'[i].dedicated)
    <3>1. CASE Places(p)
      BY <2>0, <2>1, <2>2, <3>1, RequestTyped DEF Places, Working, CreateSteps
    <3>2. CASE Finalize(p) /\ Exists(i)
      <4>1. port[p] # None <=> req[p].dedicated
        BY <2>0, <3>2 DEF Finalize, Working, Ported, Placed, CreateSteps
      <4> QED BY <2>0, <2>1, <2>2, <3>2, <4>1, CompletedTyped
    <3>3. CASE Resize(p) /\ Exists(i)
      <4>1. req[p].size \in Sizes
        BY <2>0, RequestTyped
      <4>2. PICK d : d = [doc[i] EXCEPT !.size = req[p].size]
        OBVIOUS
      <4>3. /\ d \in Documents /\ d.id = i /\ d.port = doc[i].port
            /\ d.dedicated <=> doc[i].dedicated
            /\ d.named <=> doc[i].named
        BY <3>3, <4>1, <4>2, ResizedTyped
      <4>4. doc'[i] = d
        BY <2>1, <2>2, <3>3, <4>2
      <4> QED BY <2>1, <3>3, <4>3, <4>4, DocumentTyped
    <3> QED BY <1>4, <2>2, <3>1, <3>2, <3>3
  <2>5. \A j \in Instances \ {i} : doc'[j] \in Documents \cup {None}
    BY <2>2 DEF TypeOK
  <2>6. \A j \in Instances \ {i} : Exists(j)' =>
          /\ j \in born' /\ doc'[j].id = j
          /\ doc'[j].port # None <=> doc'[j].named /\ doc'[j].dedicated
    BY <2>2, <2>3 DEF TypeOK, Exists
  <2>7. \A j \in Instances : doc'[j] \in Documents \cup {None}
    BY <2>4, <2>5
  <2> QED BY <2>1, <2>3, <2>4, <2>6, <2>7 DEF Exists
<1>5. CASE GivesUp(p) \/ Chooses(p) \/ \E step : GoesOn(p, step)
  BY <1>2, <1>5 DEF GivesUp, Chooses, GoesOn
<1> QED BY <1>1, <1>3, <1>4, <1>5, Kinds

\* A request that arrives: a new instance, or one whose document is there.
Arrives(p, step, r) ==
  /\ Enter(p, step, r) /\ UNCHANGED <<doc, made, bound, port, faults, deaths>>
  /\ r.id \in born' /\ r.id \in Instances
  /\ step = "insert" =>
       /\ r.id \notin born /\ ~r.named /\ r.port = None
       /\ born' = born \cup {r.id} /\ doomed' = doomed
       /\ Allowed(r.size)
  /\ step # "insert" =>
       /\ born' = born /\ Exists(r.id)
       /\ doc[r.id].name = r.name /\ doc[r.id].engine = r.engine /\ doc[r.id].dedicated = r.dedicated
  /\ step = "patch" => /\ doomed' = doomed
                       /\ r.size > doc[r.id].size => Allowed(r.size - doc[r.id].size)
  /\ step \in {"dropDatabase", "erase"} => doomed' = doomed \cup {r.id} /\ r = doc[r.id]

LEMMA Arrivals ==
  ASSUME TypeOK, NEW p \in Apis, Request(p)
  PROVE  \E r \in Documents, step \in {"insert", "patch", "dropDatabase", "erase"} : Arrives(p, step, r)
<1>1. ASSUME NEW i \in Instances, NEW n \in Names, NEW engine \in Engines, NEW dedicated \in Modes,
             NEW size \in Sizes, Create(p, i, n, engine, dedicated, size)
      PROVE  \E r \in Documents : Arrives(p, "insert", r)
  <2>1. PICK r : r = [id |-> i, name |-> n, engine |-> engine, dedicated |-> dedicated,
                      size |-> size, port |-> None, named |-> FALSE]
    OBVIOUS
  <2>2. r \in Documents /\ r.id = i /\ r.size = size /\ ~r.named /\ r.port = None
    BY <2>1 DEF Documents
  <2>3. Enter(p, "insert", r)
    BY <1>1, <2>1 DEF Create
  <2> QED BY <1>1, <2>2, <2>3 DEF Create, Arrives
<1>2. ASSUME NEW i \in Instances, NEW size \in Sizes, Patch(p, i, size)
      PROVE  \E r \in Documents : Arrives(p, "patch", r)
  <2>1. PICK r : r = [doc[i] EXCEPT !.size = size]
    OBVIOUS
  <2>2. /\ r \in Documents /\ r.id = i /\ r.name = doc[i].name /\ r.engine = doc[i].engine
        /\ r.dedicated = doc[i].dedicated /\ r.size = size /\ i \in born
    BY <1>2, <2>1, ResizedTyped, DocumentTyped DEF Patch
  <2>3. Enter(p, "patch", r)
    BY <1>2, <2>1 DEF Patch
  <2> QED BY <1>2, <2>2, <2>3 DEF Patch, Arrives
<1>3. ASSUME NEW i \in Instances, Delete(p, i)
      PROVE  \E step \in {"dropDatabase", "erase"} : Arrives(p, step, doc[i]) /\ doc[i] \in Documents
  <2>1. doc[i] \in Documents /\ doc[i].id = i /\ i \in born
    BY <1>3, DocumentTyped DEF Delete
  <2>2. PICK step \in {"dropDatabase", "erase"} : Enter(p, step, doc[i])
    BY <1>3 DEF Delete
  <2> QED BY <1>3, <2>1, <2>2 DEF Delete, Arrives
<1> QED BY <1>1, <1>2, <1>3 DEF Request

LEMMA RequestsTyped ==
  ASSUME TypeOK, \A p \in Apis : Working(p), Next
  PROVE  /\ pc' \in [Apis -> {"idle", "patch"} \cup CreateSteps \cup DeleteSteps]
         /\ req' \in [Apis -> Documents \cup {None}]
         /\ port' \in [Apis -> Ports \cup {None}]
         /\ \A p \in Apis : req'[p] = None <=> pc'[p] = "idle"
<1>1. PICK p \in Apis : Request(p) \/ CreateStep(p) \/ DeleteStep(p) \/ Resize(p) \/ Die(p)
  BY DEF Next
<1> USE DEF TypeOK
<1>2. CASE Request(p)
  <2>1. PICK r \in Documents, step \in {"insert", "patch", "dropDatabase", "erase"} : Arrives(p, step, r)
    BY <1>2, Arrivals
  <2>2. step \in CreateSteps \cup DeleteSteps \cup {"patch"} /\ r # None /\ step # "idle"
    BY ManagedSqlAssumption DEF CreateSteps, DeleteSteps
  <2> QED BY <2>1, <2>2 DEF Arrives, Enter
<1>3. CASE Leave(p)
  BY <1>3 DEF Leave
<1>4. CASE \E step : GoesOn(p, step)
  BY <1>4 DEF GoesOn, Flow, Goto, CreateSteps, DeleteSteps
<1>5. CASE Places(p)
  BY <1>5 DEF Places, Goto, CreateSteps, DeleteSteps
<1>6. CASE Chooses(p)
  BY <1>6, PortChosen DEF Chooses, CreateSteps, DeleteSteps
<1> QED BY <1>1, <1>2, <1>3, <1>4, <1>5, <1>6, Kinds DEF GivesUp, Unplaces, Finalize, Resize

\* One object of one server changes.
LEMMA ObjectTyped ==
  ASSUME NEW m \in [Servers -> [Objects -> [Idents -> Instances \cup {None}]]],
         NEW s \in Servers, NEW o \in Objects, NEW x \in Idents, NEW v \in Instances \cup {None}
  PROVE  /\ [m EXCEPT ![s][o][x] = v] \in [Servers -> [Objects -> [Idents -> Instances \cup {None}]]]
         /\ [m EXCEPT ![s][o][x] = v][s][o][x] = v
         /\ \A t \in Servers, u \in Objects, y \in Idents :
              t # s \/ u # o \/ y # x => [m EXCEPT ![s][o][x] = v][t][u][y] = m[t][u][y]
OBVIOUS

Table == [Servers -> [Objects -> [Idents -> Instances \cup {None}]]]

LEMMA PutTyped ==
  ASSUME TypeOK, NEW p \in Apis, Busy(p), NEW o \in Objects, Put(req[p], o), Missing(req[p], o)
  PROVE  LET s == ServerOf(req[p])
             x == Ident[req[p].name] IN
         /\ made' \in Table /\ made'[s][o][x] = req[p].id
         /\ \A t \in Servers, u \in Objects, y \in Idents :
              t # s \/ u # o \/ y # x => made'[t][u][y] = made[t][u][y]
<1>1. /\ ServerOf(req[p]) \in Servers /\ Ident[req[p].name] \in Idents
      /\ req[p].id \in Instances \cup {None} /\ made \in Table
  BY RequestTyped DEF TypeOK, Table
<1>2. made' = [made EXCEPT ![ServerOf(req[p])][o][Ident[req[p].name]] = req[p].id]
  BY <1>1 DEF Put, Missing, Table
<1> QED BY <1>1, <1>2, ObjectTyped DEF Table

LEMMA DropTyped ==
  ASSUME TypeOK, NEW p \in Apis, Busy(p), NEW s \in Servers, NEW o \in Objects, Drop(s, o, req[p])
  PROVE  LET x == Ident[req[p].name] IN
         /\ made' \in Table /\ made'[s][o][x] = None
         /\ \A t \in Servers, u \in Objects, y \in Idents :
              t # s \/ u # o \/ y # x => made'[t][u][y] = made[t][u][y]
<1>1. Ident[req[p].name] \in Idents /\ made \in Table
  BY RequestTyped DEF TypeOK, Table
<1>2. made' = [made EXCEPT ![s][o][Ident[req[p].name]] = None]
  BY DEF Drop
<1> QED BY <1>1, <1>2, ObjectTyped DEF Table

\* The steps that change a server.
Serving(p) ==
  \/ \E o \in Objects : /\ pc[p] \in {"first", "second"} /\ Missing(req[p], o) /\ Put(req[p], o)
                        /\ pc[p] = "first" => o = First(req[p])
                        /\ pc[p] = "second" => o = Second(req[p])
                        /\ bound' = bound
  \/ \E o \in Objects : /\ pc[p] \in {"undoDatabase", "undoRole"}
                        /\ Drop(UndoServer(req[p]), o, req[p]) /\ bound' = bound
  \/ \E o \in Objects : /\ pc[p] \in {"dropDatabase", "dropRole"}
                        /\ Drop(ServerOf(req[p]), o, req[p]) /\ bound' = bound
  \/ pc[p] = "run" /\ bound' = [bound EXCEPT ![req[p].id] = port[p]] /\ made' = made
  \/ pc[p] = "rm" /\ bound' = [bound EXCEPT ![req[p].id] = None]
     /\ made' = [made EXCEPT ![req[p].id] = [o \in Objects |-> [x \in Idents |-> None]]]

LEMMA Servings ==
  ASSUME TypeOK, NEW p \in Apis, Request(p) \/ CreateStep(p) \/ DeleteStep(p) \/ Resize(p) \/ Die(p)
  PROVE  UNCHANGED <<made, bound>> \/ (Serving(p) /\ \E step : GoesOn(p, step) \/ Leave(p))
<1>1. CASE Request(p)
  BY <1>1 DEF Request, Create, Patch, Delete
<1>2. CASE Insert(p) \/ Allocate(p) \/ Discard(p) \/ Finalize(p) \/ Erase(p) \/ Resize(p) \/ Die(p)
  BY <1>2 DEF Insert, Allocate, Discard, Finalize, Erase, Resize, Die
<1>3. CASE Run(p)
  BY <1>3 DEF Run, Serving, GoesOn, Flow
<1>4. ASSUME NEW step \in {"first", "second"}, NEW o \in Objects, NEW then, Make(p, step, o, then),
             step = "first" => then = "second" /\ o = First(req[p]),
             step = "second" => then = "finalize" /\ o = Second(req[p])
      PROVE  UNCHANGED <<made, bound>> \/ (Serving(p) /\ \E s : GoesOn(p, s))
  <2>1. CASE Missing(req[p], o) /\ Put(req[p], o) /\ \E s \in {then, "undoDatabase"} : Goto(p, s)
    <3>1. Serving(p)
      BY <1>4, <2>1 DEF Make, Serving
    <3> QED BY <1>4, <2>1, <3>1 DEF Make, GoesOn, Flow
  <2> QED BY <1>4, <2>1 DEF Make
<1>5. ASSUME NEW step \in {"undoDatabase", "undoRole"}, NEW o \in Objects, NEW then, Undo(p, step, o, then),
             step = "undoDatabase" => then = "undoRole", step = "undoRole" => then = "discard"
      PROVE  UNCHANGED <<made, bound>> \/ (Serving(p) /\ \E s : GoesOn(p, s))
  <2>1. CASE Drop(UndoServer(req[p]), o, req[p]) /\ Goto(p, then)
    <3>1. Serving(p)
      BY <1>5, <2>1 DEF Undo, Serving
    <3> QED BY <1>5, <2>1, <3>1 DEF Undo, GoesOn, Flow
  <2> QED BY <1>5, <2>1 DEF Undo
<1>6. ASSUME NEW step \in {"dropDatabase", "dropRole"}, NEW o \in Objects, NEW then, DropObject(p, step, o, then),
             step = "dropDatabase" => then = "dropRole",
             step = "dropRole" => then = IF req[p].dedicated THEN "rm" ELSE "erase"
      PROVE  UNCHANGED <<made, bound>> \/ (Serving(p) /\ \E s : GoesOn(p, s))
  <2>1. CASE Drop(ServerOf(req[p]), o, req[p]) /\ Goto(p, then)
    <3>1. Serving(p)
      BY <1>6, <2>1 DEF DropObject, Serving
    <3>2. <<step, then>> \in Flow /\ (then = "rm" => req[p].dedicated)
      BY <1>6 DEF Flow
    <3> QED BY <1>6, <2>1, <3>1, <3>2 DEF DropObject, GoesOn
  <2> QED BY <1>6, <2>1 DEF DropObject
<1>7. CASE Remove(p)
  BY <1>7 DEF Remove, Serving, GoesOn, Flow
<1>8. First(req[p]) \in Objects /\ Second(req[p]) \in Objects /\ "role" \in Objects /\ "database" \in Objects
  BY DEF First, Second, Objects
<1> QED BY <1>1, <1>2, <1>3, <1>4, <1>5, <1>6, <1>7, <1>8 DEF CreateStep, DeleteStep

LEMMA ServersTyped ==
  ASSUME TypeOK, \A p \in Apis : Working(p), Next
  PROVE  made' \in Table /\ bound' \in [Instances -> Ports \cup {None}]
<1>1. PICK p \in Apis : Request(p) \/ CreateStep(p) \/ DeleteStep(p) \/ Resize(p) \/ Die(p)
  BY DEF Next
<1>2. CASE UNCHANGED <<made, bound>>
  BY <1>2 DEF TypeOK, Table
<1>3. CASE Serving(p)
  <2>1. Busy(p)
    BY <1>3 DEF Serving, Busy
  <2>2. /\ ServerOf(req[p]) \in Servers /\ UndoServer(req[p]) \in Servers /\ req[p].id \in Instances
        /\ port[p] \in Ports \cup {None}
    BY <2>1, RequestTyped DEF TypeOK
  <2>3. CASE pc[p] = "rm"
    <3>1. [o \in Objects |-> [x \in Idents |-> None]] \in [Objects -> [Idents -> Instances \cup {None}]]
      OBVIOUS
    <3> QED BY <1>3, <2>2, <2>3, <3>1 DEF Serving, TypeOK, Table
  <2>4. CASE pc[p] = "run"
    BY <1>3, <2>2, <2>4 DEF Serving, TypeOK, Table
  <2> QED BY <1>3, <2>1, <2>2, <2>3, <2>4, PutTyped, DropTyped DEF Serving, TypeOK
<1> QED BY <1>1, <1>2, <1>3, Servings

LEMMA BoundsTyped ==
  ASSUME TypeOK, \A p \in Apis : Working(p), Next
  PROVE  /\ requests' \in 0 .. MaxRequests /\ faults' \in 0 .. MaxFaults /\ deaths' \in 0 .. MaxDeaths
         /\ doomed' \subseteq Instances /\ born' \subseteq Instances
         /\ overlapped' \in BOOLEAN /\ contested' \subseteq Idents
<1>1. PICK p \in Apis : Request(p) \/ CreateStep(p) \/ DeleteStep(p) \/ Resize(p) \/ Die(p)
  BY DEF Next
<1>2. /\ requests' \in {requests, requests + 1} /\ (requests' # requests => requests < MaxRequests)
      /\ faults' \in {faults, faults + 1} /\ (faults' # faults => faults < MaxFaults)
      /\ deaths' \in {deaths, deaths + 1} /\ (deaths' # deaths => deaths < MaxDeaths)
  <2>1. CASE Request(p)
    <3>1. PICK r \in Documents, step \in {"insert", "patch", "dropDatabase", "erase"} : Arrives(p, step, r)
      BY <2>1, Arrivals
    <3>2. requests' = requests + 1 /\ requests < MaxRequests /\ faults' = faults /\ deaths' = deaths
      BY <3>1 DEF Arrives, Enter
    <3> QED BY <3>2
  <2>2. CASE CreateStep(p)
    BY <2>2 DEF CreateStep, Insert, Allocate, Run, Make, Undo, Discard, Finalize, Fault, bounds
  <2>3. CASE DeleteStep(p) \/ Resize(p) \/ Die(p)
    BY <2>3 DEF DeleteStep, Resize, DropObject, Remove, Erase, Die, Fault, bounds
  <2> QED BY <1>1, <2>1, <2>2, <2>3
<1>3. /\ doomed' \subseteq Instances /\ born' \subseteq Instances
      /\ overlapped' \in BOOLEAN /\ contested' \subseteq Idents
  <2>1. CASE Request(p)
    <3>1. PICK r \in Documents, step \in {"insert", "patch", "dropDatabase", "erase"} : Arrives(p, step, r)
      BY <2>1, Arrivals
    <3>2. Ident[r.name] \in Idents
      BY ManagedSqlAssumption DEF Documents, Idents
    <3> QED BY <3>1, <3>2 DEF Arrives, Enter, TypeOK
  <2>2. CASE UNCHANGED <<doomed, born, overlapped, contested>>
    BY <2>2 DEF TypeOK
  <2> QED BY <1>1, <2>1, <2>2, Kinds DEF GoesOn, GivesUp, Places, Chooses, Unplaces, Finalize, Resize, history
<1> QED BY <1>2, <1>3, ManagedSqlAssumption DEF TypeOK

LEMMA TypeKept ==
  ASSUME TypeOK, \A p \in Apis : Working(p), Next
  PROVE  TypeOK'
BY DocumentsTyped, RequestsTyped, ServersTyped, BoundsTyped DEF TypeOK, Table

------------------------------------------------------------------------------
(* Requests and documents. *)

\* What a step changes of the documents, as the other requests see it.
LEMMA DocumentsSeen ==
  ASSUME TypeOK, NEW p \in Apis, Working(p),
         Request(p) \/ CreateStep(p) \/ DeleteStep(p) \/ Resize(p) \/ Die(p),
         NEW i \in Instances, Exists(i)'
  PROVE  \/ Places(p) /\ i = req[p].id
         \/ /\ Exists(i) /\ doc'[i].name = doc[i].name /\ doc'[i].engine = doc[i].engine
            /\ doc'[i].dedicated = doc[i].dedicated
            /\ doc'[i].port = doc[i].port \/ (Finalize(p) /\ i = req[p].id /\ doc'[i].port = port[p])
            /\ doc'[i].named = doc[i].named \/ (Finalize(p) /\ i = req[p].id)
<1>1. CASE doc' = doc
  BY <1>1 DEF Exists
<1>2. CASE Places(p) \/ Unplaces(p) \/ Finalize(p) \/ Resize(p)
  <2>1. Busy(p)
    BY <1>2 DEF Places, Unplaces, Finalize, Resize, Busy
  <2>2. PICK k \in Instances : k = req[p].id
    BY <2>1, RequestTyped
  <2>3. /\ \A j \in Instances \ {k} : doc'[j] = doc[j]
        /\ Unplaces(p) => doc'[k] = None
        /\ ~Exists(k) /\ ~Places(p) => doc'[k] = None
        /\ Finalize(p) /\ Exists(k) => doc'[k] = Completed(req[p], p)
        /\ Resize(p) /\ Exists(k) => doc'[k] = [doc[k] EXCEPT !.size = req[p].size]
    BY <1>2, <2>2, Written
  <2>4. CASE i # k
    BY <2>3, <2>4 DEF Exists
  <2>7. Finalize(p) \/ Resize(p) => ~Places(p)
    BY DEF Finalize, Resize, Places
  <2>5. CASE Finalize(p) /\ i = k
    <3>1. Exists(k) /\ doc'[k] = Completed(req[p], p)
      BY <2>3, <2>5, <2>7 DEF Exists
    <3>2. Matches(p)
      BY <2>1 DEF Working
    <3> QED BY <2>1, <2>2, <2>5, <3>1, <3>2, CompletedTyped DEF Matches
  <2>6. CASE Resize(p) /\ i = k
    <3>1. Exists(k) /\ doc'[k] = [doc[k] EXCEPT !.size = req[p].size] /\ req[p].size \in Sizes
      BY <2>1, <2>3, <2>6, <2>7, RequestTyped DEF Exists
    <3> QED BY <2>6, <3>1, ResizedTyped
  <2> QED BY <1>2, <2>2, <2>3, <2>4, <2>5, <2>6 DEF Exists
<1>3. CASE Request(p)
  BY <1>1, <1>3 DEF Request, Create, Patch, Delete
<1> QED BY <1>1, <1>2, <1>3, Kinds DEF GoesOn, GivesUp, Chooses

\* A request that is not the one that steps.
LEMMA OtherWorks ==
  ASSUME TypeOK, OwnIds, NEW p \in Apis, Working(p),
         Request(p) \/ CreateStep(p) \/ DeleteStep(p) \/ Resize(p) \/ Die(p),
         NEW q \in Apis \ {p}, Working(q), Others(p), born \subseteq born', doomed \subseteq doomed'
  PROVE  Working(q)'
<1>1. pc'[q] = pc[q] /\ req'[q] = req[q] /\ port'[q] = port[q]
  BY DEF Others
<1>2. CASE ~Busy(q)
  BY <1>1, <1>2 DEF Working, Busy, CreateSteps, DeleteSteps, Placed, Ported
<1>3. CASE Busy(q)
  <2>1. PICK i \in Instances : i = req[q].id /\ i \in born
    BY <1>3, RequestTyped DEF Working
  <2>2. Places(p) => req[p].id # i
    BY <1>3, <2>1 DEF OwnIds, Places, CreateSteps
  <2>3. Finalize(p) /\ pc[q] \in CreateSteps => req[p].id # i
    BY <1>3, <2>1 DEF OwnIds, Finalize, CreateSteps
  <2>4. Exists(i)' =>
          /\ Exists(i) /\ doc'[i].name = doc[i].name /\ doc'[i].engine = doc[i].engine
          /\ doc'[i].dedicated = doc[i].dedicated
          /\ pc[q] \in CreateSteps => doc'[i].named = doc[i].named
    BY <2>2, <2>3, DocumentsSeen
  <2>5. Matches(q)'
    BY <1>1, <1>3, <2>1, <2>4 DEF Working, Matches
  <2> QED BY <1>1, <1>3, <2>1, <2>4, <2>5 DEF Working, Busy, Placed
<1> QED BY <1>2, <1>3

LEMMA BornStays ==
  ASSUME TypeOK, NEW p \in Apis, Working(p),
         Request(p) \/ CreateStep(p) \/ DeleteStep(p) \/ Resize(p) \/ Die(p)
  PROVE  Others(p) /\ born \subseteq born' /\ doomed \subseteq doomed'
<1>1. CASE Request(p)
  <2>1. PICK r \in Documents, step \in {"insert", "patch", "dropDatabase", "erase"} : Arrives(p, step, r)
    BY <1>1, Arrivals
  <2> QED BY <2>1, EnterIs DEF Arrives
<1>2. CASE Chooses(p)
  BY <1>2 DEF Chooses, Others, TypeOK, history
<1>3. CASE Places(p) \/ \E step : GoesOn(p, step)
  <2>1. \E step : Goto(p, step)
    BY <1>3 DEF Places, GoesOn
  <2> QED BY <1>3, <2>1, GotoIs DEF Places, GoesOn, history
<1>4. CASE Leave(p) /\ UNCHANGED <<born, doomed>>
  BY <1>4, LeaveIs
<1> QED BY <1>1, <1>2, <1>3, <1>4, Kinds DEF GivesUp, Unplaces, Finalize, Resize, history

\* The request that steps.
LEMMA OneWorks ==
  ASSUME TypeOK, NEW p \in Apis, Working(p),
         Request(p) \/ CreateStep(p) \/ DeleteStep(p) \/ Resize(p) \/ Die(p)
  PROVE  Working(p)'
<1> USE DEF Placed, Ported, CreateSteps, DeleteSteps
<1>1. CASE Request(p)
  <2>1. PICK r \in Documents, step \in {"insert", "patch", "dropDatabase", "erase"} : Arrives(p, step, r)
    BY <1>1, Arrivals
  <2>2. pc[p] = "idle" /\ pc'[p] = step /\ req'[p] = r /\ port' = port /\ doc' = doc
    BY <2>1, EnterIs DEF Arrives
  <2>3. step = "insert" => ~Exists(r.id)
    BY <2>1, DocumentTyped DEF Arrives
  <2> QED BY <2>1, <2>2, <2>3 DEF Arrives, Working, Matches, Busy, Exists
<1>2. CASE Leave(p)
  BY <1>2, LeaveIs DEF Working, Busy
<1>3. CASE Chooses(p)
  <2>1. pc'[p] = "run" /\ pc[p] = "port" /\ req' = req /\ doc' = doc /\ born' = born
    BY <1>3 DEF Chooses, TypeOK
  <2>2. port'[p] \in Ports
    BY <1>3, PortChosen DEF Chooses, TypeOK
  <2>3. port'[p] # None
    BY <2>2, ManagedSqlAssumption
  <2> QED BY <2>1, <2>3 DEF Working, Matches, Busy, Exists
<1>4. CASE Places(p)
  <2>1. Busy(p) /\ pc[p] = "insert"
    BY <1>4 DEF Places, Busy
  <2>2. pc'[p] = (IF req[p].dedicated THEN "port" ELSE "first") /\ req' = req /\ port' = port /\ born' = born
    BY <1>4, GotoIs DEF Places
  <2>3. PICK i \in Instances : i = req[p].id
    BY <2>1, RequestTyped
  <2>4. doc'[i] = req[p]
    BY <1>4, <2>3, Written
  <2> QED BY <2>1, <2>2, <2>3, <2>4 DEF Working, Matches, Busy, Exists
<1>5. CASE \E step : GoesOn(p, step)
  <2>1. PICK step : GoesOn(p, step)
    BY <1>5
  <2>2. pc'[p] = step /\ req' = req /\ port' = port /\ doc' = doc /\ born' = born /\ doomed' = doomed
    BY <2>1, GotoIs DEF GoesOn, history
  <2>3. <<pc[p], step>> \in Flow /\ (step = "rm" => req[p].dedicated)
    BY <2>1 DEF GoesOn
  <2> QED BY <2>2, <2>3 DEF Working, Matches, Busy, Exists, Flow
<1> QED BY <1>1, <1>2, <1>3, <1>4, <1>5, Kinds DEF GivesUp, Unplaces, Finalize, Resize

LEMMA OwnIdsKept ==
  ASSUME TypeOK, OwnIds, \A p \in Apis : Working(p), Next
  PROVE  OwnIds'
<1>1. PICK p \in Apis : Request(p) \/ CreateStep(p) \/ DeleteStep(p) \/ Resize(p) \/ Die(p)
  BY DEF Next
<1>2. Others(p)
  BY <1>1, BornStays
<1> USE DEF CreateSteps, DeleteSteps
<1>3. CASE Request(p)
  <2>1. PICK r \in Documents, step \in {"insert", "patch", "dropDatabase", "erase"} : Arrives(p, step, r)
    BY <1>3, Arrivals
  <2>2. pc'[p] = step /\ req'[p] = r
    BY <2>1, EnterIs DEF Arrives
  <2>3. \A q \in Apis \ {p} : Busy(q) => req[q].id \in born
    BY DEF Working
  <2>4. step = "insert" => r.id \notin born
    BY <2>1 DEF Arrives
  <2>5. \A q \in Apis \ {p} : pc[q] = "insert" /\ step # "insert" => req[q].id # r.id
    BY <2>1 DEF Arrives, Working
  <2> QED BY <1>2, <2>2, <2>3, <2>4, <2>5 DEF OwnIds, Others, Busy
<1>4. CASE req'[p] = req[p] /\ pc[p] # "idle" /\ pc'[p] # "insert" /\ (pc'[p] \in CreateSteps => pc[p] \in CreateSteps)
  BY <1>2, <1>4 DEF OwnIds, Others, Busy
<1>5. CASE Leave(p)
  BY <1>2, <1>5, LeaveIs DEF OwnIds, Others, Busy
<1>6. CASE Chooses(p)
  BY <1>4, <1>6 DEF Chooses, TypeOK
<1>7. CASE Places(p)
  BY <1>4, <1>7, GotoIs DEF Places
<1>8. CASE \E step : GoesOn(p, step)
  <2>1. PICK step : GoesOn(p, step)
    BY <1>8
  <2>2. <<pc[p], step>> \in Flow /\ pc'[p] = step /\ req' = req
    BY <2>1, GotoIs DEF GoesOn
  <2> QED BY <1>4, <2>2 DEF Flow
<1> QED BY <1>1, <1>3, <1>5, <1>6, <1>7, <1>8, Kinds DEF GivesUp, Unplaces, Finalize, Resize

LEMMA NamesKept ==
  ASSUME TypeOK, NamesDiffer, \A p \in Apis : Working(p), Next
  PROVE  NamesDiffer'
<1>1. PICK p \in Apis : Request(p) \/ CreateStep(p) \/ DeleteStep(p) \/ Resize(p) \/ Die(p)
  BY DEF Next
<1>2. CASE Places(p)
  <2>1. Busy(p)
    BY <1>2 DEF Places, Busy
  <2>2. PICK k \in Instances : k = req[p].id
    BY <2>1, RequestTyped
  <2>3. doc'[k] = req[p] /\ \A j \in Instances \ {k} : doc'[j] = doc[j]
    BY <1>2, <2>2, Written
  <2>4. \A j \in Instances : Exists(j) => doc[j].name # req[p].name
    BY <1>2 DEF Places
  <2> QED BY <2>3, <2>4 DEF NamesDiffer, Exists
<1>3. CASE ~Places(p)
  <2>1. \A i \in Instances : Exists(i)' => Exists(i) /\ doc'[i].name = doc[i].name
    BY <1>1, <1>3, DocumentsSeen
  <2> QED BY <2>1 DEF NamesDiffer
<1> QED BY <1>2, <1>3

LEMMA BaseKept ==
  ASSUME Base, Next
  PROVE  Base'
<1>1. TypeOK' /\ OwnIds' /\ NamesDiffer'
  BY TypeKept, OwnIdsKept, NamesKept DEF Base
<1>2. ASSUME NEW q \in Apis PROVE Working(q)'
  <2>1. PICK p \in Apis : Request(p) \/ CreateStep(p) \/ DeleteStep(p) \/ Resize(p) \/ Die(p)
    BY DEF Next
  <2>2. Others(p) /\ born \subseteq born' /\ doomed \subseteq doomed'
    BY <2>1, BornStays DEF Base
  <2> QED BY <2>1, <2>2, OneWorks, OtherWorks DEF Base
<1> QED BY <1>1, <1>2 DEF Base

------------------------------------------------------------------------------
(* Requests of one name, and requests one at a time. *)

LEMMA HistoryGrows ==
  ASSUME TypeOK, NEW p \in Apis, Working(p),
         Request(p) \/ CreateStep(p) \/ DeleteStep(p) \/ Resize(p) \/ Die(p)
  PROVE  contested \subseteq contested' /\ (overlapped => overlapped')
<1>1. CASE Request(p)
  <2>1. PICK r \in Documents, step \in {"insert", "patch", "dropDatabase", "erase"} : Arrives(p, step, r)
    BY <1>1, Arrivals
  <2> QED BY <2>1 DEF Arrives, Enter
<1> QED BY <1>1, Kinds DEF GivesUp, GoesOn, Places, Chooses, Unplaces, Finalize, Resize, history

LEMMA SeparateIds ==
  ASSUME Base, Separate, NEW p \in Apis, NEW q \in Apis, p # q, Clear(p), Busy(q)
  PROVE  req[p].id # req[q].id
<1>1. CASE pc[p] = "insert" \/ pc[q] = "insert"
  BY <1>1 DEF Base, OwnIds, CreateSteps, Clear
<1>2. CASE pc[p] # "insert" /\ pc[q] # "insert"
  <2>1. Matches(p) /\ Matches(q) /\ req[p] \in Documents
    BY RequestTyped DEF Base, Working, Clear
  <2>2. pc[p] \in Placed \cup DeleteSteps \cup {"patch"}
    BY <1>2 DEF Base, TypeOK, Busy, Placed, Clear
  <2>3. Exists(req[p].id)
    BY <2>1, <2>2, ManagedSqlAssumption DEF Separate, Exists
  <2>4. Ident[req[q].name] # Ident[req[p].name]
    BY DEF Separate
  <2> QED BY <2>1, <2>3, <2>4 DEF Matches
<1> QED BY <1>1, <1>2

\* A step leaves the request it does not belong to what it was, and clear only
\* if it was.
LEMMA ClearBefore ==
  ASSUME TypeOK, NEW p \in Apis, Working(p), Others(p), NEW q \in Apis \ {p}, Clear(q)',
         Request(p) \/ CreateStep(p) \/ DeleteStep(p) \/ Resize(p) \/ Die(p)
  PROVE  Clear(q) /\ pc'[q] = pc[q] /\ req'[q] = req[q] /\ port'[q] = port[q]
BY HistoryGrows DEF Clear, Others, Busy

\* Another request that is clear has nothing of what a step writes.
LEMMA SeparateOther ==
  ASSUME Base, Separate, NEW p \in Apis, Others(p),
         Request(p) \/ CreateStep(p) \/ DeleteStep(p) \/ Resize(p) \/ Die(p),
         NEW q \in Apis \ {p}, Clear(q)'
  PROVE  /\ \A t \in Apis \ {q} : Busy(t)' => Ident[req'[t].name] # Ident[req'[q].name]
         /\ \A i \in Instances : Exists(i)' /\ Ident[doc'[i].name] = Ident[req'[q].name] => doc'[i].name = req'[q].name
         /\ pc'[q] \in Placed => doc'[req'[q].id] = req'[q]
         /\ pc'[q] \in DeleteSteps \cup {"patch"} => doc'[req'[q].id] # None
<1>0. TypeOK /\ Working(p)
  BY DEF Base
<1>1. Clear(q) /\ pc'[q] = pc[q] /\ req'[q] = req[q] /\ Busy(q)
  BY <1>0, ClearBefore DEF Clear
<1>2. /\ \A t \in Apis \ {q} : Busy(t) => Ident[req[t].name] # Ident[req[q].name]
      /\ \A i \in Instances : Exists(i) /\ Ident[doc[i].name] = Ident[req[q].name] => doc[i].name = req[q].name
      /\ pc[q] \in Placed => doc[req[q].id] = req[q]
      /\ pc[q] \in DeleteSteps \cup {"patch"} => Exists(req[q].id)
  BY <1>1 DEF Separate
<1>3. CASE Request(p)
  <2>1. PICK r \in Documents, step \in {"insert", "patch", "dropDatabase", "erase"} : Arrives(p, step, r)
    BY <1>0, <1>3, Arrivals
  <2>2. pc'[p] = step /\ req'[p] = r /\ doc' = doc
    BY <1>0, <2>1, EnterIs DEF Arrives
  <2>3. Ident[r.name] # Ident[req[q].name]
    <3> SUFFICES ASSUME Ident[r.name] = Ident[req[q].name] PROVE FALSE
      OBVIOUS
    <3>1. Contests(p, r)
      BY <1>1 DEF Contests, Busy
    <3>2. Ident[r.name] \in contested'
      BY <2>1, <3>1 DEF Arrives, Enter
    <3> QED BY <1>1, <3>2 DEF Clear
  <2>4. \A t \in Apis \ {q} : Busy(t)' => Ident[req'[t].name] # Ident[req'[q].name]
    BY <1>1, <1>2, <2>2, <2>3 DEF Others, Busy
  <2> QED BY <1>1, <1>2, <2>2, <2>4 DEF Exists
<1>4. CASE ~Request(p)
  <2>1. Busy(p)
    BY <1>0, <1>4, Kinds DEF GivesUp, GoesOn, Flow, Places, Chooses, Unplaces, Finalize, Resize, Busy
  <2>2. req'[p] = req[p] \/ ~Busy(p)'
    <3>1. CASE Leave(p)
      BY <1>0, <3>1, LeaveIs DEF Busy
    <3>2. CASE Chooses(p)
      BY <3>2 DEF Chooses
    <3>3. CASE Places(p) \/ \E step : GoesOn(p, step)
      BY <3>3 DEF Places, GoesOn, Goto
    <3> QED BY <1>0, <1>4, <3>1, <3>2, <3>3, Kinds DEF GivesUp, Unplaces, Finalize, Resize
  <2>3. \A t \in Apis \ {q} : Busy(t)' => Busy(t) /\ req'[t] = req[t]
    BY <2>1, <2>2 DEF Others, Busy
  <2>4. req[p].id # req[q].id /\ Ident[req[p].name] # Ident[req[q].name]
    BY <1>1, <1>2, <2>1, SeparateIds
  <2>5. PICK k \in Instances, m \in Instances : k = req[p].id /\ m = req[q].id
    BY <1>0, <1>1, <2>1, RequestTyped
  <2>6. \A j \in Instances \ {k} : doc'[j] = doc[j]
    BY <1>0, <1>4, <2>5, Kinds, Written DEF GivesUp, GoesOn, Chooses
  <2>7. doc'[req'[q].id] = doc[req[q].id]
    BY <1>1, <2>4, <2>5, <2>6
  <2>8. ASSUME NEW i \in Instances, Exists(i)', Ident[doc'[i].name] = Ident[req[q].name]
        PROVE  doc'[i].name = req[q].name
    <3>1. CASE Places(p) /\ i = req[p].id
      <4>1. doc'[i] = req[p]
        BY <1>0, <3>1, Written
      <4> QED BY <2>4, <2>8, <4>1
    <3>2. CASE ~(Places(p) /\ i = req[p].id)
      <4>1. Exists(i) /\ doc'[i].name = doc[i].name
        BY <1>0, <2>8, <3>2, DocumentsSeen
      <4> QED BY <1>2, <2>8, <4>1
    <3> QED BY <3>1, <3>2
  <2> QED BY <1>1, <1>2, <2>3, <2>7, <2>8 DEF Exists
<1> QED BY <1>3, <1>4

LEMMA SeparateKept ==
  ASSUME Base, Separate, Next
  PROVE  Separate'
<1>1. PICK p \in Apis : Request(p) \/ CreateStep(p) \/ DeleteStep(p) \/ Resize(p) \/ Die(p)
  BY DEF Next
<1>2. TypeOK /\ Working(p) /\ Others(p) /\ contested \subseteq contested'
  BY <1>1, BornStays, HistoryGrows DEF Base
<1> DEFINE Apart(q) ==
      /\ \A t \in Apis \ {q} : Busy(t) => Ident[req[t].name] # Ident[req[q].name]
      /\ \A i \in Instances : Exists(i) /\ Ident[doc[i].name] = Ident[req[q].name] => doc[i].name = req[q].name
      /\ pc[q] \in Placed => doc[req[q].id] = req[q]
      /\ pc[q] \in DeleteSteps \cup {"patch"} => Exists(req[q].id)
<1>3. \A q \in Apis \ {p} : Clear(q)' => Apart(q)'
  BY <1>1, <1>2, SeparateOther DEF Exists
<1> SUFFICES ASSUME Clear(p)' PROVE Apart(p)'
  BY <1>3 DEF Separate
<1>4. CASE Request(p)
  <2>1. PICK r \in Documents, step \in {"insert", "patch", "dropDatabase", "erase"} : Arrives(p, step, r)
    BY <1>2, <1>4, Arrivals
  <2>2. pc'[p] = step /\ req'[p] = r /\ doc' = doc /\ (step # "insert" => Exists(r.id))
    BY <1>2, <2>1, EnterIs DEF Arrives
  <2>3. ~Contests(p, r)
    BY <2>1, <2>2 DEF Clear, Arrives, Enter
  <2>4. \A t \in Apis \ {p} : Busy(t)' => Ident[req'[t].name] # Ident[req'[p].name]
    BY <1>2, <2>2, <2>3 DEF Contests, Others, Busy
  <2>5. \A i \in Instances : Exists(i)' /\ Ident[doc'[i].name] = Ident[req'[p].name] => doc'[i].name = req'[p].name
    BY <2>2, <2>3 DEF Contests, Exists
  <2>6. step \notin Placed /\ (step \in DeleteSteps \cup {"patch"} => step # "insert")
    BY DEF Placed, CreateSteps, DeleteSteps
  <2> QED BY <2>2, <2>4, <2>5, <2>6 DEF Exists
<1>5. CASE ~Request(p)
  <2>1. Busy(p) /\ ~Leave(p)
    BY <1>1, <1>2, <1>5, Kinds, LeaveIs DEF GivesUp, GoesOn, Flow, Places, Chooses, Unplaces, Finalize, Resize,
       Busy, Clear
  <2>2. Places(p) \/ Chooses(p) \/ \E step : GoesOn(p, step)
    BY <1>1, <1>2, <1>5, <2>1, Kinds DEF GivesUp, Unplaces, Finalize, Resize
  <2>3. req' = req
    BY <2>2 DEF Places, Chooses, GoesOn, Goto
  <2>4. Clear(p)
    BY <1>2, <2>1, <2>3 DEF Clear
  <2>5. Apart(p)
    BY <2>4 DEF Separate
  <2>6. \A t \in Apis \ {p} : Busy(t)' => Ident[req'[t].name] # Ident[req'[p].name]
    BY <1>2, <2>3, <2>5 DEF Others, Busy
  <2>7. PICK k \in Instances : k = req[p].id
    BY <1>2, <2>1, RequestTyped
  <2>8. CASE Places(p)
    <3>1. doc'[k] = req[p] /\ (\A j \in Instances \ {k} : doc'[j] = doc[j]) /\ pc'[p] \in {"port", "first"}
      BY <1>2, <2>7, <2>8, Written, GotoIs DEF Places
    <3>2. \A i \in Instances : Exists(i)' /\ Ident[doc'[i].name] = Ident[req'[p].name] => doc'[i].name = req'[p].name
      BY <2>3, <2>5, <3>1 DEF Exists
    <3>3. doc'[req'[p].id] = req'[p] /\ pc'[p] \notin DeleteSteps \cup {"patch"}
      BY <2>3, <2>7, <3>1 DEF DeleteSteps
    <3> QED BY <2>6, <3>2, <3>3
  <2>9. CASE doc' = doc /\ (pc'[p] \in Placed => pc[p] \in Placed) /\ (pc'[p] \in DeleteSteps \cup {"patch"} => pc[p] \in DeleteSteps)
    BY <2>3, <2>5, <2>6, <2>9 DEF Exists
  <2>10. CASE Chooses(p)
    <3>1. doc' = doc /\ pc[p] = "port" /\ pc'[p] = "run"
      BY <1>2, <2>10 DEF Chooses, TypeOK
    <3> QED BY <2>9, <3>1 DEF Placed, CreateSteps, DeleteSteps
  <2>11. CASE \E step : GoesOn(p, step)
    <3>1. PICK step : GoesOn(p, step)
      BY <2>11
    <3>2. <<pc[p], step>> \in Flow /\ pc'[p] = step /\ doc' = doc
      BY <1>2, <3>1, GotoIs DEF GoesOn
    <3>3. /\ pc'[p] \in Placed => pc[p] \in Placed
          /\ pc'[p] \in DeleteSteps \cup {"patch"} => pc[p] \in DeleteSteps
      BY <3>2 DEF Flow, Placed, CreateSteps, DeleteSteps
    <3> QED BY <2>9, <3>2, <3>3
  <2> QED BY <2>2, <2>8, <2>10, <2>11
<1> QED BY <1>4, <1>5

LEMMA LoneKept ==
  ASSUME Base, Lone, Next
  PROVE  Lone'
<1>1. PICK p \in Apis : Request(p) \/ CreateStep(p) \/ DeleteStep(p) \/ Resize(p) \/ Die(p)
  BY DEF Next
<1>2. TypeOK /\ Working(p) /\ Others(p) /\ (overlapped => overlapped')
  BY <1>1, BornStays, HistoryGrows DEF Base
<1> SUFFICES ASSUME ~overlapped' PROVE \A q, r \in Apis : Busy(q)' /\ Busy(r)' => q = r
  BY DEF Lone
<1>3. \A q, r \in Apis : Busy(q) /\ Busy(r) => q = r
  BY <1>2 DEF Lone
<1>4. CASE Request(p)
  <2>1. PICK r \in Documents, step \in {"insert", "patch", "dropDatabase", "erase"} : Arrives(p, step, r)
    BY <1>2, <1>4, Arrivals
  <2>2. \A q \in Apis \ {p} : ~Busy(q)
    BY <2>1 DEF Arrives, Enter, Busy
  <2> QED BY <1>2, <1>3, <2>1, <2>2 DEF Arrives, Enter, Busy, Others
<1>5. CASE ~Request(p)
  <2>1. Busy(p)
    BY <1>1, <1>2, <1>5, Kinds DEF GivesUp, GoesOn, Flow, Places, Chooses, Unplaces, Finalize, Resize, Busy
  <2> QED BY <1>2, <1>3, <2>1 DEF Others, Busy
<1> QED BY <1>4, <1>5

\* The port of the one request stays free until its document shows it.
LEMMA PortsKept ==
  ASSUME Base, Base', Lone, Lone', PortFree, PortsDiffer, Next
  PROVE  PortFree' /\ PortsDiffer'
<1>1. PICK p \in Apis : Request(p) \/ CreateStep(p) \/ DeleteStep(p) \/ Resize(p) \/ Die(p)
  BY DEF Next
<1>2. TypeOK /\ Working(p) /\ Others(p) /\ (overlapped => overlapped')
  BY <1>1, BornStays, HistoryGrows DEF Base
<1> SUFFICES ASSUME ~overlapped' PROVE PortFree' /\ PortsDiffer'
  BY DEF PortFree, PortsDiffer
<1>3. ~overlapped
  BY <1>2
<1>4. \A i \in Instances : Exists(i)' =>
        \/ Places(p) /\ i = req[p].id /\ doc'[i].port = None
        \/ Exists(i) /\ doc'[i].port = doc[i].port
        \/ Finalize(p) /\ i = req[p].id /\ doc'[i].port = port[p]
  <2>1. Places(p) => Busy(p) /\ \A i \in Instances : i = req[p].id => doc'[i].port = None
    <3> SUFFICES ASSUME Places(p), NEW i \in Instances, i = req[p].id PROVE Busy(p) /\ doc'[i].port = None
      BY DEF Places, Busy
    <3>1. doc'[i] = req[p]
      BY <1>2, Written
    <3> QED BY <1>2, <3>1 DEF Places, Working, Busy, CreateSteps
  <2> QED BY <1>1, <1>2, <2>1, DocumentsSeen
<1>5. PortsDiffer'
  <2>1. \A i \in Instances : Exists(i) => port[p] # doc[i].port \/ port[p] = None
    BY <1>3 DEF PortFree
  <2> SUFFICES ASSUME NEW i \in Instances, NEW j \in Instances, i # j, Exists(i)', Exists(j)', doc'[i].port # None
               PROVE  doc'[i].port # doc'[j].port
    BY DEF PortsDiffer
  <2> QED BY <1>3, <1>4, <2>1 DEF PortsDiffer
<1>6. PortFree'
  <2> SUFFICES ASSUME NEW q \in Apis, NEW i \in Instances, port'[q] # None, Exists(i)'
               PROVE  doc'[i].port # port'[q]
    BY DEF PortFree
  <2>1. pc'[q] \in Ported /\ Busy(q)'
    BY DEF Base, Working, Busy, Ported, Placed, CreateSteps
  <2>2. CASE q # p
    <3>1. port'[q] = port[q] /\ Busy(q)
      BY <1>2, <2>1, <2>2 DEF Others, Busy
    <3>2. ~Busy(p)
      BY <1>3, <2>2, <3>1 DEF Lone
    <3>3. doc' = doc
      BY <1>1, <1>2, <3>2, Kinds DEF GivesUp, GoesOn, Flow, Places, Chooses, Unplaces, Finalize, Resize, Busy,
         Request, Create, Patch, Delete
    <3> QED BY <1>3, <3>1, <3>3 DEF PortFree, Exists
  <2>3. CASE q = p
    <3>1. CASE Request(p)
      <4>1. PICK r \in Documents, step \in {"insert", "patch", "dropDatabase", "erase"} : Arrives(p, step, r)
        BY <1>2, <3>1, Arrivals
      <4>2. pc'[p] = step
        BY <1>2, <4>1, EnterIs DEF Arrives
      <4> QED BY <2>1, <2>3, <4>2 DEF Ported, Placed, CreateSteps
    <3>2. CASE Leave(p)
      BY <1>2, <2>1, <2>3, <3>2, LeaveIs DEF Busy
    <3>3. CASE Chooses(p)
      <4>1. port'[p] \notin Used /\ doc' = doc
        BY <1>2, <3>3, PortChosen DEF Chooses, TypeOK
      <4> QED BY <2>3, <4>1 DEF Used, Exists
    <3>4. CASE Places(p)
      BY <1>2, <2>3, <3>4, GotoIs DEF Places, Working, Ported, Placed
    <3>5. CASE \E step : GoesOn(p, step)
      BY <1>2, <1>3, <2>3, <3>5, GotoIs DEF GoesOn, PortFree, Exists
    <3> QED BY <1>1, <1>2, <3>1, <3>2, <3>3, <3>4, <3>5, Kinds DEF GivesUp, Unplaces, Finalize, Resize
  <2> QED BY <2>2, <2>3
<1> QED BY <1>5, <1>6


------------------------------------------------------------------------------
(* What a complete instance owns. *)

\* The objects and the container of document d stay what they are.
Spared(d) ==
  /\ \A o \in Objects : made'[ServerOf(d)][o][Ident[d.name]] = made[ServerOf(d)][o][Ident[d.name]]
  /\ bound'[d.id] = bound[d.id]

LEMMA ServingSpares ==
  ASSUME TypeOK, NEW p \in Apis, Serving(p), NEW d \in Documents,
         d.id # req[p].id, Ident[d.name] # Ident[req[p].name]
  PROVE  Spared(d)
<1>1. Busy(p)
  BY DEF Serving, Busy
<1>2. /\ ServerOf(req[p]) \in Servers /\ UndoServer(req[p]) \in Servers /\ req[p].id \in Instances
      /\ Ident[req[p].name] \in Idents
  BY <1>1, RequestTyped
<1>3. d.id \in Instances /\ d.engine \in Engines /\ d.name \in Names
  BY DEF Documents
<1>4. Ident[d.name] \in Idents /\ ServerOf(d) \in Servers /\ ServerOf(d) # req[p].id
  BY <1>2, <1>3, ManagedSqlAssumption DEF ServerOf, Servers
<1>5. CASE bound' = bound /\ \E s \in {ServerOf(req[p]), UndoServer(req[p])}, o \in Objects : Drop(s, o, req[p])
  BY <1>1, <1>2, <1>4, <1>5, DropTyped DEF Spared
<1>6. CASE bound' = bound /\ \E o \in Objects : Missing(req[p], o) /\ Put(req[p], o)
  BY <1>1, <1>2, <1>4, <1>6, PutTyped DEF Spared
<1>7. CASE pc[p] = "run" /\ bound' = [bound EXCEPT ![req[p].id] = port[p]] /\ made' = made
  BY <1>3, <1>7 DEF Spared, TypeOK
<1>8. CASE /\ pc[p] = "rm" /\ bound' = [bound EXCEPT ![req[p].id] = None]
           /\ made' = [made EXCEPT ![req[p].id] = [o \in Objects |-> [x \in Idents |-> None]]]
  <2>1. made'[ServerOf(d)] = made[ServerOf(d)]
    BY <1>4, <1>8 DEF TypeOK
  <2>2. bound'[d.id] = bound[d.id]
    BY <1>3, <1>8 DEF TypeOK
  <2> QED BY <2>1, <2>2 DEF Spared
<1> QED BY <1>5, <1>6, <1>7, <1>8 DEF Serving

\* How a create comes to the statements and past them.
LEMMA Progress ==
  ASSUME TypeOK, NEW p \in Apis, Request(p) \/ CreateStep(p) \/ DeleteStep(p) \/ Resize(p) \/ Die(p)
  PROVE  /\ pc'[p] = "first" => \/ Places(p) /\ ~req[p].dedicated
                                \/ /\ pc[p] = "run" /\ Goto(p, "first")
                                   /\ bound' = [bound EXCEPT ![req[p].id] = port[p]] /\ made' = made
         /\ pc'[p] = "second" =>
              /\ pc[p] = "first" /\ Goto(p, "second") /\ bound' = bound
              /\ Missing(req[p], First(req[p])) /\ Put(req[p], First(req[p]))
         /\ pc'[p] = "finalize" =>
              /\ pc[p] = "second" /\ Goto(p, "finalize") /\ bound' = bound
              /\ Missing(req[p], Second(req[p])) /\ Put(req[p], Second(req[p]))
<1>1. CASE pc'[p] \notin {"first", "second", "finalize"}
  BY <1>1
<1>2. CASE Leave(p)
  BY <1>1, <1>2, LeaveIs
<1>3. CASE Request(p)
  <2>1. PICK r \in Documents, step \in {"insert", "patch", "dropDatabase", "erase"} : Arrives(p, step, r)
    BY <1>3, Arrivals
  <2> QED BY <1>1, <2>1, EnterIs DEF Arrives
<1>4. CASE Insert(p)
  <2>1. CASE Goto(p, IF req[p].dedicated THEN "port" ELSE "first")
    <3>1. pc'[p] = IF req[p].dedicated THEN "port" ELSE "first"
      BY <2>1, GotoIs
    <3>2. Places(p) \/ Leave(p)
      BY <1>4 DEF Insert, Places, bounds, history
    <3> QED BY <1>2, <3>1, <3>2
  <2> QED BY <1>2, <1>4, <2>1 DEF Insert
<1>5. CASE Allocate(p)
  <2>1. pc'[p] = "run" \/ Leave(p)
    BY <1>5 DEF Allocate, TypeOK
  <2> QED BY <1>1, <1>2, <2>1
<1>6. CASE Run(p)
  <2>1. CASE Goto(p, "first")
    BY <1>2, <1>6, <2>1, GotoIs DEF Run
  <2> QED BY <1>2, <1>6, <2>1 DEF Run
<1>7. CASE Make(p, "first", First(req[p]), "second")
  <2>1. CASE Goto(p, "undoDatabase") \/ Goto(p, "discard")
    BY <1>1, <2>1, GotoIs
  <2>2. CASE Goto(p, "second") /\ Missing(req[p], First(req[p])) /\ Put(req[p], First(req[p]))
    BY <1>7, <2>2, GotoIs DEF Make
  <2> QED BY <1>7, <2>1, <2>2 DEF Make
<1>8. CASE Make(p, "second", Second(req[p]), "finalize")
  <2>1. CASE Goto(p, "undoDatabase") \/ Goto(p, "discard")
    BY <1>1, <2>1, GotoIs
  <2>2. CASE Goto(p, "finalize") /\ Missing(req[p], Second(req[p])) /\ Put(req[p], Second(req[p]))
    BY <1>8, <2>2, GotoIs DEF Make
  <2> QED BY <1>8, <2>1, <2>2 DEF Make
<1>9. CASE \E step \in {"undoRole", "discard", "dropRole", "rm", "erase"} : Goto(p, step)
  BY <1>1, <1>9, GotoIs
<1> QED BY <1>2, <1>3, <1>4, <1>5, <1>6, <1>7, <1>8, <1>9 DEF CreateStep, DeleteStep, Undo, UndoFails,
    Discard, Finalize, Resize, Die, DropObject, Remove, Erase

LEMMA OwningKept ==
  ASSUME Base, Separate, Owning, Next
  PROVE  Owning'
<1>1. PICK p \in Apis : Request(p) \/ CreateStep(p) \/ DeleteStep(p) \/ Resize(p) \/ Die(p)
  BY DEF Next
<1>2. TypeOK /\ Working(p) /\ Others(p) /\ contested \subseteq contested'
  BY <1>1, BornStays, HistoryGrows DEF Base
<1>3. req'[p] = req[p] /\ Busy(p) /\ Clear(p)' => Clear(p)
  BY <1>2 DEF Clear
<1>4. ASSUME NEW q \in Apis \ {p}, Clear(q)'
      PROVE  /\ pc'[q] \in {"second", "finalize"} => Has(req[q], First(req[q]))'
             /\ pc'[q] = "finalize" => Has(req[q], Second(req[q]))'
             /\ pc'[q] \in {"first", "second", "finalize"} /\ req'[q].dedicated => bound'[req'[q].id] = port'[q]
  <2>1. Clear(q) /\ pc'[q] = pc[q] /\ req'[q] = req[q] /\ port'[q] = port[q]
    BY <1>1, <1>2, <1>4, ClearBefore
  <2> SUFFICES ASSUME pc[q] \in {"first", "second", "finalize"}
               PROVE  /\ pc[q] \in {"second", "finalize"} => Has(req[q], First(req[q]))'
                      /\ pc[q] = "finalize" => Has(req[q], Second(req[q]))'
                      /\ req[q].dedicated => bound'[req[q].id] = port[q]
    BY <2>1
  <2>2. req[q] \in Documents /\ Busy(q)
    BY <1>2, RequestTyped DEF Busy
  <2>3. Spared(req[q])
    <3>1. CASE UNCHANGED <<made, bound>>
      BY <3>1 DEF Spared
    <3>2. CASE Serving(p)
      <4>1. Busy(p)
        BY <3>2 DEF Serving, Busy
      <4>2. req[q].id # req[p].id /\ Ident[req[q].name] # Ident[req[p].name]
        BY <2>1, <2>2, <4>1, SeparateIds DEF Separate
      <4> QED BY <1>2, <2>2, <3>2, <4>2, ServingSpares
    <3> QED BY <1>1, <1>2, <3>1, <3>2, Servings
  <2>4. First(req[q]) \in Objects /\ Second(req[q]) \in Objects
    BY DEF First, Second, Objects
  <2> QED BY <2>1, <2>3, <2>4 DEF Owning, Has, Spared, ServerOf, First, Second
<1>5. ASSUME Clear(p)'
      PROVE
      /\ pc'[p] \in {"second", "finalize"} => Has(req[p], First(req[p]))'
      /\ pc'[p] = "finalize" => Has(req[p], Second(req[p]))'
      /\ pc'[p] \in {"first", "second", "finalize"} /\ req'[p].dedicated => bound'[req'[p].id] = port'[p]
  <2>1. CASE pc'[p] = "first"
    <3>1. CASE Places(p) /\ ~req[p].dedicated
      <4>1. req' = req
        BY <1>2, <3>1, GotoIs DEF Places
      <4> QED BY <2>1, <3>1, <4>1
    <3>2. CASE pc[p] = "run" /\ Goto(p, "first") /\ bound' = [bound EXCEPT ![req[p].id] = port[p]]
      <4>1. req' = req /\ port' = port
        BY <1>2, <3>2, GotoIs
      <4>2. req[p].id \in Instances
        BY <1>2, <3>2, RequestTyped DEF Busy
      <4> QED BY <1>2, <2>1, <3>2, <4>1, <4>2 DEF TypeOK
    <3> QED BY <1>1, <1>2, <2>1, <3>1, <3>2, Progress
  <2>2. ASSUME NEW o \in Objects, Missing(req[p], o), Put(req[p], o), pc[p] \in {"first", "second"},
               \E step : Goto(p, step), bound' = bound
        PROVE  /\ req' = req /\ port' = port /\ Has(req[p], o)'
               /\ \A u \in Objects \ {o} : made'[ServerOf(req[p])][u][Ident[req[p].name]]
                                             = made[ServerOf(req[p])][u][Ident[req[p].name]]
               /\ req[p].dedicated => bound'[req[p].id] = port[p]
    <3>1. Busy(p) /\ req' = req /\ port' = port
      BY <1>2, <2>2, GotoIs DEF Busy
    <3>2. made'[ServerOf(req[p])][o][Ident[req[p].name]] = req[p].id
          /\ \A u \in Objects \ {o} : made'[ServerOf(req[p])][u][Ident[req[p].name]]
                                        = made[ServerOf(req[p])][u][Ident[req[p].name]]
      BY <1>2, <2>2, <3>1, PutTyped, RequestTyped
    <3>3. Has(req[p], o)'
      BY <3>1, <3>2 DEF Has, ServerOf
    <3>4. req[p].dedicated => bound[req[p].id] = port[p]
      BY <1>3, <1>5, <2>2, <3>1 DEF Owning
    <3> QED BY <2>2, <3>1, <3>2, <3>3, <3>4
  <2>3. First(req[p]) \in Objects /\ Second(req[p]) \in Objects /\ First(req[p]) # Second(req[p])
    BY DEF First, Second, Objects
  <2>4. CASE pc'[p] = "second"
    <3>1. /\ pc[p] = "first" /\ Goto(p, "second") /\ bound' = bound
          /\ Missing(req[p], First(req[p])) /\ Put(req[p], First(req[p]))
      BY <1>1, <1>2, <2>4, Progress
    <3>2. PICK o \in Objects : o = First(req[p])
      BY <2>3
    <3>3. req' = req /\ port' = port /\ Has(req[p], o)' /\ (req[p].dedicated => bound'[req[p].id] = port[p])
      BY <2>2, <3>1, <3>2
    <3> QED BY <2>4, <3>2, <3>3 DEF Has
  <2>5. CASE pc'[p] = "finalize"
    <3>1. /\ pc[p] = "second" /\ Goto(p, "finalize") /\ bound' = bound
          /\ Missing(req[p], Second(req[p])) /\ Put(req[p], Second(req[p]))
      BY <1>1, <1>2, <2>5, Progress
    <3>2. PICK o \in Objects : o = Second(req[p])
      BY <2>3
    <3>3. PICK u \in Objects \ {o} : u = First(req[p])
      BY <2>3, <3>2
    <3>4. /\ req' = req /\ port' = port /\ Has(req[p], o)'
          /\ made'[ServerOf(req[p])][u][Ident[req[p].name]] = made[ServerOf(req[p])][u][Ident[req[p].name]]
          /\ req[p].dedicated => bound'[req[p].id] = port[p]
      BY <2>2, <3>1, <3>2
    <3>5. Has(req[p], First(req[p]))
      BY <1>3, <1>5, <3>1, <3>4 DEF Owning, Busy
    <3>6. Has(req[p], First(req[p]))'
      BY <3>3, <3>4, <3>5 DEF Has, ServerOf, First
    <3> QED BY <2>5, <3>2, <3>4, <3>6 DEF Has
  <2> QED BY <2>1, <2>4, <2>5
<1> QED BY <1>4, <1>5 DEF Owning

LEMMA CompleteOwnsKept ==
  ASSUME Base, Separate, Owning, CompleteOwns, Next
  PROVE  CompleteOwns'
<1>1. PICK p \in Apis : Request(p) \/ CreateStep(p) \/ DeleteStep(p) \/ Resize(p) \/ Die(p)
  BY DEF Next
<1>2. TypeOK /\ Working(p) /\ Others(p) /\ doomed \subseteq doomed' /\ contested \subseteq contested'
  BY <1>1, BornStays, HistoryGrows DEF Base
<1> SUFFICES ASSUME NEW i \in Instances, Exists(i)', doc'[i].named, i \notin doomed',
                    Ident[doc'[i].name] \notin contested'
             PROVE  Owns(i)'
  BY DEF CompleteOwns
<1>3. i \notin doomed /\ Ident[doc'[i].name] \notin contested
  BY <1>2
<1>4. TypeOK'
  BY TypeKept DEF Base
<1>5. ~(Places(p) /\ i = req[p].id)
  <2> SUFFICES ASSUME Places(p), i = req[p].id PROVE FALSE
    OBVIOUS
  <2>1. doc'[i] = req[p]
    BY <1>2, Written
  <2> QED BY <1>2, <2>1 DEF Places, Working, CreateSteps
<1>6. /\ Exists(i) /\ doc'[i].name = doc[i].name /\ doc'[i].engine = doc[i].engine
      /\ doc'[i].dedicated = doc[i].dedicated
      /\ doc'[i].port = doc[i].port \/ (Finalize(p) /\ i = req[p].id /\ doc'[i].port = port[p])
      /\ doc'[i].named = doc[i].named \/ (Finalize(p) /\ i = req[p].id)
  BY <1>1, <1>2, <1>5, DocumentsSeen
<1>7. doc[i].id = i /\ doc'[i].id = i /\ doc[i] \in Documents
  BY <1>2, <1>4, <1>6, DocumentTyped DEF TypeOK
<1>8. ServerOf(doc[i])' = ServerOf(doc[i])
  BY <1>6, <1>7 DEF ServerOf
<1>9. CASE Finalize(p) /\ i = req[p].id
  <2>1. pc[p] = "finalize" /\ made' = made /\ bound' = bound /\ Busy(p)
    BY <1>9 DEF Finalize, Busy
  <2>9. Clear(p)
    BY <1>2, <1>3, <1>6, <1>9, <2>1 DEF Working, Matches, Clear
  <2>2. Has(req[p], First(req[p])) /\ Has(req[p], Second(req[p]))
        /\ (req[p].dedicated => bound[i] = port[p])
    BY <1>9, <2>1, <2>9 DEF Owning
  <2>3. doc[i] = req[p]
    BY <1>9, <2>1, <2>9 DEF Separate, Placed, CreateSteps
  <2>4. \A o \in Objects : o = First(req[p]) \/ o = Second(req[p])
    BY DEF Objects, First, Second
  <2>5. \A o \in Objects : made[ServerOf(doc[i])][o][Ident[doc[i].name]] = i
    BY <1>9, <2>2, <2>3, <2>4 DEF Has
  <2>6. \A o \in Objects : made'[ServerOf(doc'[i])][o][Ident[doc'[i].name]] = i
    BY <1>6, <1>8, <2>1, <2>5
  <2>7. doc'[i] = Completed(req[p], p)
    <3>1. ~Places(p)
      BY <2>1 DEF Places
    <3> QED BY <1>2, <1>6, <1>9, <3>1, Written
  <2>8. doc'[i].port = port[p]
    BY <1>2, <2>1, <2>7, CompletedTyped
  <2> QED BY <1>6, <2>1, <2>2, <2>3, <2>6, <2>8 DEF Owns
<1>10. CASE ~(Finalize(p) /\ i = req[p].id)
  <2>1. doc'[i].port = doc[i].port /\ doc[i].named
    BY <1>6, <1>10
  <2>2. Owns(i)
    BY <1>3, <1>6, <2>1 DEF CompleteOwns
  <2>3. Spared(doc[i])
    <3>1. CASE UNCHANGED <<made, bound>>
      BY <3>1 DEF Spared
    <3>2. CASE Serving(p)
      <4>1. pc[p] \in Placed \cup DeleteSteps /\ Busy(p)
        BY <3>2 DEF Serving, Placed, CreateSteps, DeleteSteps, Busy
      <4>2. PICK k \in Instances : k = req[p].id
        BY <1>2, <4>1, RequestTyped
      <4>3. Ident[doc[i].name] # Ident[req[p].name]
        <5> SUFFICES ASSUME Ident[doc[i].name] = Ident[req[p].name] PROVE FALSE
          OBVIOUS
        <5>1. Clear(p)
          BY <1>3, <1>6, <4>1 DEF Clear
        <5>2. doc[i].name = req[p].name
          BY <1>6, <5>1 DEF Separate
        <5>3. CASE pc[p] \in Placed
          <6>1. doc[k] = req[p] /\ ~req[p].named
            BY <1>2, <4>2, <5>1, <5>3 DEF Separate, Working, Placed
          <6>2. Exists(k)
            BY <1>2, <4>1, <6>1 DEF TypeOK, Exists, Busy
          <6>3. k = i
            BY <1>6, <5>2, <6>1, <6>2 DEF Base, NamesDiffer
          <6> QED BY <2>1, <6>1, <6>3
        <5>4. CASE pc[p] \in DeleteSteps
          <6>1. Exists(k) /\ k \in doomed
            BY <1>2, <4>2, <5>1, <5>4 DEF Separate, Working
          <6>2. doc[k].name = req[p].name
            BY <1>2, <4>1, <4>2, <6>1 DEF Working, Matches
          <6>3. k = i
            BY <1>6, <5>2, <6>1, <6>2 DEF Base, NamesDiffer
          <6> QED BY <1>3, <6>1, <6>3
        <5> QED BY <4>1, <5>3, <5>4
      <4>4. k # i
        BY <1>2, <1>6, <4>1, <4>2, <4>3 DEF Working, Matches
      <4> QED BY <1>2, <1>7, <3>2, <4>2, <4>3, <4>4, ServingSpares
    <3> QED BY <1>1, <1>2, <3>1, <3>2, Servings
  <2> QED BY <1>6, <1>7, <1>8, <2>1, <2>2, <2>3 DEF Owns, Spared
<1> QED BY <1>9, <1>10

------------------------------------------------------------------------------
(* Placeholders. *)

LEMMA PlaceholdersKept ==
  ASSUME Base, NoStuckPlaceholder, Next
  PROVE  NoStuckPlaceholder'
<1>1. PICK p \in Apis : Request(p) \/ CreateStep(p) \/ DeleteStep(p) \/ Resize(p) \/ Die(p)
  BY DEF Next
<1>2. TypeOK /\ Working(p) /\ Others(p)
  BY <1>1, BornStays DEF Base
<1> SUFFICES ASSUME deaths' = 0, NEW i \in Instances, Exists(i)', ~doc'[i].named, ~doc'[i].dedicated
             PROVE  \E q \in Apis : pc'[q] \in CreateSteps /\ req'[q].id = i
  BY DEF NoStuckPlaceholder
<1>3. deaths = 0 /\ deaths' = deaths
  <2>1. deaths' \in {deaths, deaths + 1}
    BY <1>1, <1>2, Kinds DEF Request, Create, Patch, Delete, GivesUp, GoesOn, Places, Chooses, Unplaces, Finalize,
       Resize, bounds
  <2> QED BY <1>2, <2>1 DEF TypeOK
<1>4. CASE Places(p) /\ i = req[p].id
  <2>1. req' = req /\ pc'[p] \in {"port", "first"}
    BY <1>2, <1>4, GotoIs DEF Places
  <2> QED BY <1>4, <2>1 DEF CreateSteps
<1>5. CASE ~(Places(p) /\ i = req[p].id)
  <2>1. /\ Exists(i) /\ doc'[i].dedicated = doc[i].dedicated
        /\ doc'[i].named = doc[i].named \/ (Finalize(p) /\ i = req[p].id)
    BY <1>1, <1>2, <1>5, DocumentsSeen
  <2>2. ~(Finalize(p) /\ i = req[p].id)
    <3> SUFFICES ASSUME Finalize(p), i = req[p].id PROVE FALSE
      OBVIOUS
    <3>1. Busy(p) /\ ~Places(p)
      BY DEF Finalize, Places, Busy
    <3>2. doc'[i] = Completed(req[p], p)
      BY <1>2, <2>1, <3>1, Written
    <3>3. doc'[i].named
      BY <1>2, <3>1, <3>2, CompletedTyped
    <3> QED BY <3>3
  <2>3. ~doc[i].named /\ ~doc[i].dedicated
    BY <2>1, <2>2
  <2>4. PICK q \in Apis : pc[q] \in CreateSteps /\ req[q].id = i
    BY <1>3, <2>1, <2>3 DEF NoStuckPlaceholder
  <2>5. CASE q # p
    BY <1>2, <2>4, <2>5 DEF Others
  <2>6. CASE q = p
    <3>1. Busy(p) /\ Matches(p) /\ ~req[p].dedicated
      BY <1>2, <2>1, <2>3, <2>4, <2>6 DEF Busy, CreateSteps, Working, Matches
    <3>2. CASE Request(p)
      <4>1. PICK r \in Documents, step \in {"insert", "patch", "dropDatabase", "erase"} : Arrives(p, step, r)
        BY <1>2, <3>2, Arrivals
      <4> QED BY <1>2, <3>1, <4>1, EnterIs DEF Arrives, Busy
    <3>3. CASE \E step : GoesOn(p, step)
      <4>1. PICK step : GoesOn(p, step)
        BY <3>3
      <4>2. <<pc[p], step>> \in Flow /\ pc'[p] = step /\ req' = req
        BY <1>2, <4>1, GotoIs DEF GoesOn
      <4> QED BY <2>4, <2>6, <4>2 DEF Flow, CreateSteps
    <3>4. ~GivesUp(p)
      BY <1>2, <1>3, <2>1, <2>4, <2>6, <3>1 DEF GivesUp, Placed, Working
    <3>5. CASE Chooses(p)
      BY <1>2, <2>4, <2>6, <3>5 DEF Chooses, TypeOK, CreateSteps
    <3>6. ~Unplaces(p)
      BY <1>2, <2>4, <2>6, Written DEF Exists
    <3>7. ~Resize(p) /\ ~Places(p)
      BY <1>5, <2>4, <2>6 DEF Resize, CreateSteps
    <3> QED BY <1>1, <1>2, <2>2, <2>4, <2>6, <3>2, <3>3, <3>4, <3>5, <3>6, <3>7, Kinds
  <2> QED BY <2>5, <2>6
<1> QED BY <1>4, <1>5

------------------------------------------------------------------------------
(* Sums over finite sets. *)

LEMMA Minimal ==
  ASSUME NEW S, IsFiniteSet(S), NEW C \in SUBSET (SUBSET S), C # {}
  PROVE  \E T \in C : \A U \in C : U \subseteq T => U = T
<1>1. C \subseteq FiniteSubsetsOf(S)
  BY FS_Subset DEF FiniteSubsetsOf
<1> DEFINE R == StrictSubsetOrdering(S)
<1>2. PICK T \in C : \A U \in C : <<U, T>> \notin R
  <2> HIDE DEF R
  <2>1. IsWellFoundedOn(R, FiniteSubsetsOf(S))
    BY FS_StrictSubsetOrderingWellFounded DEF R
  <2> QED BY <1>1, <2>1, WFMin
<1> QED BY <1>2 DEF StrictSubsetOrdering

Pick(s) == CHOOSE y \in s : TRUE

\* What the sum of f over the subsets of S is, as the fold computes it.
Sums(g, f, S) ==
  g = [s \in SUBSET S |-> IF s = {} THEN 0 ELSE f[Pick(s)] + g[s \ {Pick(s)}]]

LEMMA Picked ==
  ASSUME NEW s, s # {}
  PROVE  Pick(s) \in s
BY DEF Pick

LEMMA SumExists ==
  ASSUME NEW S, IsFiniteSet(S), NEW f \in [S -> Nat]
  PROVE  \E g \in [SUBSET S -> Nat] : Sums(g, f, S)
<1> DEFINE Upto(n) == {s \in SUBSET S : Cardinality(s) <= n}
           Good(g, n) == /\ g \in [Upto(n) -> Nat]
                         /\ \A s \in Upto(n) : g[s] = IF s = {} THEN 0 ELSE f[Pick(s)] + g[s \ {Pick(s)}]
           Bad == {n \in Nat : ~\E g : Good(g, n)}
<1>0. \A s \in SUBSET S : IsFiniteSet(s) /\ Cardinality(s) \in Nat /\ (Cardinality(s) = 0 <=> s = {})
  BY FS_Subset, FS_CardinalityType, FS_EmptySet
<1>1. Bad = {}
  <2> SUFFICES ASSUME Bad # {} PROVE FALSE
    OBVIOUS
  <2>1. PICK m \in Bad : \A n \in Bad : m <= n
    <3> HIDE DEF Bad
    <3>1. Bad \in SUBSET Nat
      BY DEF Bad
    <3> QED BY <3>1, Least
  <2>2. CASE m = 0
    <3>1. \A s \in Upto(0) : s = {}
      BY <1>0
    <3>2. Good([s \in Upto(0) |-> 0], 0)
      BY <3>1
    <3> QED BY <2>1, <2>2, <3>2
  <2>3. CASE m # 0
    <3>1. m - 1 \in Nat /\ m - 1 \notin Bad
      <4>1. m \in Nat
        BY <2>1
      <4>2. m - 1 \in Nat /\ ~(m <= m - 1)
        BY <2>3, <4>1
      <4> HIDE DEF Bad
      <4> QED BY <2>1, <4>2
    <3>2. PICK g : Good(g, m - 1)
      BY <3>1
    <3>3. \A s \in Upto(m) : s # {} => Pick(s) \in S /\ s \ {Pick(s)} \in Upto(m - 1) /\ s \ {Pick(s)} \in Upto(m)
      <4> SUFFICES ASSUME NEW s \in Upto(m), s # {}
                   PROVE  Pick(s) \in S /\ s \ {Pick(s)} \in Upto(m - 1) /\ s \ {Pick(s)} \in Upto(m)
        OBVIOUS
      <4>1. Pick(s) \in s
        BY Picked
      <4>2. Cardinality(s \ {Pick(s)}) = Cardinality(s) - 1
        BY <1>0, <4>1, FS_RemoveElement
      <4> QED BY <1>0, <2>1, <4>1, <4>2
    <3> DEFINE h == [s \in Upto(m) |-> IF s = {} THEN 0 ELSE f[Pick(s)] + g[s \ {Pick(s)}]]
    <3>4. h \in [Upto(m) -> Nat]
      BY <3>2, <3>3
    <3>5. ASSUME NEW s \in Upto(m - 1) PROVE s \in Upto(m) /\ h[s] = g[s]
      <4>1. s \in SUBSET S /\ Cardinality(s) <= m - 1
        OBVIOUS
      <4>2. Cardinality(s) \in Nat
        BY <1>0, <4>1
      <4>3. m \in Nat
        BY <2>1
      <4>4. Cardinality(s) <= m
        BY <4>1, <4>2, <4>3
      <4>5. s \in Upto(m)
        BY <4>1, <4>4
      <4>6. g[s] = IF s = {} THEN 0 ELSE f[Pick(s)] + g[s \ {Pick(s)}]
        BY <3>2
      <4> HIDE DEF Upto, Pick
      <4>7. h[s] = IF s = {} THEN 0 ELSE f[Pick(s)] + g[s \ {Pick(s)}]
        BY <4>5
      <4> QED BY <4>5, <4>6, <4>7
    <3>6. Good(h, m)
      <4> SUFFICES ASSUME NEW s \in Upto(m), s # {} PROVE h[s] = f[Pick(s)] + h[s \ {Pick(s)}]
        BY <3>4
      <4>1. h[s \ {Pick(s)}] = g[s \ {Pick(s)}]
        BY <3>3, <3>5
      <4> QED BY <4>1
    <3> QED BY <2>1, <3>6
  <2> QED BY <2>2, <2>3
<1>2. PICK n \in Nat : n = Cardinality(S)
  BY <1>0
<1>3. Upto(n) = SUBSET S
  BY <1>0, <1>2, FS_Subset
<1>4. PICK g : Good(g, n)
  BY <1>1
<1>5. g = [s \in SUBSET S |-> g[s]] /\ g \in [SUBSET S -> Nat]
  BY <1>3, <1>4
<1>6. \A s \in SUBSET S : g[s] = IF s = {} THEN 0 ELSE f[Pick(s)] + g[s \ {Pick(s)}]
  BY <1>3, <1>4
<1> QED BY <1>5, <1>6 DEF Sums

LEMMA SumTyped ==
  ASSUME NEW S, IsFiniteSet(S), NEW f, \A x \in S : f[x] \in Nat, NEW g, Sums(g, f, S)
  PROVE  g \in [SUBSET S -> Nat]
<1> DEFINE Bad == {s \in SUBSET S : g[s] \notin Nat}
<1>1. Bad = {}
  <2> SUFFICES ASSUME Bad # {} PROVE FALSE
    OBVIOUS
  <2>1. PICK s \in Bad : \A u \in Bad : u \subseteq s => u = s
    <3> HIDE DEF Bad
    <3>1. Bad \in SUBSET (SUBSET S)
      BY DEF Bad
    <3> QED BY <3>1, Minimal
  <2>2. g[s] = IF s = {} THEN 0 ELSE f[Pick(s)] + g[s \ {Pick(s)}]
    BY <2>1 DEF Sums
  <2>3. s # {}
    BY <2>1, <2>2
  <2>4. Pick(s) \in s /\ s \ {Pick(s)} \in SUBSET S
    BY <2>1, <2>3, Picked
  <2>5. g[s \ {Pick(s)}] \in Nat
    BY <2>1, <2>4
  <2> QED BY <2>1, <2>2, <2>3, <2>4, <2>5
<1> QED BY <1>1 DEF Sums

LEMMA SumRemoves ==
  ASSUME NEW S, IsFiniteSet(S), NEW f, \A x \in S : f[x] \in Nat, NEW g, Sums(g, f, S),
         NEW T \in SUBSET S, NEW x \in T
  PROVE  g[T] = f[x] + g[T \ {x}]
<1> DEFINE Bad == {s \in SUBSET S : \E y \in s : g[s] # f[y] + g[s \ {y}]}
<1>0. g \in [SUBSET S -> Nat]
  BY SumTyped
<1>1. Bad = {}
  <2> SUFFICES ASSUME Bad # {} PROVE FALSE
    OBVIOUS
  <2>1. PICK s \in Bad : \A u \in Bad : u \subseteq s => u = s
    <3> HIDE DEF Bad
    <3>1. Bad \in SUBSET (SUBSET S)
      BY DEF Bad
    <3> QED BY <3>1, Minimal
  <2>2. PICK y \in s : g[s] # f[y] + g[s \ {y}]
    BY <2>1
  <2>3. PICK c \in s : c = Pick(s)
    BY <2>2, Picked
  <2>4. g[s] = f[c] + g[s \ {c}]
    BY <2>1, <2>2, <2>3 DEF Sums
  <2>5. c # y
    BY <2>2, <2>4
  <2>6. PICK t \in SUBSET S : t = (s \ {c}) \ {y} /\ t = (s \ {y}) \ {c}
    BY <2>1
  <2>7. g[s \ {c}] = f[y] + g[t]
    <3>1. s \ {c} \in SUBSET S /\ s \ {c} # s /\ y \in s \ {c}
      BY <2>1, <2>5
    <3>2. s \ {c} \notin Bad
      BY <2>1, <3>1
    <3> QED BY <2>6, <3>1, <3>2
  <2>8. g[s \ {y}] = f[c] + g[t]
    <3>1. s \ {y} \in SUBSET S /\ s \ {y} # s /\ c \in s \ {y}
      BY <2>1, <2>5
    <3>2. s \ {y} \notin Bad
      BY <2>1, <3>1
    <3> QED BY <2>6, <3>1, <3>2
  <2>9. f[y] \in Nat /\ f[c] \in Nat /\ g[t] \in Nat
    BY <1>0, <2>1, <2>6
  <2> QED BY <2>2, <2>4, <2>7, <2>8, <2>9
<1> QED BY <1>1

LEMMA SumAgrees ==
  ASSUME NEW S, IsFiniteSet(S), NEW f, NEW g, Sums(g, f, S),
         NEW R, IsFiniteSet(R), NEW e, NEW h, Sums(h, e, R),
         NEW T \in SUBSET S, T \in SUBSET R, \A x \in T : f[x] = e[x]
  PROVE  g[T] = h[T]
<1> DEFINE Bad == {s \in SUBSET T : g[s] # h[s]}
<1>1. Bad = {}
  <2> SUFFICES ASSUME Bad # {} PROVE FALSE
    OBVIOUS
  <2>1. PICK s \in Bad : \A u \in Bad : u \subseteq s => u = s
    <3> HIDE DEF Bad
    <3>1. Bad \in SUBSET (SUBSET T) /\ IsFiniteSet(T)
      BY FS_Subset DEF Bad
    <3> QED BY <3>1, Minimal
  <2>2. /\ g[s] = IF s = {} THEN 0 ELSE f[Pick(s)] + g[s \ {Pick(s)}]
        /\ h[s] = IF s = {} THEN 0 ELSE e[Pick(s)] + h[s \ {Pick(s)}]
    BY <2>1 DEF Sums
  <2>3. s # {}
    BY <2>1, <2>2
  <2>4. Pick(s) \in s
    BY <2>3, Picked
  <2>5. s \ {Pick(s)} \in SUBSET T /\ s \ {Pick(s)} # s /\ f[Pick(s)] = e[Pick(s)]
    BY <2>1, <2>4
  <2>6. g[s \ {Pick(s)}] = h[s \ {Pick(s)}]
    BY <2>1, <2>5
  <2> QED BY <2>1, <2>2, <2>5, <2>6
<1> QED BY <1>1

\* Two sums that differ in one element.
LEMMA SumsDiffer ==
  ASSUME NEW S, IsFiniteSet(S), NEW f, \A x \in S : f[x] \in Nat, NEW g, Sums(g, f, S),
         NEW R, IsFiniteSet(R), NEW e, \A x \in R : e[x] \in Nat, NEW h, Sums(h, e, R),
         NEW k, S \ {k} = R \ {k}, \A x \in S \ {k} : f[x] = e[x]
  PROVE  \E rest \in Nat : /\ g[S] = rest + (IF k \in S THEN f[k] ELSE 0)
                           /\ h[R] = rest + (IF k \in R THEN e[k] ELSE 0)
<1>1. g \in [SUBSET S -> Nat] /\ h \in [SUBSET R -> Nat]
  BY SumTyped
<1>2. PICK T : T = S \ {k} /\ T = R \ {k}
  OBVIOUS
<1>3. T \in SUBSET S /\ T \in SUBSET R /\ \A x \in T : f[x] = e[x]
  BY <1>2
<1>4. g[T] = h[T] /\ g[T] \in Nat
  BY <1>1, <1>3, SumAgrees
<1>5. g[S] = g[T] + (IF k \in S THEN f[k] ELSE 0)
  <2>1. CASE k \in S
    <3>1. S \in SUBSET S
      OBVIOUS
    <3>2. g[S] = f[k] + g[S \ {k}] /\ f[k] \in Nat
      BY <2>1, <3>1, SumRemoves
    <3> QED BY <1>2, <1>4, <2>1, <3>2
  <2>2. CASE k \notin S
    <3>1. T = S
      BY <1>2, <2>2
    <3> QED BY <1>4, <2>2, <3>1
  <2> QED BY <2>1, <2>2
<1>6. h[R] = h[T] + (IF k \in R THEN e[k] ELSE 0)
  <2>1. CASE k \in R
    BY <1>1, <1>2, <1>4, <2>1, SumRemoves
  <2>2. CASE k \notin R
    <3>1. T = R
      BY <1>2, <2>2
    <3> QED BY <1>4, <2>2, <3>1
  <2> QED BY <2>1, <2>2
<1> QED BY <1>4, <1>5, <1>6

\* A sum is no larger than another over a larger set of larger values.
LEMMA SumGrows ==
  ASSUME NEW S, IsFiniteSet(S), NEW f, \A x \in S : f[x] \in Nat, NEW g, Sums(g, f, S),
         NEW R \in SUBSET S, NEW e, \A x \in R : e[x] \in Nat /\ e[x] <= f[x], NEW h, Sums(h, e, R)
  PROVE  h[R] <= g[S]
<1>0. IsFiniteSet(R)
  BY FS_Subset
<1>1. g \in [SUBSET S -> Nat] /\ h \in [SUBSET R -> Nat]
  BY <1>0, SumTyped
<1> DEFINE Bad == {s \in SUBSET S : ~(h[s \cap R] <= g[s])}
<1>2. Bad = {}
  <2> SUFFICES ASSUME Bad # {} PROVE FALSE
    OBVIOUS
  <2>1. PICK s \in Bad : \A u \in Bad : u \subseteq s => u = s
    <3> HIDE DEF Bad
    <3>1. Bad \in SUBSET (SUBSET S)
      BY DEF Bad
    <3> QED BY <3>1, Minimal
  <2>2. s \in SUBSET S /\ ~(h[s \cap R] <= g[s])
    BY <2>1
  <2>3. s # {}
    <3> SUFFICES ASSUME s = {} PROVE FALSE
      OBVIOUS
    <3>1. g[{}] = 0 /\ h[{}] = 0
      BY DEF Sums
    <3>2. s \cap R = {}
      OBVIOUS
    <3> QED BY <2>2, <3>1, <3>2
  <2>4. PICK x \in s : TRUE
    BY <2>3
  <2>5. PICK t : t = s \ {x}
    OBVIOUS
  <2>12. t \in SUBSET S /\ t # s /\ t \subseteq s
    BY <2>2, <2>4, <2>5
  <2>6. t \notin Bad
    BY <2>1, <2>12
  <2>7. h[t \cap R] <= g[t]
    BY <2>6, <2>12
  <2> HIDE DEF Bad
  <2>8. g[s] = f[x] + g[t]
    BY <2>2, <2>4, <2>5, SumRemoves
  <2>9. f[x] \in Nat /\ g[t] \in Nat /\ h[t \cap R] \in Nat
    <3>1. t \cap R \in SUBSET R /\ x \in S
      BY <2>2, <2>4
    <3> QED BY <1>1, <2>12, <3>1
  <2>10. CASE x \in R
    <3>1. x \in s \cap R /\ s \cap R \in SUBSET R /\ (s \cap R) \ {x} = t \cap R
      BY <2>4, <2>5, <2>10
    <3>2. \A y \in R : e[y] \in Nat
      OBVIOUS
    <3>3. h[s \cap R] = e[x] + h[(s \cap R) \ {x}]
      BY <1>0, <3>1, <3>2, SumRemoves
    <3>4. e[x] \in Nat /\ e[x] <= f[x]
      BY <2>10
    <3>5. h[s \cap R] = e[x] + h[t \cap R]
      BY <3>1, <3>3
    <3>6. PICK a \in Nat, b \in Nat, c \in Nat, d \in Nat : a = f[x] /\ b = g[t] /\ c = h[t \cap R] /\ d = e[x]
      BY <2>9, <3>4
    <3>7. c <= b /\ d <= a /\ ~(d + c <= a + b)
      BY <2>2, <2>7, <2>8, <3>4, <3>5, <3>6
    <3> QED BY <3>7
  <2>11. CASE x \notin R
    <3>1. s \cap R = t \cap R
      BY <2>5, <2>11
    <3>2. PICK a \in Nat, b \in Nat, c \in Nat : a = f[x] /\ b = g[t] /\ c = h[t \cap R]
      BY <2>9
    <3>3. c <= b /\ ~(c <= a + b)
      BY <2>2, <2>7, <2>8, <3>1, <3>2
    <3> QED BY <3>3
  <2> QED BY <2>10, <2>11
<1>3. S \in SUBSET S /\ S \cap R = R
  OBVIOUS
<1>4. S \notin Bad
  BY <1>2
<1> QED BY <1>3, <1>4

LEMMA Distributes ==
  ASSUME NEW c \in Nat, NEW m \in Nat
  PROVE  (c + 1) * m = c * m + m /\ c * m \in Nat /\ 0 * m = 0
OBVIOUS

LEMMA Multiplies ==
  ASSUME NEW c \in Nat, NEW d \in Nat, c <= d, NEW m \in Nat
  PROVE  c * m <= d * m
OBVIOUS

\* Values of f can be raised to the sizes of the requests in Q, each at its own
\* document, and the sum grows by m at most for each of them.
Raises(S, f, g, Q, m, at, size) ==
  \E e \in [S -> Nat] : \E h : /\ Sums(h, e, S) /\ h[S] <= g[S] + Cardinality(Q) * m
                               /\ \A x \in S : f[x] <= e[x]
                               /\ \A q \in Q : size[q] <= e[at[q]]

LEMMA Raised ==
  ASSUME NEW S, IsFiniteSet(S), NEW f \in [S -> Nat], NEW g, Sums(g, f, S),
         NEW Q, IsFiniteSet(Q), NEW m \in Nat, NEW at, \A q \in Q : at[q] \in S,
         NEW size, \A q \in Q : size[q] \in Nat /\ size[q] <= m
  PROVE  Raises(S, f, g, Q, m, at, size)
<1> DEFINE Good(P) == \E e \in [S -> Nat] : \E h : /\ Sums(h, e, S) /\ h[S] <= g[S] + Cardinality(P) * m
                                                   /\ \A x \in S : f[x] <= e[x]
                                                   /\ \A q \in P : size[q] <= e[at[q]]
           Bad == {P \in SUBSET Q : ~Good(P)}
<1>1. Bad = {}
  <2> SUFFICES ASSUME Bad # {} PROVE FALSE
    OBVIOUS
  <2>1. PICK P \in Bad : \A U \in Bad : U \subseteq P => U = P
    <3> HIDE DEF Bad
    <3>1. Bad \in SUBSET (SUBSET Q)
      BY DEF Bad
    <3> QED BY <3>1, Minimal
  <2>2. P \in SUBSET Q /\ ~Good(P)
    BY <2>1
  <2>3. g[S] \in Nat
    <3>1. (\A x \in S : f[x] \in Nat) /\ S \in SUBSET S
      OBVIOUS
    <3>2. g \in [SUBSET S -> Nat]
      BY <3>1, SumTyped
    <3> QED BY <3>1, <3>2
  <2>4. CASE P = {}
    <3>4. Cardinality(P) = 0 /\ 0 * m = 0
      BY <2>4, FS_EmptySet, Distributes
    <3>5. Cardinality(P) * m = 0
      BY <3>4
    <3>1. g[S] <= g[S] + Cardinality(P) * m
      BY <2>3, <3>5
    <3>2. \A x \in S : f[x] <= f[x]
      OBVIOUS
    <3>3. Good(P)
      BY <2>4, <3>1, <3>2
    <3> QED BY <2>2, <3>3
  <2>5. CASE P # {}
    <3>1. PICK q \in P : TRUE
      BY <2>5
    <3>2. PICK U \in SUBSET Q : U = P \ {q}
      BY <2>2
    <3>3. Good(U)
      BY <2>1, <3>1, <3>2
    <3>4. PICK e \in [S -> Nat] : \E h : /\ Sums(h, e, S) /\ h[S] <= g[S] + Cardinality(U) * m
                                         /\ \A x \in S : f[x] <= e[x]
                                         /\ \A r \in U : size[r] <= e[at[r]]
      BY <3>3
    <3>5. PICK h : /\ Sums(h, e, S) /\ h[S] <= g[S] + Cardinality(U) * m
                   /\ \A x \in S : f[x] <= e[x]
                   /\ \A r \in U : size[r] <= e[at[r]]
      BY <3>4
    <3>6. PICK k \in S : k = at[q]
      BY <2>2, <3>1
    <3>7. PICK n \in Nat : n = size[q] /\ n <= m
      BY <2>2, <3>1
    <3>18. [x \in S |-> IF x = k THEN e[k] + n ELSE e[x]] \in [S -> Nat]
      OBVIOUS
    <3>8. PICK d \in [S -> Nat] : d = [x \in S |-> IF x = k THEN e[k] + n ELSE e[x]]
      BY <3>18
    <3>9. \A x \in S : e[x] \in Nat /\ e[x] <= d[x]
      BY <3>8
    <3>10. d[k] = e[k] + n /\ n <= d[k] /\ \A x \in S \ {k} : d[x] = e[x]
      BY <3>8
    <3>11. PICK j \in [SUBSET S -> Nat] : Sums(j, d, S)
      BY SumExists
    <3>12. PICK rest \in Nat : h[S] = rest + e[k] /\ j[S] = rest + d[k]
      <4>1. S \ {k} = S \ {k} /\ (\A x \in S : d[x] \in Nat) /\ (\A x \in S \ {k} : e[x] = d[x])
        BY <3>10
      <4>2. \E rest \in Nat : /\ h[S] = rest + (IF k \in S THEN e[k] ELSE 0)
                              /\ j[S] = rest + (IF k \in S THEN d[k] ELSE 0)
        BY <3>5, <3>9, <3>11, <4>1, SumsDiffer
      <4> QED BY <4>2
    <3>13. Cardinality(P) = Cardinality(U) + 1 /\ Cardinality(U) \in Nat
      <4>1. IsFiniteSet(P) /\ IsFiniteSet(U)
        BY <2>2, FS_Subset
      <4>2. Cardinality(P \ {q}) = Cardinality(P) - 1
        BY <3>1, <4>1, FS_RemoveElement
      <4> QED BY <3>2, <4>1, <4>2, FS_CardinalityType
    <3>14. j[S] <= g[S] + Cardinality(P) * m
      <4>1. PICK c \in Nat, b \in Nat : c = Cardinality(U) /\ b = c * m
        BY <3>13, Distributes
      <4>2. (c + 1) * m = b + m
        BY <4>1, Distributes
      <4>3. Cardinality(P) * m = b + m /\ Cardinality(U) * m = b
        BY <3>13, <4>1, <4>2
      <4>4. e[k] \in Nat /\ j[S] = rest + (e[k] + n) /\ rest + e[k] <= g[S] + b
        BY <3>5, <3>9, <3>10, <3>12, <4>3
      <4> QED BY <2>3, <3>7, <4>3, <4>4
    <3>15. \A x \in S : f[x] <= d[x]
      <4> SUFFICES ASSUME NEW x \in S PROVE f[x] <= d[x]
        OBVIOUS
      <4>1. f[x] \in Nat /\ e[x] \in Nat /\ d[x] \in Nat /\ f[x] <= e[x] /\ e[x] <= d[x]
        BY <3>5, <3>9
      <4> QED BY <4>1
    <3>16. \A r \in P : size[r] <= d[at[r]]
      <4> SUFFICES ASSUME NEW r \in P PROVE size[r] <= d[at[r]]
        OBVIOUS
      <4>1. CASE r = q
        BY <3>6, <3>7, <3>10, <4>1
      <4>2. CASE r # q
        <5>1. r \in U /\ at[r] \in S /\ size[r] \in Nat
          BY <2>2, <3>2, <4>2
        <5>2. size[r] <= e[at[r]] /\ e[at[r]] <= d[at[r]] /\ e[at[r]] \in Nat /\ d[at[r]] \in Nat
          BY <3>5, <3>9, <5>1
        <5> QED BY <5>1, <5>2
      <4> QED BY <4>1, <4>2
    <3>17. Good(P)
      BY <3>11, <3>14, <3>15, <3>16
    <3> QED BY <2>2, <3>17
  <2> QED BY <2>4, <2>5
<1>2. Q \notin Bad
  BY <1>1
<1>3. Good(Q)
  BY <1>2
<1> QED BY <1>3 DEF Raises

------------------------------------------------------------------------------
(* The quota. *)

SizeOf == [i \in Existing |-> doc[i].size]

LEMMA AllocatedIs ==
  TypeOK /\ IsFiniteSet(Existing) =>
    /\ \A i \in Existing : SizeOf[i] \in Nat
    /\ \E g \in [SUBSET Existing -> Nat] : Sums(g, SizeOf, Existing) /\ Allocated = g[Existing]
<1> SUFFICES ASSUME TypeOK, IsFiniteSet(Existing)
             PROVE  /\ \A i \in Existing : SizeOf[i] \in Nat
                    /\ \E g \in [SUBSET Existing -> Nat] : Sums(g, SizeOf, Existing) /\ Allocated = g[Existing]
  OBVIOUS
<1>1. \A i \in Existing : SizeOf[i] = doc[i].size /\ SizeOf[i] \in Nat
  BY DocumentTyped, SizesSmall DEF Existing, SizeOf
<1>2. SizeOf \in [Existing -> Nat]
  BY <1>1 DEF SizeOf
<1> DEFINE P(g) == g = [s \in SUBSET Existing |->
                          IF s = {} THEN 0
                          ELSE LET x == CHOOSE y \in s : TRUE IN doc[x].size + g[s \ {x}]]
           G == CHOOSE g : P(g)
<1>3. ASSUME NEW g PROVE P(g) <=> Sums(g, SizeOf, Existing)
  <2>1. \A s \in SUBSET Existing : s # {} => (CHOOSE y \in s : TRUE) \in Existing
    OBVIOUS
  <2> QED BY <1>1, <2>1 DEF Sums, Pick
<1>4. \E g : P(g)
  <2>1. PICK g : Sums(g, SizeOf, Existing)
    BY <1>2, SumExists
  <2>2. P(g)
    BY <1>3, <2>1
  <2> HIDE DEF P
  <2> QED BY <2>2
<1>5. P(G)
  <2> HIDE DEF P
  <2> QED BY <1>4
<1>6. Allocated = G[Existing]
  BY DEF Allocated, MapThenSumSet, MapThenFoldSet
<1> HIDE DEF G, P
<1>7. Sums(G, SizeOf, Existing)
  BY <1>3, <1>5
<1> QED BY <1>1, <1>6, <1>7, SumTyped

\* What may be stored at most, with every process but one late.
Rivals == Cardinality(Apis) - 1
Cap == MaxStorage + Rivals * MaxSize

\* Shares of the instances: they cover what is stored and what each request is
\* about to store, and their sum stays within the cap.
Covers(f) ==
  /\ \A i \in Existing : doc[i].size <= f[i]
  /\ \A p \in Apis : Busy(p) => req[p].size <= f[req[p].id]

Covered ==
  /\ IsFiniteSet(born)
  /\ \E f \in [born -> Nat] : Covers(f) /\ \E g : Sums(g, f, born) /\ g[born] <= Cap

\* The instances there are, and those about to be inserted.
Inserting == {p \in Apis : pc[p] = "insert"}
Counted == Cardinality(Existing) + Cardinality(Inserting) <= MaxInstances + Rivals

LEMMA RivalsTyped == Rivals \in Nat /\ Cardinality(Apis) = Rivals + 1 /\ Cap \in Nat
<1>1. Cardinality(Apis) \in Nat /\ Cardinality(Apis) # 0
  BY ManagedSqlAssumption, FS_CardinalityType, FS_EmptySet
<1>2. Rivals \in Nat /\ Cardinality(Apis) = Rivals + 1
  BY <1>1 DEF Rivals
<1>3. Rivals * MaxSize \in Nat
  BY <1>2, ManagedSqlAssumption, Distributes
<1> QED BY <1>2, <1>3, ManagedSqlAssumption DEF Cap

LEMMA FiniteSets ==
  ASSUME TypeOK, IsFiniteSet(born)
  PROVE  /\ Existing \subseteq born /\ IsFiniteSet(Existing) /\ Cardinality(Existing) \in Nat
         /\ IsFiniteSet(Inserting) /\ Cardinality(Inserting) \in Nat
<1>1. Existing \subseteq born
  BY DEF TypeOK, Existing
<1>2. Inserting \subseteq Apis
  BY DEF Inserting
<1> QED BY <1>1, <1>2, ManagedSqlAssumption, FS_Subset, FS_CardinalityType

\* What is stored is within the cap.
LEMMA CoveredBounds ==
  ASSUME TypeOK, Covered
  PROVE  Allocated <= Cap
<1>1. PICK f \in [born -> Nat] : Covers(f) /\ \E g : Sums(g, f, born) /\ g[born] <= Cap
  BY DEF Covered
<1>2. PICK g : Sums(g, f, born) /\ g[born] <= Cap
  BY <1>1
<1>3. IsFiniteSet(born) /\ Existing \in SUBSET born /\ IsFiniteSet(Existing)
  BY FiniteSets DEF Covered
<1>4. PICK h \in [SUBSET Existing -> Nat] : Sums(h, SizeOf, Existing) /\ Allocated = h[Existing]
  BY <1>3, AllocatedIs
<1>5. \A x \in Existing : SizeOf[x] \in Nat /\ SizeOf[x] <= f[x]
  BY <1>1, <1>3, AllocatedIs DEF Covers, SizeOf
<1>6. \A x \in born : f[x] \in Nat
  OBVIOUS
<1>7. h[Existing] <= g[born]
  BY <1>2, <1>3, <1>4, <1>5, <1>6, SumGrows
<1>8. g[born] \in Nat /\ h[Existing] \in Nat
  <2>1. g \in [SUBSET born -> Nat]
    BY <1>2, <1>3, <1>6, SumTyped
  <2>2. born \in SUBSET born /\ Existing \in SUBSET Existing
    OBVIOUS
  <2> QED BY <2>1, <2>2
<1> QED BY <1>2, <1>4, <1>7, <1>8, RivalsTyped

\* A check that has passed leaves room for every other request that is late:
\* the shares are what is stored, s for the instance i of the request, and more
\* where another request needs it.
LEMMA CheckCovers ==
  ASSUME TypeOK, \A p \in Apis : Working(p), IsFiniteSet(born), NEW p \in Apis, ~Busy(p), NEW i \in Instances, NEW s \in Sizes,
         NEW R, R = born \cup {i},
         Exists(i) => doc[i].size <= s,
         Allocated + s - (IF Exists(i) THEN doc[i].size ELSE 0) <= MaxStorage
  PROVE  /\ IsFiniteSet(R)
         /\ \E f \in [R -> Nat] :
              /\ \A j \in Existing : doc[j].size <= f[j]
              /\ \A q \in Apis : Busy(q) => req[q].size <= f[req[q].id]
              /\ s <= f[i]
              /\ \E g : Sums(g, f, R) /\ g[R] <= Cap
<1>1. IsFiniteSet(R) /\ IsFiniteSet(Existing) /\ Existing \subseteq R /\ i \in R
  <2>1. IsFiniteSet(born \cup {i})
    BY FS_AddElement
  <2> QED BY <2>1, FiniteSets
<1>2. s \in Nat /\ s <= MaxSize /\ MaxSize \in Nat
  BY SizesSmall, ManagedSqlAssumption
<1>3. \A j \in Existing : doc[j].size \in Nat
  BY DocumentTyped, SizesSmall DEF Existing
<1>4. PICK b \in [R -> Nat] : b = [j \in R |-> IF j = i THEN s ELSE IF j \in Existing THEN doc[j].size ELSE 0]
  BY <1>2, <1>3
<1>5. PICK g \in [SUBSET R -> Nat] : Sums(g, b, R)
  BY <1>1, SumExists
<1>6. g[R] <= MaxStorage
  <2>1. PICK E \in SUBSET R : E = Existing \cup {i}
    BY <1>1
  <2>2. IsFiniteSet(E)
    BY <1>1, <2>1, FS_Subset
  \* Outside E the values are zero.
  <2>3. g[R] = g[E]
    <3> DEFINE Bad == {t \in SUBSET R : E \subseteq t /\ g[t] # g[E]}
    <3> SUFFICES ASSUME Bad # {} PROVE FALSE
      <4>1. R \notin Bad => g[R] = g[E]
        BY <2>1
      <4> QED BY <4>1
    <3>1. PICK t \in Bad : \A u \in Bad : u \subseteq t => u = t
      <4> HIDE DEF Bad
      <4>1. Bad \in SUBSET (SUBSET R)
        BY DEF Bad
      <4> QED BY <1>1, <4>1, Minimal
    <3>6. t \in SUBSET R /\ E \subseteq t /\ g[t] # g[E]
      BY <3>1
    <3>2. PICK x \in t : x \notin E
      <4>1. t # E
        BY <3>6
      <4> QED BY <3>6, <4>1
    <3>3. g[t] = b[x] + g[t \ {x}]
      BY <1>1, <1>5, <3>2, <3>6, SumRemoves
    <3>4. b[x] = 0
      BY <1>4, <2>1, <3>2, <3>6
    <3>5. t \ {x} \in SUBSET R /\ E \subseteq t \ {x} /\ t \ {x} # t
      BY <3>2, <3>6
    <3>7. g[t \ {x}] = g[E] /\ g[t \ {x}] \in Nat
      BY <1>5, <3>1, <3>5
    <3> QED BY <3>3, <3>4, <3>6, <3>7
  <2>4. PICK h \in [SUBSET Existing -> Nat] : Sums(h, SizeOf, Existing) /\ Allocated = h[Existing]
    BY <1>1, AllocatedIs
  <2>5. PICK T : T = Existing \ {i}
    OBVIOUS
  <2>10. T \in SUBSET R /\ T \in SUBSET Existing
    BY <1>1, <2>5
  <2>6. g[T] = h[T] /\ h[T] \in Nat
    <3>1. \A x \in T : b[x] = SizeOf[x]
      BY <1>1, <1>4, <2>5 DEF SizeOf
    <3> QED BY <1>1, <1>5, <2>4, <2>10, <3>1, SumAgrees
  <2>7. g[E] = s + g[T]
    <3>1. i \in E /\ E \ {i} = T /\ b[i] = s
      BY <1>1, <1>4, <2>1, <2>5
    <3>2. g[E] = b[i] + g[E \ {i}]
      BY <1>1, <1>5, <2>1, <3>1, SumRemoves
    <3> QED BY <3>1, <3>2
  <2>8. CASE Exists(i)
    <3>1. i \in Existing /\ Existing \in SUBSET Existing /\ SizeOf[i] = doc[i].size
      BY <2>8 DEF Existing, SizeOf
    <3>2. \A x \in Existing : SizeOf[x] \in Nat
      BY <1>1, AllocatedIs
    <3>3. h[Existing] = SizeOf[i] + h[Existing \ {i}]
      BY <1>1, <2>4, <3>1, <3>2, SumRemoves
    <3>4. Allocated = doc[i].size + h[T] /\ doc[i].size \in Nat
      BY <1>3, <2>4, <2>5, <3>1, <3>3
    <3> QED BY <1>2, <2>3, <2>6, <2>7, <2>8, <3>4, ManagedSqlAssumption
  <2>9. CASE ~Exists(i)
    <3>1. T = Existing
      BY <2>5, <2>9 DEF Existing
    <3> QED BY <1>2, <2>3, <2>4, <2>6, <2>7, <2>9, <3>1, ManagedSqlAssumption
  <2> QED BY <2>8, <2>9
<1>7. PICK Q \in SUBSET Apis : Q = {q \in Apis : Busy(q)}
  OBVIOUS
<1>8. IsFiniteSet(Q) /\ Cardinality(Q) \in Nat /\ Cardinality(Q) <= Rivals
  <2>1. Q \subseteq Apis \ {p}
    BY <1>7
  <2>2. IsFiniteSet(Apis \ {p}) /\ Cardinality(Apis \ {p}) = Cardinality(Apis) - 1
    BY ManagedSqlAssumption, FS_RemoveElement
  <2>3. IsFiniteSet(Q) /\ Cardinality(Q) <= Cardinality(Apis \ {p})
    BY <2>1, <2>2, FS_Subset
  <2> QED BY <2>2, <2>3, FS_CardinalityType DEF Rivals
<1>9. PICK at, size : at = [q \in Q |-> req[q].id] /\ size = [q \in Q |-> req[q].size]
  OBVIOUS
<1>10. \A q \in Q : at[q] \in R /\ size[q] \in Nat /\ size[q] <= MaxSize
  BY <1>7, <1>9, RequestTyped, SizesSmall DEF Working
<1>11. PICK e \in [R -> Nat] : \E h : /\ Sums(h, e, R) /\ h[R] <= g[R] + Cardinality(Q) * MaxSize
                                      /\ \A x \in R : b[x] <= e[x]
                                      /\ \A q \in Q : size[q] <= e[at[q]]
  <2>1. \A q \in Q : at[q] \in R
    BY <1>10
  <2>2. \A q \in Q : size[q] \in Nat /\ size[q] <= MaxSize
    BY <1>10
  <2>3. IsFiniteSet(R) /\ IsFiniteSet(Q) /\ MaxSize \in Nat /\ Sums(g, b, R)
    BY <1>1, <1>2, <1>5, <1>8
  <2>4. Raises(R, b, g, Q, MaxSize, at, size)
    BY <2>1, <2>2, <2>3, Raised
  <2> QED BY <2>4 DEF Raises
<1>12. PICK h : /\ Sums(h, e, R) /\ h[R] <= g[R] + Cardinality(Q) * MaxSize
                /\ \A x \in R : b[x] <= e[x]
                /\ \A q \in Q : size[q] <= e[at[q]]
  BY <1>11
<1>13. h[R] <= Cap
  <2>1. Cardinality(Q) * MaxSize <= Rivals * MaxSize
    BY <1>2, <1>8, RivalsTyped, Multiplies
  <2>2. Cardinality(Q) * MaxSize \in Nat /\ Rivals * MaxSize \in Nat
    BY <1>2, <1>8, RivalsTyped, Distributes
  <2>3. h[R] \in Nat /\ g[R] \in Nat
    <3>1. \A x \in R : e[x] \in Nat
      OBVIOUS
    <3>2. h \in [SUBSET R -> Nat]
      BY <1>1, <1>12, <3>1, SumTyped
    <3>3. R \in SUBSET R
      OBVIOUS
    <3>4. h[R] \in Nat
      BY <3>2, <3>3
    <3>5. g[R] \in Nat
      BY <3>3
    <3> QED BY <3>4, <3>5
  <2> QED BY <1>6, <1>12, <2>1, <2>2, <2>3, ManagedSqlAssumption DEF Cap
<1>14. s <= e[i]
  BY <1>1, <1>4, <1>12
<1>15. \A q \in Apis : Busy(q) => req[q].size <= e[req[q].id]
  BY <1>7, <1>9, <1>12
<1>16. ASSUME NEW j \in Existing PROVE doc[j].size <= e[j]
  <2>1. j \in R /\ b[j] <= e[j] /\ b[j] \in Nat /\ e[j] \in Nat /\ doc[j].size \in Nat
    BY <1>1, <1>3, <1>12
  <2>2. doc[j].size <= b[j]
    BY <1>4, <2>1 DEF Existing
  <2> QED BY <2>1, <2>2
<1> QED BY <1>1, <1>12, <1>13, <1>14, <1>15, <1>16

\* A step that is no arrival stores a size only that its request has brought.
LEMMA SizesStored ==
  ASSUME TypeOK, NEW p \in Apis, Working(p), ~Request(p),
         CreateStep(p) \/ DeleteStep(p) \/ Resize(p) \/ Die(p)
  PROVE  /\ Busy(p) /\ born' = born
         /\ \A i \in Instances : Exists(i)' => \/ Exists(i) /\ doc'[i].size = doc[i].size
                                               \/ i = req[p].id /\ doc'[i].size = req[p].size
         /\ req'[p] = req[p] \/ ~Busy(p)'
         /\ pc'[p] # "insert"
<1>1. Busy(p) /\ born' = born
  BY Kinds DEF GivesUp, GoesOn, Flow, Places, Chooses, Unplaces, Finalize, Resize, Busy
<1>2. /\ req'[p] = req[p] \/ ~Busy(p)'
      /\ pc'[p] # "insert"
  <2>1. CASE Leave(p)
    BY <2>1, LeaveIs DEF Busy
  <2>2. CASE Chooses(p)
    BY <2>2 DEF Chooses, TypeOK
  <2>3. CASE Places(p)
    BY <2>3, GotoIs DEF Places
  <2>4. CASE \E step : GoesOn(p, step)
    <3>1. PICK step : GoesOn(p, step)
      BY <2>4
    <3>2. <<pc[p], step>> \in Flow /\ pc'[p] = step /\ req' = req
      BY <3>1, GotoIs DEF GoesOn
    <3> QED BY <3>2 DEF Flow
  <2> QED BY <2>1, <2>2, <2>3, <2>4, Kinds DEF GivesUp, Unplaces, Finalize, Resize
<1>3. ASSUME NEW i \in Instances, Exists(i)'
      PROVE  \/ Exists(i) /\ doc'[i].size = doc[i].size
             \/ i = req[p].id /\ doc'[i].size = req[p].size
  <2>1. CASE doc' = doc
    BY <1>3, <2>1 DEF Exists
  <2>2. CASE Places(p) \/ Unplaces(p) \/ Finalize(p) \/ Resize(p)
    <3>1. PICK k \in Instances : k = req[p].id
      BY <1>1, RequestTyped
    <3>2. /\ \A j \in Instances \ {k} : doc'[j] = doc[j]
          /\ Places(p) => doc'[k] = req[p]
          /\ Unplaces(p) => doc'[k] = None
          /\ ~Exists(k) /\ ~Places(p) => doc'[k] = None
          /\ Finalize(p) /\ Exists(k) => doc'[k] = Completed(req[p], p)
          /\ Resize(p) /\ Exists(k) => doc'[k] = [doc[k] EXCEPT !.size = req[p].size]
      BY <2>2, <3>1, Written
    <3>3. CASE i # k
      BY <1>3, <3>2, <3>3 DEF Exists
    <3>4. CASE i = k /\ Places(p)
      BY <3>1, <3>2, <3>4
    <3>5. CASE i = k /\ ~Places(p)
      <4>1. ~Unplaces(p) /\ Exists(k)
        BY <1>3, <3>2, <3>5 DEF Exists
      <4>2. CASE Finalize(p)
        BY <1>1, <3>1, <3>2, <3>5, <4>1, <4>2, CompletedTyped
      <4>3. CASE Resize(p)
        <5>1. req[p].size \in Sizes
          BY <1>1, RequestTyped
        <5>2. PICK d : d = [doc[k] EXCEPT !.size = req[p].size]
          OBVIOUS
        <5>3. d.size = req[p].size
          BY <4>1, <5>1, <5>2, ResizedTyped
        <5>4. doc'[k] = d
          BY <3>2, <4>1, <4>3, <5>2
        <5> QED BY <3>1, <3>5, <5>3, <5>4
      <4> QED BY <2>2, <3>5, <4>1, <4>2, <4>3
    <3> QED BY <3>3, <3>4, <3>5
  <2> QED BY <2>1, <2>2, Kinds DEF GoesOn, GivesUp, Chooses
<1> QED BY <1>1, <1>2, <1>3

LEMMA CoveredKept ==
  ASSUME Base, Base', Covered, Next
  PROVE  Covered'
<1>1. PICK p \in Apis : Request(p) \/ CreateStep(p) \/ DeleteStep(p) \/ Resize(p) \/ Die(p)
  BY DEF Next
<1>2. TypeOK /\ (\A q \in Apis : Working(q)) /\ Others(p)
  BY <1>1, BornStays DEF Base
<1>3. PICK f \in [born -> Nat] : Covers(f) /\ \E g : Sums(g, f, born) /\ g[born] <= Cap
  BY DEF Covered
<1>4. IsFiniteSet(born)
  BY DEF Covered
<1>5. CASE ~Request(p)
  <2>1. /\ Busy(p) /\ born' = born
        /\ \A i \in Instances : Exists(i)' => \/ Exists(i) /\ doc'[i].size = doc[i].size
                                              \/ i = req[p].id /\ doc'[i].size = req[p].size
        /\ req'[p] = req[p] \/ ~Busy(p)'
    BY <1>1, <1>2, <1>5, SizesStored
  <2>2. \A i \in Instances : Exists(i)' => doc'[i].size <= f[i]
    BY <1>3, <2>1 DEF Covers, Existing
  <2>3. \A q \in Apis : Busy(q)' => req'[q].size <= f[req'[q].id]
    BY <1>2, <1>3, <2>1 DEF Covers, Others, Busy
  <2>4. Covers(f)'
    BY <2>2, <2>3 DEF Covers, Existing
  <2> QED BY <1>3, <1>4, <2>1, <2>4 DEF Covered
<1>6. CASE Request(p)
  <2>1. PICK r \in Documents, step \in {"insert", "patch", "dropDatabase", "erase"} : Arrives(p, step, r)
    BY <1>2, <1>6, Arrivals
  <2>2. pc[p] = "idle" /\ pc'[p] = step /\ req'[p] = r /\ doc' = doc /\ r.id \in Instances /\ r.size \in Sizes
    BY <1>2, <2>1, EnterIs DEF Arrives, Documents
  <2>3. Existing' = Existing
    BY <2>2 DEF Existing, Exists
  <2>4. \A q \in Apis : Busy(q)' => \/ Busy(q) /\ req'[q] = req[q]
                                    \/ req'[q] = r
    BY <1>2, <2>2 DEF Others, Busy
  <2>5. CASE step = "insert" \/ (step = "patch" /\ r.size > doc[r.id].size)
    <3>1. PICK i \in Instances, s \in Sizes : i = r.id /\ s = r.size
      BY <2>2
    <3>2. born' = born \cup {i}
      BY <2>1, <2>5, <3>1 DEF Arrives
    <3>3. /\ Exists(i) => doc[i].size <= s
          /\ Allocated + s - (IF Exists(i) THEN doc[i].size ELSE 0) <= MaxStorage
      <4>1. s \in Nat /\ (Exists(i) => doc[i].size \in Nat) /\ MaxStorage \in Nat
        BY <1>2, DocumentTyped, SizesSmall, ManagedSqlAssumption
      <4>2. Allocated \in Nat
        <5>1. IsFiniteSet(Existing)
          BY <1>2, <1>4, FiniteSets
        <5>2. PICK g \in [SUBSET Existing -> Nat] : Allocated = g[Existing]
          BY <1>2, <5>1, AllocatedIs
        <5> QED BY <5>2
      <4>3. CASE step = "insert"
        <5>1. i \notin born /\ Allowed(s)
          BY <2>1, <3>1, <4>3 DEF Arrives
        <5>2. ~Exists(i) /\ Allocated + s <= MaxStorage
          BY <1>2, <5>1, DocumentTyped DEF Allowed
        <5> QED BY <4>1, <4>2, <5>2
      <4>4. CASE step = "patch" /\ r.size > doc[r.id].size
        <5>1. Exists(i) /\ s > doc[i].size /\ Allocated + (s - doc[i].size) <= MaxStorage
          BY <2>1, <3>1, <4>4 DEF Arrives, Allowed
        <5> QED BY <4>1, <4>2, <5>1
      <4> QED BY <2>5, <4>3, <4>4
    <3>4. PICK R : R = born \cup {i}
      OBVIOUS
    <3>5. /\ IsFiniteSet(R)
          /\ \E e \in [R -> Nat] :
               /\ \A j \in Existing : doc[j].size <= e[j]
               /\ \A q \in Apis : Busy(q) => req[q].size <= e[req[q].id]
               /\ s <= e[i]
               /\ \E g : Sums(g, e, R) /\ g[R] <= Cap
      BY <1>2, <1>4, <2>2, <3>3, <3>4, CheckCovers DEF Busy
    <3>6. PICK e \in [R -> Nat] :
               /\ \A j \in Existing : doc[j].size <= e[j]
               /\ \A q \in Apis : Busy(q) => req[q].size <= e[req[q].id]
               /\ s <= e[i]
               /\ \E g : Sums(g, e, R) /\ g[R] <= Cap
      BY <3>5
    <3>7. \A q \in Apis : Busy(q)' => req'[q].size <= e[req'[q].id]
      BY <2>4, <3>1, <3>6
    <3>8. Covers(e)'
      BY <2>2, <2>3, <3>6, <3>7 DEF Covers
    <3>9. R = born'
      BY <3>2, <3>4
    <3> QED BY <3>5, <3>6, <3>8, <3>9 DEF Covered
  <2>6. CASE ~(step = "insert" \/ (step = "patch" /\ r.size > doc[r.id].size))
    <3>1. born' = born /\ Exists(r.id) /\ r.size <= doc[r.id].size
      <4>1. born' = born /\ Exists(r.id)
        BY <2>1, <2>6 DEF Arrives
      <4>2. r.size \in Nat /\ doc[r.id].size \in Nat
        BY <1>2, <2>2, <4>1, DocumentTyped, SizesSmall
      <4>3. CASE step = "patch"
        BY <2>6, <4>1, <4>2, <4>3
      <4>4. CASE step # "patch"
        <5>1. r = doc[r.id]
          BY <2>1, <2>6, <4>4 DEF Arrives
        <5> QED BY <4>1, <4>2, <5>1
      <4> QED BY <4>3, <4>4
    <3>2. r.size <= f[r.id]
      <4>1. r.id \in Existing /\ r.id \in born
        BY <1>2, <2>2, <3>1, DocumentTyped DEF Existing
      <4>2. doc[r.id].size <= f[r.id] /\ f[r.id] \in Nat /\ r.size \in Nat /\ doc[r.id].size \in Nat
        BY <1>2, <1>3, <2>2, <3>1, <4>1, DocumentTyped, SizesSmall DEF Covers
      <4> QED BY <3>1, <4>2
    <3>3. \A q \in Apis : Busy(q)' => req'[q].size <= f[req'[q].id]
      BY <1>3, <2>4, <3>2 DEF Covers
    <3>4. Covers(f)'
      BY <1>3, <2>2, <2>3, <3>3 DEF Covers
    <3> QED BY <1>3, <1>4, <3>1, <3>4 DEF Covered
  <2> QED BY <2>5, <2>6
<1> QED BY <1>5, <1>6

LEMMA CountedKept ==
  ASSUME Base, Base', Covered, Covered', Counted, Next
  PROVE  Counted'
<1>1. PICK p \in Apis : Request(p) \/ CreateStep(p) \/ DeleteStep(p) \/ Resize(p) \/ Die(p)
  BY DEF Next
<1>2. TypeOK /\ TypeOK' /\ Working(p) /\ Others(p)
  BY <1>1, BornStays DEF Base
<1>3. /\ IsFiniteSet(Existing) /\ Cardinality(Existing) \in Nat
      /\ IsFiniteSet(Inserting) /\ Cardinality(Inserting) \in Nat
  BY <1>2, FiniteSets DEF Covered
<1>4. MaxInstances \in Nat /\ Rivals \in Nat /\ IsFiniteSet(Apis) /\ Cardinality(Apis) = Rivals + 1
  BY RivalsTyped, ManagedSqlAssumption
<1>5. CASE /\ IsFiniteSet(Existing') /\ Cardinality(Existing') \in Nat /\ Cardinality(Existing') <= Cardinality(Existing)
           /\ Inserting' \subseteq Inserting
  <2>1. IsFiniteSet(Inserting') /\ Cardinality(Inserting') <= Cardinality(Inserting)
    BY <1>3, <1>5, FS_Subset
  <2>2. Cardinality(Inserting') \in Nat
    BY <2>1, FS_CardinalityType
  <2> QED BY <1>3, <1>4, <1>5, <2>1, <2>2 DEF Counted, Rivals
<1>6. CASE Request(p)
  <2>1. PICK r \in Documents, step \in {"insert", "patch", "dropDatabase", "erase"} : Arrives(p, step, r)
    BY <1>2, <1>6, Arrivals
  <2>2. pc[p] = "idle" /\ pc'[p] = step /\ doc' = doc
    BY <1>2, <2>1, EnterIs DEF Arrives
  <2>3. Existing' = Existing
    BY <2>2 DEF Existing, Exists
  <2>4. CASE step = "insert"
    <3>1. Cardinality(Existing) < MaxInstances
      BY <2>1, <2>4 DEF Arrives, Allowed
    <3>2. Inserting' \subseteq Apis
      BY DEF Inserting
    <3>3. IsFiniteSet(Inserting') /\ Cardinality(Inserting') <= Rivals + 1
      BY <1>4, <3>2, FS_Subset
    <3>4. Cardinality(Inserting') \in Nat
      BY <3>3, FS_CardinalityType
    <3>5. Cardinality(Existing') + Cardinality(Inserting') <= MaxInstances + Rivals
      BY <1>3, <1>4, <2>3, <3>1, <3>3, <3>4
    <3> QED BY <3>5 DEF Counted, Rivals
  <2>5. CASE step # "insert"
    <3>1. Inserting' \subseteq Inserting
      BY <1>2, <2>2, <2>5 DEF Inserting, Others
    <3> QED BY <1>3, <1>5, <2>3, <3>1
  <2> QED BY <2>4, <2>5
<1>7. CASE ~Request(p)
  <2>1. pc'[p] # "insert"
    BY <1>1, <1>2, <1>7, SizesStored
  <2>2. Inserting' = Inserting \ {p}
    BY <1>2, <2>1 DEF Inserting, Others
  <2>3. CASE Places(p)
    <3>1. Busy(p) /\ pc[p] = "insert"
      BY <2>3 DEF Places, Busy
    <3>2. PICK k \in Instances : k = req[p].id
      BY <1>2, <3>1, RequestTyped
    <3>3. k \notin Existing /\ doc'[k] # None /\ \A j \in Instances \ {k} : doc'[j] = doc[j]
      <4>1. doc'[k] = req[p] /\ \A j \in Instances \ {k} : doc'[j] = doc[j]
        BY <1>2, <2>3, <3>2, Written
      <4>2. req[p] # None
        BY <1>2, <3>1 DEF TypeOK, Busy
      <4> QED BY <1>2, <3>1, <3>2, <4>1, <4>2 DEF Working, Existing
    <3>4. Existing' = Existing \cup {k}
      BY <3>3 DEF Existing, Exists
    <3>5. Cardinality(Existing \cup {k}) = Cardinality(Existing) + 1
      BY <1>3, <3>3, FS_AddElement
    <3>6. p \in Inserting
      BY <3>1 DEF Inserting
    <3>7. Cardinality(Inserting \ {p}) = Cardinality(Inserting) - 1
      BY <1>3, <3>6, FS_RemoveElement
    <3>8. Cardinality(Existing') + Cardinality(Inserting') = Cardinality(Existing) + Cardinality(Inserting)
      BY <1>3, <2>2, <3>4, <3>5, <3>7
    <3> QED BY <3>8 DEF Counted, Rivals
  <2>4. CASE ~Places(p)
    <3>1. Existing' \subseteq Existing
      BY <1>1, <1>2, <2>4, DocumentsSeen DEF Existing
    <3>2. IsFiniteSet(Existing') /\ Cardinality(Existing') <= Cardinality(Existing)
      BY <1>3, <3>1, FS_Subset
    <3>3. Cardinality(Existing') \in Nat
      BY <3>2, FS_CardinalityType
    <3> QED BY <1>5, <2>2, <3>2, <3>3
  <2> QED BY <2>3, <2>4
<1> QED BY <1>6, <1>7

------------------------------------------------------------------------------
(* The theorems. *)

IInv ==
  /\ Base
  /\ Separate
  /\ Owning
  /\ Lone
  /\ PortFree
  /\ PortsDiffer
  /\ CompleteOwns
  /\ NoStuckPlaceholder
  /\ Covered
  /\ Counted

LEMMA Starts ==
  ASSUME Init
  PROVE  IInv
<1>1. \A i \in Instances : ~Exists(i)
  BY DEF Init, Exists
<1>2. \A p \in Apis : pc[p] = "idle" /\ req[p] = None /\ port[p] = None
  BY DEF Init
<1>3. TypeOK
  <2>1. made \in [Servers -> [Objects -> [Idents -> Instances \cup {None}]]]
    BY DEF Init
  <2>2. requests \in 0 .. MaxRequests /\ faults \in 0 .. MaxFaults /\ deaths \in 0 .. MaxDeaths
    BY ManagedSqlAssumption DEF Init
  <2>3. /\ doc \in [Instances -> Documents \cup {None}] /\ born \subseteq Instances
        /\ bound \in [Instances -> Ports \cup {None}] /\ doomed \subseteq Instances
        /\ pc \in [Apis -> {"idle", "patch"} \cup CreateSteps \cup DeleteSteps]
        /\ req \in [Apis -> Documents \cup {None}] /\ port \in [Apis -> Ports \cup {None}]
        /\ overlapped \in BOOLEAN /\ contested \subseteq Idents
    BY DEF Init
  <2> QED BY <1>1, <1>2, <2>1, <2>2, <2>3 DEF TypeOK
<1>4. Base
  BY <1>1, <1>2, <1>3 DEF Base, Working, Busy, OwnIds, NamesDiffer, CreateSteps, DeleteSteps, Placed, Ported
<1>5. Separate /\ Owning /\ PortFree /\ Lone
  BY <1>1, <1>2 DEF Separate, Owning, PortFree, Lone, Busy, Clear
<1>6. PortsDiffer /\ NoStuckPlaceholder /\ CompleteOwns
  BY <1>1 DEF PortsDiffer, NoStuckPlaceholder, CompleteOwns
<1>7. Existing = {} /\ Inserting = {} /\ born = {}
  BY <1>1, <1>2 DEF Existing, Inserting, Init
<1>8. Counted
  BY <1>7, FS_EmptySet, RivalsTyped, ManagedSqlAssumption DEF Counted
<1>9. Covered
  <2>1. IsFiniteSet(born)
    BY <1>7, FS_EmptySet
  <2>2. PICK f \in [born -> Nat] : f = [i \in born |-> 0]
    OBVIOUS
  <2>3. PICK g \in [SUBSET born -> Nat] : Sums(g, f, born)
    BY <2>1, SumExists
  <2>4. g[born] = 0
    BY <1>7, <2>3 DEF Sums
  <2>5. Covers(f)
    BY <1>2, <1>7 DEF Covers, Busy
  <2> QED BY <2>1, <2>3, <2>4, <2>5, RivalsTyped DEF Covered
<1> QED BY <1>4, <1>5, <1>6, <1>8, <1>9 DEF IInv

LEMMA Stutters ==
  ASSUME IInv, UNCHANGED vars
  PROVE  IInv'
<1> USE DEF vars, bounds, history, Exists
<1>1. TypeOK'
  BY DEF IInv, Base, TypeOK
<1>2. \A p \in Apis : Working(p)'
  BY DEF IInv, Base, Working, Matches, Busy
<1>3. OwnIds' /\ NamesDiffer'
  BY DEF IInv, Base, OwnIds, NamesDiffer, Busy
<1>4. Separate' /\ Owning' /\ Lone' /\ PortFree'
  BY DEF IInv, Separate, Owning, Has, First, Second, ServerOf, Lone, PortFree, Busy, Clear
<1>5. PortsDiffer' /\ NoStuckPlaceholder' /\ CompleteOwns'
  BY DEF IInv, PortsDiffer, NoStuckPlaceholder, CompleteOwns, Owns, ServerOf
<1>6. Existing' = Existing /\ Inserting' = Inserting
  BY DEF Existing, Inserting
<1>7. Counted'
  BY <1>6 DEF IInv, Counted, Rivals
<1>8. Covered'
  <2>1. \A f : Covers(f)' <=> Covers(f)
    BY <1>6 DEF Covers, Busy
  <2> QED BY <2>1 DEF IInv, Covered
<1> QED BY <1>1, <1>2, <1>3, <1>4, <1>5, <1>7, <1>8 DEF IInv, Base

LEMMA Steps ==
  ASSUME IInv, Next
  PROVE  IInv'
<1>1. Base' /\ Separate' /\ Owning' /\ Lone' /\ NoStuckPlaceholder' /\ CompleteOwns'
  BY BaseKept, SeparateKept, OwningKept, LoneKept, PlaceholdersKept, CompleteOwnsKept DEF IInv
<1>2. PortFree' /\ PortsDiffer'
  BY <1>1, PortsKept DEF IInv
<1>3. Covered'
  BY <1>1, CoveredKept DEF IInv
<1>4. Counted'
  BY <1>1, <1>3, CountedKept DEF IInv
<1> QED BY <1>1, <1>2, <1>3, <1>4 DEF IInv

\* The inductive invariant: requests and documents agree, a request whose ident is
\* uncontested has it and its document to itself, a lone request finds what it has
\* read, and shares within the cap cover what is stored and what is to come.
THEOREM Invariance == Spec => []IInv
<1>1. Init => IInv
  BY Starts
<1>2. IInv /\ [Next]_vars => IInv'
  BY Steps, Stutters
<1> QED BY <1>1, <1>2, PTL DEF Spec

\* Types: a document knows its id and has been given out, only a complete
\* dedicated one has a port, a process has a request just when it is busy.
THEOREM TypeCorrect == Spec => []TypeOK
<1>1. IInv => TypeOK
  BY DEF IInv, Base
<1> QED BY <1>1, Invariance, PTL

\* For every _unique_names, one that makes names alike too: a complete instance
\* that nobody has set out to delete owns its role, its database and its
\* container, whatever failed or died, unless its ident was wanted by two at once.
THEOREM CompleteInstancesOwn == Spec => []CompleteOwns
<1>1. IInv => CompleteOwns
  BY DEF IInv
<1> QED BY <1>1, Invariance, PTL

\* allocate_dedicated_port reads documents, not containers: with one request at a
\* time no two documents name one port, whatever failed deletes leave.
THEOREM PortsDistinct == Spec => []PortsDiffer
<1>1. IInv => PortsDiffer
  BY DEF IInv
<1> QED BY <1>1, Invariance, PTL

\* The rollback of a create on a shared engine always ends in the removal of the
\* placeholder: only a death leaves one without a request.
THEOREM NoPlaceholderStuck == Spec => []NoStuckPlaceholder
<1>1. IInv => NoStuckPlaceholder
  BY DEF IInv
<1> QED BY <1>1, Invariance, PTL

\* Checks that read stale figures break the quota by one largest size, and by one
\* instance, for every process but one, and never by more: for any number of
\* processes, however their creates, growths, failures and deaths overlap.
THEOREM OvershootIsBounded == Spec => []OvershootBounded
<1>1. IInv => OvershootBounded
  <2> SUFFICES ASSUME IInv PROVE OvershootBounded
    OBVIOUS
  <2>1. Allocated <= Cap
    BY CoveredBounds DEF IInv, Base
  <2>2. Cardinality(Existing) \in Nat /\ Cardinality(Inserting) \in Nat
    BY FiniteSets DEF IInv, Base, Covered
  <2>3. Cardinality(Existing) <= MaxInstances + Rivals
    BY <2>2, RivalsTyped, ManagedSqlAssumption DEF IInv, Counted
  <2> QED BY <2>1, <2>3 DEF OvershootBounded, Cap, Rivals
<1> QED BY <1>1, Invariance, PTL

\* A single API process keeps the quota of docs/MANAGED_SQL.md to the letter.
THEOREM OneProcessKeepsQuota ==
  ASSUME Cardinality(Apis) = 1
  PROVE  Spec => [](Allocated <= MaxStorage /\ Cardinality(Existing) <= MaxInstances)
<1>1. OvershootBounded => Allocated <= MaxStorage /\ Cardinality(Existing) <= MaxInstances
  <2>1. Cardinality(Apis) - 1 = 0 /\ 0 * MaxSize = 0
    BY ManagedSqlAssumption, Distributes
  <2>2. MaxStorage + 0 = MaxStorage /\ MaxInstances + 0 = MaxInstances
    BY ManagedSqlAssumption
  <2> QED BY <2>1, <2>2 DEF OvershootBounded
<1> QED BY <1>1, OvershootIsBounded, PTL
==============================================================================
