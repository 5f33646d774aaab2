--------------------------- MODULE TerminalProofs ---------------------------
(***************************************************************************)
(* Theorems about Terminal, for any projects, resources, command lines and *)
(* bounds.                                                                 *)
(***************************************************************************)
EXTENDS Terminal, FiniteSetTheorems, WellFoundedInduction, TLAPS

------------------------------------------------------------------------------
(* The table of commands. *)

Reading == {<<>>, <<"get">>, <<"get", "get">>, <<"find", "get">>, <<"find", "ask">>}

LEMMA ReadingReads ==
  ASSUME NEW calls \in Reading, NEW i \in DOMAIN calls
  PROVE  calls[i] \in {"get", "find", "ask"}
BY DEF Reading

\* A row that does not just read begins with one of the words after which the
\* console fetches its data, or with gw.
LEMMA RowsThatChange ==
  ASSUME NEW row \in Rows
  PROVE  row.calls \in Reading \/ row.root \in Mutating \cup {"gw"}
<1> USE DEF Row
<1>1. \A g \in CoreRows \cup ReportRows \cup AuditRows \cup BillingRows : g.calls \in Reading
  BY DEF CoreRows, ReportRows, AuditRows, BillingRows, Reading
<1>2. \A g \in DeployRows : g.root \in {"deployments", "deploy"} \/ g.calls \in Reading
  BY DEF DeployRows, Reading
<1>3. \A g \in DbRows \cup LbRows : g.root \in {"db", "lb"}
  BY DEF DbRows, LbRows
<1>4. \A g \in GatewayRows : g.root \in {"gateway", "gw"}
  BY DEF GatewayRows
<1>5. \A g \in SecretRows \cup BucketRows : g.root \in {"secret", "bucket"}
  BY DEF SecretRows, BucketRows
<1>6. \A g \in VmRows : g.root \in {"vm", "vms"}
  BY DEF VmRows
<1>7. \A g \in GraphqlRows : g.root = "graphql"
  BY DEF GraphqlRows
<1> QED
  <2>1. row \in CoreRows \cup ReportRows \cup AuditRows \cup BillingRows \/ row \in DeployRows
        \/ row \in DbRows \cup LbRows \/ row \in GatewayRows
        \/ row \in SecretRows \cup BucketRows \/ row \in VmRows \/ row \in GraphqlRows
    BY DEF Rows
  <2> QED BY <2>1, <1>1, <1>2, <1>3, <1>4, <1>5, <1>6, <1>7 DEF Mutating, AllButVms

\* So does a command line that makes such a call.
LEMMA LinesThatChange ==
  ASSUME NEW line \in Inputs, Changes(line)
  PROVE  line.root \in Mutating \cup {"gw"}
<1>1. PICK i \in DOMAIN line.calls : line.calls[i] \in {"create", "delete", "change"}
  BY DEF Changes
<1>2. line.calls \notin Reading
  BY <1>1, ReadingReads
<1>3. line.calls # <<>>
  BY <1>2 DEF Reading
<1>4. Clear.calls = <<>>
  BY DEF Clear, Line, Row
<1>5. PICK row \in Rows, n \in Names \cup {None} : line = Line(row, n)
  BY <1>3, <1>4, TerminalAssumption DEF CommandLines
<1>6. line.calls = row.calls /\ line.root = row.root
  BY <1>3, <1>5 DEF Line
<1> QED BY <1>2, <1>6, RowsThatChange

------------------------------------------------------------------------------
(* The inductive invariant. *)

Commands ==
  [line : Inputs, project : Projects \cup {None}, step : Nat,
   found : Ids \cup {None}, late : BOOLEAN]

\* The busy flag keeps a second command out, with the window closed too.
OneAtATime ==
  /\ running \subseteq Commands
  /\ \A c, d \in running : c = d
  /\ ~busy => running = {}

\* What is alive has been made.
Found == alive \subseteq DOMAIN born /\ DOMAIN born \subseteq Ids

\* A command that is not late runs for the project on the screen.
OnTime == project \in Projects \cup {None} /\ \A c \in running : c.late \/ c.project = project

\* What the console has not been told of is due to gw, or to a command that
\* still runs and will tell it.
Owing ==
  \A r \in unseen : r = "gw" \/ (r \in Mutating /\ \E c \in running : c.line.root = r)

IInv ==
  /\ OneAtATime
  /\ Found
  /\ OnTime
  /\ LinesOfThisProject
  /\ Owing

------------------------------------------------------------------------------
(* Every step keeps the invariant. *)

\* Commands that have become late are otherwise the same.
LEMMA OutdatedAlike ==
  ASSUME OneAtATime
  PROVE  /\ Outdated \subseteq Commands /\ \A c, d \in Outdated : c = d
         /\ \A c \in Outdated : c.late /\ \E d \in running :
              c.line = d.line /\ c.project = d.project /\ c.found = d.found
         /\ \A d \in running : \E c \in Outdated : c.line = d.line
         /\ running = {} => Outdated = {}
<1>1. \A d \in running :
        LET c == [d EXCEPT !.late = TRUE] IN
        c \in Commands /\ c.late /\ c.line = d.line /\ c.project = d.project /\ c.found = d.found
  BY DEF OneAtATime, Commands
<1> QED BY <1>1 DEF OneAtATime, Outdated

\* The window closes, opens, or changes its project.
LEMMA WindowKeeps ==
  ASSUME IInv, Open \/ Close \/ SwitchProject \/ Rerender
  PROVE  IInv'
<1> USE OutdatedAlike DEF IInv, Open, Close, SwitchProject, Rerender, ResetIfOpen, Reset, prompt, resources, bounds
<1>1. OneAtATime'
  BY DEF OneAtATime
<1>2. Found'
  BY DEF Found
<1>3. OnTime' /\ LinesOfThisProject'
  BY DEF OnTime, LinesOfThisProject
<1>4. Owing'
  BY DEF Owing
<1> QED BY <1>1, <1>2, <1>3, <1>4

\* The input line concerns no command.
LEMMA InputKeeps ==
  ASSUME IInv, Type \/ ArrowUp \/ ArrowDown \/ CtrlL
  PROVE  IInv'
BY DEF IInv, Type, ArrowUp, ArrowDown, CtrlL, ClearScreen, prompt, resources, bounds,
   OneAtATime, Found, OnTime, LinesOfThisProject, Owing

\* A command starts for the project selected, when no other runs.
LEMMA RunKeeps ==
  ASSUME IInv, NEW line \in Inputs, open, ~busy, Run(line)
  PROVE  IInv'
<1> USE DEF IInv, Run, resources
<1>1. CASE line = Clear
  BY <1>1 DEF ClearScreen, OneAtATime, Found, OnTime, LinesOfThisProject, Owing
<1>2. CASE line # Clear
  <2>1. running = {} /\ running' = {Started(line)} /\ busy'
    BY <1>2 DEF OneAtATime
  <2>2. /\ Started(line) \in Commands /\ Started(line).found = None
        /\ Started(line).project = project
    BY DEF Started, Commands, OnTime
  <2>3. OneAtATime'
    BY <2>1, <2>2 DEF OneAtATime, Commands
  <2>4. Found'
    BY <2>1, <2>2 DEF Found
  <2>5. OnTime' /\ LinesOfThisProject' /\ Owing'
    BY <1>2, <2>1, <2>2 DEF OnTime, LinesOfThisProject, Owing
  <2> QED BY <2>3, <2>4, <2>5
<1> QED BY <1>1, <1>2

\* The command after its next call.
LEMMA StepAlike ==
  ASSUME OneAtATime, NEW c \in running, NEW i \in Ids \cup {None}, Step(c, i)
  PROVE  \E d \in Commands :
           /\ running = {c} /\ running' = {d}
           /\ d.line = c.line /\ d.project = c.project /\ d.late = c.late /\ d.found = i
<1> DEFINE d == [c EXCEPT !.step = @ + 1, !.found = i]
<1>1. c \in Commands /\ running = {c}
  BY DEF OneAtATime
<1>2. d.line = c.line /\ d.project = c.project /\ d.late = c.late /\ d.found = i
  BY <1>1 DEF Commands
<1>3. d \in Commands
  <2> HIDE DEF d
  <2> SUFFICES ASSUME NEW T, T = BOOLEAN
               PROVE  d \in [line : Inputs, project : Projects \cup {None}, step : Nat,
                             found : Ids \cup {None}, late : T]
    BY DEF Commands
  <2>1. c \in [line : Inputs, project : Projects \cup {None}, step : Nat,
             found : Ids \cup {None}, late : T]
    BY <1>1 DEF Commands
  <2>2. c.step + 1 \in Nat
    BY <2>1
  <2> QED BY ONLY <2>1, <2>2, i \in Ids \cup {None} DEF d
<1> QED BY <1>1, <1>2, <1>3 DEF Step

\* What is found is one of the resources.
LEMMA FindKeeps ==
  ASSUME IInv, NEW c \in running, Find(c)
  PROVE  IInv'
<1> USE DEF IInv
<1>1. PICK i \in alive : Step(c, i)
  BY DEF Find, Hits, Namesakes
<1>2. i \in Ids
  BY DEF Found
<1>3. PICK d \in Commands :
        /\ running = {c} /\ running' = {d}
        /\ d.line = c.line /\ d.project = c.project /\ d.late = c.late /\ d.found = i
  BY <1>1, <1>2, StepAlike
<1>4. UNCHANGED <<open, project, lines, busy, born, alive, unseen>>
  BY DEF Find, resources
<1>5. OneAtATime'
  BY <1>3, <1>4 DEF OneAtATime, Commands
<1>6. Found'
  BY <1>2, <1>3, <1>4 DEF Found
<1>7. OnTime' /\ LinesOfThisProject' /\ Owing'
  BY <1>3, <1>4 DEF OnTime, LinesOfThisProject, Owing
<1> QED BY <1>5, <1>6, <1>7

\* What is made takes an _id of its own.
LEMMA MakeKeeps ==
  ASSUME Found, NEW kind, NEW n, NEW q, Make(kind, n, q)
  PROVE  Found'
BY DEF Found, Make, Unused

\* A call that changes something leaves the console in debt.
LEMMA CallKeeps ==
  ASSUME IInv, NEW c \in running, Call(c)
  PROVE  IInv'
<1> USE DEF IInv
<1>1. PICK d \in Commands :
        /\ running = {c} /\ running' = {d}
        /\ d.line = c.line /\ d.project = c.project /\ d.late = c.late /\ d.found = c.found
  BY StepAlike DEF Call, OneAtATime, Commands
<1>2. UNCHANGED <<open, project, lines, busy>>
  BY DEF Call
<1>3. Found'
  BY MakeKeeps DEF Call, Carry, Found, resources
<1>4. c.line.root \in Mutating \cup {"gw"} \/ ~Changes(c.line)
  BY LinesThatChange DEF OneAtATime, Commands
<1>5. OneAtATime'
  BY <1>1, <1>2 DEF OneAtATime, Commands
<1>6. OnTime' /\ LinesOfThisProject'
  BY <1>1, <1>2 DEF OnTime, LinesOfThisProject
<1>7. Owing'
  BY <1>1, <1>4 DEF Owing, Call
<1> QED BY <1>3, <1>5, <1>6, <1>7

\* The outcome is printed, and the debt settled unless it is gw's.
LEMMA EndKeeps ==
  ASSUME IInv, NEW c \in running, End(c)
  PROVE  IInv'
<1> USE DEF IInv, End, Finish, resources
<1>1. running = {c} /\ running' = {}
  BY DEF OneAtATime
<1>2. OneAtATime' /\ Found' /\ OnTime'
  BY <1>1 DEF OneAtATime, Found, OnTime
<1>3. LinesOfThisProject'
  BY DEF LinesOfThisProject, OnTime
<1>4. Owing'
  BY <1>1 DEF Owing
<1> QED BY <1>2, <1>3, <1>4

\* Others make and remove, but never change what a resource is.
LEMMA OtherKeeps ==
  ASSUME IInv, Other
  PROVE  IInv'
<1> USE DEF IInv
<1>1. UNCHANGED <<open, project, lines, busy, running, unseen>>
  BY DEF Other
<1>2. Found'
  BY MakeKeeps DEF Other, Found
<1> QED BY <1>1, <1>2 DEF OneAtATime, OnTime, LinesOfThisProject, Owing

------------------------------------------------------------------------------
(* The theorems. *)

\* At first the window is closed and nothing runs.
LEMMA Initially == Init => IInv
BY DEF Init, IInv, OneAtATime, Found, OnTime, LinesOfThisProject, Owing

\* Each step is one of these.
LEMMA StepKeeps == IInv /\ [Next]_vars => IInv'
<1> SUFFICES ASSUME IInv, [Next]_vars PROVE IInv'
  OBVIOUS
<1>1. CASE UNCHANGED vars
  BY <1>1 DEF vars, resources, IInv, OneAtATime, Found, OnTime, LinesOfThisProject, Owing
<1>2. CASE Open \/ Close \/ SwitchProject \/ Rerender
  BY <1>2, WindowKeeps
<1>3. CASE Type \/ ArrowUp \/ ArrowDown \/ CtrlL
  BY <1>3, InputKeeps
<1>4. CASE Submit \/ RunQuick
  BY <1>4, RunKeeps DEF Submit, Typing, RunQuick, Ready
<1>5. CASE \E c \in running : Find(c) \/ Call(c) \/ End(c)
  BY <1>5, FindKeeps, CallKeeps, EndKeeps
<1>6. CASE Other
  BY <1>6, OtherKeeps
<1> QED BY <1>1, <1>2, <1>3, <1>4, <1>5, <1>6 DEF Next

\* The inductive invariant holds.
THEOREM Invariance == Spec => []IInv
BY Initially, StepKeeps, PTL DEF Spec

\* No second command starts while one runs, whatever becomes of the window.
THEOREM OneCommandRuns == Spec => []OneCommandAtATime
<1>1. IInv => OneCommandAtATime
  BY DEF IInv, OneAtATime, OneCommandAtATime
<1> QED BY <1>1, Invariance, PTL

\* A project's screen shows no other project's outcomes, but for late ones.
THEOREM ScreensAreApart == Spec => []LinesOfThisProject
<1>1. IInv => LinesOfThisProject
  BY DEF IInv
<1> QED BY <1>1, Invariance, PTL

\* The console is told of every change but gw's.
THEOREM ChangesAreFetched == Spec => []RefreshedAfterChange
<1>1. IInv => RefreshedAfterChange
  BY DEF IInv, Owing, RefreshedAfterChange
<1> QED BY <1>1, Invariance, PTL

------------------------------------------------------------------------------
(* The history. *)

Distinct(seq) == \A j, k \in DOMAIN seq : seq[j] = seq[k] => j = k

LEMMA Least ==
  ASSUME NEW S \in SUBSET Nat, S # {}
  PROVE  \E m \in S : \A n \in S : m <= n
<1> DEFINE R == OpToRel(<, Nat)
<1>1. PICK m \in S : \A n \in S : <<n, m>> \notin R
  BY NatLessThanWellFounded, WFMin
<1>2. \A n \in S : ~(n < m)
  BY <1>1 DEF OpToRel
<1>3. \A n \in S : m <= n
  BY <1>2
<1> QED BY <1>3

\* A set of positions has a first, a second, and so on up to its last one.
LEMMA Ranked ==
  ASSUME NEW N \in Nat, NEW kept \in SUBSET (1 .. N), NEW n \in 1 .. Cardinality(kept)
  PROVE  \E k \in kept : Cardinality({j \in kept : j <= k}) = n
<1> DEFINE First(k) == {j \in kept : j <= k}
           Enough == {k \in 0 .. N : n <= Cardinality(First(k))}
<1> HIDE DEF First, Enough
<1>0. \A j \in kept : j \in Nat /\ 1 <= j /\ j <= N
  OBVIOUS
<1>1. IsFiniteSet(kept)
  <2>1. IsFiniteSet(1 .. N)
    BY FS_Interval
  <2> QED BY <2>1, FS_Subset
<1>2. \A k : IsFiniteSet(First(k)) /\ Cardinality(First(k)) \in Nat
  <2>1. \A k : First(k) \in SUBSET kept
    BY DEF First
  <2>2. \A k : IsFiniteSet(First(k))
    BY <1>1, <2>1, FS_Subset
  <2> QED BY <2>2, FS_CardinalityType
<1>3. n \in Nat /\ 1 <= n /\ n <= Cardinality(kept)
  <2>1. Cardinality(kept) \in Nat
    BY <1>1, FS_CardinalityType
  <2> QED BY <2>1
<1>4. N \in Enough
  <2>1. First(N) = kept
    BY <1>0 DEF First
  <2> QED BY <1>3, <2>1 DEF Enough
<1>5. PICK m \in Enough : \A k \in Enough : m <= k
  <2>1. Enough \in SUBSET Nat /\ Enough # {}
    BY <1>4 DEF Enough
  <2> QED BY <2>1, Least
<1>6. m \in 0 .. N /\ n <= Cardinality(First(m))
  BY <1>5 DEF Enough
<1>7. m # 0
  <2>1. First(0) = {}
    <3>1. \A j \in kept : ~(j <= 0)
      BY <1>0
    <3> QED BY <3>1 DEF First
  <2>2. Cardinality(First(0)) = 0
    BY <2>1, FS_EmptySet
  <2> QED BY <1>3, <1>6, <2>2
<1>8. Cardinality(First(m - 1)) < n
  <2>1. m - 1 \in 0 .. N /\ ~(m <= m - 1)
    BY <1>6, <1>7
  <2>2. ~(n <= Cardinality(First(m - 1)))
    BY <1>5, <2>1 DEF Enough
  <2> QED BY <1>2, <1>3, <2>2
<1>9. m \in kept
  <2>1. ASSUME m \notin kept PROVE First(m) = First(m - 1)
    <3>1. \A j \in kept : j <= m <=> j <= m - 1
      BY <1>0, <1>6, <2>1
    <3> QED BY <3>1 DEF First
  <2> QED BY <1>2, <1>3, <1>6, <1>8, <2>1
<1>10. Cardinality(First(m)) = Cardinality(First(m - 1)) + 1
  <2>1. \A j \in kept : j <= m <=> j <= m - 1 \/ j = m
    BY <1>0, <1>6
  <2>2. First(m) = First(m - 1) \cup {m}
    BY <1>6, <1>9, <2>1 DEF First
  <2>3. m \notin First(m - 1)
    BY <1>6 DEF First
  <2> QED BY <1>2, <2>2, <2>3, FS_AddElement
<1>11. Cardinality(First(m)) = n
  BY <1>2, <1>3, <1>6, <1>8, <1>10
<1> QED BY <1>9, <1>11 DEF First

\* Taking one member out of a sequence of different ones.
LEMMA WithoutIs ==
  ASSUME NEW S, NEW seq \in Seq(S), NEW x, Distinct(seq)
  PROVE  /\ Without(seq, x) \in Seq(S) /\ Distinct(Without(seq, x))
         /\ \A n \in DOMAIN Without(seq, x) : Without(seq, x)[n] # x
         /\ Len(seq) <= Len(Without(seq, x)) + 1
<1> DEFINE kept == {k \in DOMAIN seq : seq[k] # x}
           Rank(k) == Cardinality({j \in kept : j <= k})
           At(n) == CHOOSE k \in kept : Rank(k) = n
           w == Without(seq, x)
<1>1. DOMAIN seq = 1 .. Len(seq) /\ Len(seq) \in Nat
  OBVIOUS
<1>2. IsFiniteSet(DOMAIN seq) /\ Cardinality(DOMAIN seq) = Len(seq)
  <2>1. /\ IsFiniteSet(1 .. Len(seq))
        /\ Cardinality(1 .. Len(seq)) = IF 1 > Len(seq) THEN 0 ELSE Len(seq) - 1 + 1
    BY <1>1, FS_Interval
  <2> QED BY <1>1, <2>1
<1>3. IsFiniteSet(kept) /\ Cardinality(kept) \in Nat
  BY <1>2, FS_Subset, FS_CardinalityType
<1>4. \A n \in 1 .. Cardinality(kept) : At(n) \in kept /\ Rank(At(n)) = n
  <2> SUFFICES ASSUME NEW n \in 1 .. Cardinality(kept) PROVE At(n) \in kept /\ Rank(At(n)) = n
    OBVIOUS
  <2>1. \E k \in kept : Rank(k) = n
    <3>1. kept \in SUBSET (1 .. Len(seq))
      BY <1>1
    <3> HIDE DEF kept
    <3> QED BY <1>1, <3>1, Ranked
  <2> HIDE DEF Rank, kept
  <2> QED BY <2>1
<1>5. w = [n \in 1 .. Cardinality(kept) |-> seq[At(n)]]
  BY DEF Without
<1>6. w \in Seq(S) /\ Len(w) = Cardinality(kept) /\ DOMAIN w = 1 .. Cardinality(kept)
  <2>1. \A n \in 1 .. Cardinality(kept) : seq[At(n)] \in S
    <3>1. (\A k \in DOMAIN seq : seq[k] \in S) /\ kept \subseteq DOMAIN seq
      OBVIOUS
    <3> HIDE DEF At, Rank, kept
    <3> QED BY <1>4, <3>1
  <2> HIDE DEF At, kept, w
  <2> QED BY <1>3, <1>5, <2>1
<1>7. Distinct(w)
  <2> SUFFICES ASSUME NEW m \in DOMAIN w, NEW n \in DOMAIN w, w[m] = w[n]
               PROVE  m = n
    BY DEF Distinct
  <2>1. seq[At(m)] = seq[At(n)]
    <3> HIDE DEF At, kept, w
    <3> QED BY <1>5, <1>6
  <2>2. At(m) \in DOMAIN seq /\ At(n) \in DOMAIN seq /\ Rank(At(m)) = m /\ Rank(At(n)) = n
    <3> HIDE DEF At, Rank, w
    <3> QED BY <1>4, <1>6
  <2> HIDE DEF At, Rank, kept, w
  <2> QED BY <2>1, <2>2 DEF Distinct
<1>8. \A n \in DOMAIN w : w[n] # x
  <2>1. \A n \in 1 .. Cardinality(kept) : seq[At(n)] # x
    <3> HIDE DEF At, Rank
    <3> QED BY <1>4
  <2> HIDE DEF At, kept, w
  <2> QED BY <1>5, <1>6, <2>1
<1>9. Len(seq) <= Cardinality(kept) + 1
  <2>1. CASE \E k \in DOMAIN seq : seq[k] = x
    <3>1. PICK k \in DOMAIN seq : seq[k] = x
      BY <2>1
    <3>2. kept = DOMAIN seq \ {k}
      BY <3>1 DEF Distinct
    <3>3. Cardinality(kept) = Cardinality(DOMAIN seq) - 1
      BY <1>2, <3>2, FS_RemoveElement
    <3> QED BY <1>1, <1>2, <3>3
  <2>2. CASE ~\E k \in DOMAIN seq : seq[k] = x
    <3>1. kept = DOMAIN seq
      BY <2>2
    <3>2. Cardinality(kept) = Len(seq)
      BY <1>2, <3>1
    <3> HIDE DEF kept
    <3> QED BY <1>1, <3>2
  <2> QED BY <2>1, <2>2
<1> HIDE DEF kept, w
<1>10. w \in Seq(S) /\ Distinct(w) /\ (\A n \in DOMAIN w : w[n] # x) /\ Len(seq) <= Len(w) + 1
  BY <1>6, <1>7, <1>8, <1>9
<1> QED BY <1>10 DEF w

\* The history: commands that were entered, each once, and a place among them.
Recorded ==
  /\ history \in Seq(Inputs) /\ Len(history) <= MaxHistory /\ Distinct(history)
  /\ histIdx \in -1 .. Len(history) - 1

\* A command that is entered comes first, once, and no place is lost by it.
LEMMA PushIs ==
  ASSUME Recorded, NEW line \in Inputs
  PROVE  /\ Push(line) \in Seq(Inputs) /\ Distinct(Push(line))
         /\ Len(Push(line)) <= MaxHistory /\ Len(history) <= Len(Push(line))
<1> DEFINE w == Without(history, line)
           all == <<line>> \o w
           top == Min({Len(all), MaxHistory})
<1>1. /\ w \in Seq(Inputs) /\ Distinct(w) /\ \A n \in DOMAIN w : w[n] # line
      /\ Len(history) <= Len(w) + 1
  BY WithoutIs DEF Recorded
<1> HIDE DEF w
<1>2. /\ all \in Seq(Inputs) /\ Len(all) = Len(w) + 1
      /\ all[1] = line /\ \A n \in 2 .. Len(all) : all[n] = w[n - 1] /\ n - 1 \in DOMAIN w
  <2>1. Len(w) \in Nat /\ <<line>> \in Seq(Inputs) /\ Len(<<line>>) = 1
    BY <1>1
  <2>2. all \in Seq(Inputs) /\ Len(all) = Len(w) + 1
    BY <1>1, <2>1
  <2>3. \A n \in 2 .. Len(all) : all[n] = w[n - 1] /\ n - 1 \in DOMAIN w
    BY <1>1, <2>1, <2>2
  <2>4. all[1] = line
    BY <1>1, <2>1
  <2> QED BY <2>2, <2>3, <2>4
<1> HIDE DEF all
<1>3. Distinct(all)
  <2> SUFFICES ASSUME NEW j \in DOMAIN all, NEW k \in DOMAIN all, all[j] = all[k]
               PROVE  j = k
    BY DEF Distinct
  <2>1. j \in 1 .. Len(all) /\ k \in 1 .. Len(all) /\ Len(all) \in Nat
    BY <1>2
  <2>2. CASE j = 1 /\ k # 1
    BY <1>1, <1>2, <2>1, <2>2
  <2>3. CASE j # 1 /\ k = 1
    BY <1>1, <1>2, <2>1, <2>3
  <2>4. CASE j # 1 /\ k # 1
    <3>1. j \in 2 .. Len(all) /\ k \in 2 .. Len(all)
      BY <2>1, <2>4
    <3>2. j - 1 \in DOMAIN w /\ k - 1 \in DOMAIN w /\ w[j - 1] = w[k - 1]
      BY <1>2, <3>1
    <3>3. j - 1 = k - 1
      BY <1>1, <3>2 DEF Distinct
    <3> QED BY <2>1, <3>3
  <2> QED BY <2>2, <2>3, <2>4
<1>4. MaxHistory \in Nat /\ MaxHistory # 0 /\ Len(all) \in Nat /\ Len(all) # 0
  BY <1>1, <1>2, TerminalAssumption
<1>5. top \in {Len(all), MaxHistory} /\ top <= Len(all) /\ top <= MaxHistory
  <2>1. \E m \in {Len(all), MaxHistory} : \A n \in {Len(all), MaxHistory} : m <= n
    BY <1>4
  <2> QED BY <1>4, <2>1 DEF Min
<1> HIDE DEF top
<1>6. top \in Nat /\ 1 <= top
  BY <1>4, <1>5
<1>7. Push(line) = SubSeq(all, 1, top)
  BY DEF Push, UpTo, all, top, w
<1>8. /\ SubSeq(all, 1, top) \in Seq(Inputs) /\ Len(SubSeq(all, 1, top)) = top
      /\ \A n \in 1 .. top : SubSeq(all, 1, top)[n] = all[n] /\ n \in DOMAIN all
  BY <1>2, <1>4, <1>5, <1>6
<1>9. Distinct(SubSeq(all, 1, top))
  BY <1>3, <1>8, <1>6 DEF Distinct
<1>10. Len(history) <= top
  BY <1>1, <1>2, <1>4, <1>5 DEF Recorded
<1> QED BY <1>5, <1>7, <1>8, <1>9, <1>10

\* Moving through the history, or adding to it.
LEMMA RecordKept ==
  ASSUME IInv, Recorded, [Next]_vars
  PROVE  Recorded' /\ (input \in Inputs \cup {None} => input' \in Inputs \cup {None})
<1> DEFINE Kept == Recorded' /\ (input \in Inputs \cup {None} => input' \in Inputs \cup {None})
<1>1. Len(history) \in Nat /\ histIdx \in Int /\ \A n \in 1 .. Len(history) : history[n] \in Inputs
  BY DEF Recorded
<1>2. CASE UNCHANGED prompt
  BY <1>2 DEF prompt, Recorded
<1>3. CASE Reset
  BY <1>1, <1>3 DEF Reset, Recorded
<1>4. CASE Type
  BY <1>4 DEF Type, Recorded
<1>5. CASE ArrowUp
  <2>1. Len(history) # 0
    BY <1>5 DEF ArrowUp, Recorded
  <2>2. histIdx' \in -1 .. Len(history) - 1 /\ histIdx' + 1 \in 1 .. Len(history)
    BY <1>1, <1>5, <2>1 DEF ArrowUp, Recorded
  <2>3. input' = history[histIdx' + 1] /\ history' = history
    BY <1>5 DEF ArrowUp
  <2> QED BY <1>1, <2>2, <2>3 DEF Recorded
<1>6. CASE ArrowDown
  <2>1. history' = history
    BY <1>6 DEF ArrowDown
  <2>2. CASE histIdx <= 0
    <3>1. histIdx' = -1 /\ input' = None
      BY <1>6, <2>2 DEF ArrowDown
    <3> QED BY <1>1, <2>1, <3>1 DEF Recorded
  <2>3. CASE ~(histIdx <= 0)
    <3>1. histIdx' = histIdx - 1 /\ input' = history[histIdx' + 1]
      BY <1>6, <2>3 DEF ArrowDown
    <3>2. histIdx' \in -1 .. Len(history) - 1 /\ histIdx' + 1 \in 1 .. Len(history)
      BY <1>1, <2>3, <3>1 DEF Recorded
    <3> QED BY <1>1, <2>1, <3>1, <3>2 DEF Recorded
  <2> QED BY <2>2, <2>3
<1>7. ASSUME NEW line \in Inputs, Run(line), histIdx' \in {-1, histIdx} PROVE Kept
  <2>1. history' = Push(line) /\ input' = None
    BY <1>7 DEF Run
  <2>2. /\ history' \in Seq(Inputs) /\ Distinct(history)'
        /\ Len(history') <= MaxHistory /\ Len(history) <= Len(history')
    BY <2>1, PushIs DEF Distinct
  <2>3. Len(history') \in Nat
    BY <2>2
  <2>4. histIdx' \in -1 .. Len(history') - 1
    BY <1>1, <1>7, <2>2, <2>3 DEF Recorded
  <2> QED BY <2>1, <2>2, <2>4 DEF Recorded
<1>8. CASE Submit \/ RunQuick
  BY <1>7, <1>8 DEF Submit, RunQuick
<1>9. CASE Open \/ Close \/ SwitchProject \/ Rerender
  BY <1>2, <1>3, <1>9 DEF Open, Close, SwitchProject, Rerender, ResetIfOpen, prompt
<1>10. CASE CtrlL \/ Other \/ \E c \in running : Find(c) \/ Call(c) \/ End(c)
  BY <1>2, <1>10 DEF CtrlL, Other, Find, Call, End, Finish
<1>11. CASE UNCHANGED vars
  BY <1>2, <1>11 DEF vars
<1> QED BY <1>4, <1>5, <1>6, <1>8, <1>9, <1>10, <1>11 DEF Next

------------------------------------------------------------------------------
(* Types. *)

CallLists ==
  {<<>>, <<"get">>, <<"get", "get">>, <<"find", "get">>, <<"find", "ask">>, <<"create">>, <<"change">>,
   <<"find", "delete">>, <<"find", "change">>}

\* What is created has a kind and needs its name.
Sound(row) == row.calls \in CallLists /\ (row.calls = <<"create">> => row.kind # "none" /\ row.sub # "list")

LEMMA RowsSound == \A row \in Rows : Sound(row)
<1> USE DEF Row, Sound, CallLists
<1>1. \A g \in CoreRows \cup ReportRows \cup AuditRows \cup BillingRows : Sound(g)
  BY DEF CoreRows, ReportRows, AuditRows, BillingRows
<1>2. \A g \in DeployRows : Sound(g)
  BY DEF DeployRows
<1>3. \A g \in DbRows : Sound(g)
  BY DEF DbRows
<1>4. \A g \in LbRows : Sound(g)
  BY DEF LbRows
<1>5. \A g \in GatewayRows : Sound(g)
  BY DEF GatewayRows
<1>6. \A g \in SecretRows \cup BucketRows : Sound(g)
  BY DEF SecretRows, BucketRows
<1>7. \A g \in VmRows : Sound(g)
  BY DEF VmRows
<1>8. \A g \in GraphqlRows : Sound(g)
  BY DEF GraphqlRows
<1> HIDE DEF Row, Sound, CallLists
<1> QED BY <1>1, <1>2, <1>3, <1>4, <1>5, <1>6, <1>7, <1>8 DEF Rows

LEMMA LinesSound ==
  ASSUME NEW line \in Inputs
  PROVE  /\ Len(line.calls) \in Nat /\ line.name \in Names \cup {None}
         /\ \A i \in 1 .. Len(line.calls) : line.calls[i] = "create" => line.name \in Names
<1>1. \A calls \in CallLists :
        /\ Len(calls) \in Nat
        /\ \A i \in 1 .. Len(calls) : calls[i] = "create" => calls = <<"create">>
  BY DEF CallLists
<1>2. <<>> \in CallLists /\ <<>> # <<"create">>
  BY DEF CallLists
<1>3. CASE line = Clear
  <2>1. line.calls = <<>> /\ line.name = None
    BY <1>3 DEF Clear, Line, Row
  <2> QED BY <1>1, <1>2, <2>1
<1>4. CASE line # Clear
  <2>1. PICK row \in Rows, n \in Names \cup {None} : line = Line(row, n)
    BY <1>4, TerminalAssumption DEF CommandLines
  <2>2. Sound(row)
    BY RowsSound
  <2>3. line.name = n
    BY <2>1 DEF Line
  <2>4. CASE line.calls = <<>>
    BY <1>1, <1>2, <2>1, <2>3, <2>4
  <2>5. CASE line.calls # <<>>
    <3>1. line.calls = row.calls /\ ~(n = None /\ row.kind # "none" /\ row.sub # "list")
      BY <2>1, <2>5 DEF Line
    <3> QED BY <1>1, <2>1, <2>2, <2>3, <3>1 DEF Sound
  <2> QED BY <2>4, <2>5
<1> QED BY <1>3, <1>4

\* The types that nothing else rests on.
Typed ==
  /\ open \in BOOLEAN /\ busy \in BOOLEAN
  /\ lines \subseteq [project : Projects \cup {None}, late : BOOLEAN]
  /\ input \in Inputs \cup {None}
  /\ \A c \in running : 1 <= c.step /\ c.step <= Len(c.line.calls) + 1
  /\ \A i \in DOMAIN born : born[i].name \in Names /\ born[i].project \in Projects

\* The screen and the flags.
LEMMA ScreenKept ==
  ASSUME IInv, Typed, [Next]_vars
  PROVE  open' \in BOOLEAN /\ busy' \in BOOLEAN /\ lines' \subseteq [project : Projects \cup {None}, late : BOOLEAN]
<1> USE DEF Typed
<1>1. CASE UNCHANGED vars
  BY <1>1 DEF vars
<1>2. CASE Open \/ Close \/ SwitchProject \/ Rerender
  BY <1>2 DEF Open, Close, SwitchProject, Rerender, ResetIfOpen, Reset
<1>3. CASE Type \/ ArrowUp \/ ArrowDown \/ CtrlL
  BY <1>3 DEF Type, ArrowUp, ArrowDown, CtrlL, ClearScreen
<1>4. CASE Submit \/ RunQuick
  BY <1>4 DEF Submit, RunQuick, Run, ClearScreen
<1>5. CASE Other \/ \E c \in running : Find(c) \/ Call(c)
  BY <1>5 DEF Other, Find, Call
<1>6. CASE \E c \in running : End(c)
  <2>1. PICK c \in running : End(c)
    BY <1>6
  <2>2. c.project \in Projects \cup {None} /\ c.late \in BOOLEAN
    BY DEF IInv, OneAtATime, Commands
  <2>3. [project |-> c.project, late |-> c.late] \in [project : Projects \cup {None}, late : BOOLEAN]
    BY <2>2
  <2>4. lines' \subseteq [project : Projects \cup {None}, late : BOOLEAN]
    BY <2>1, <2>3 DEF End, Finish
  <2>5. open' \in BOOLEAN /\ busy' \in BOOLEAN
    BY <2>1 DEF End, Finish
  <2> QED BY <2>4, <2>5
<1> QED BY <1>1, <1>2, <1>3, <1>4, <1>5, <1>6 DEF Next

\* A command makes no more calls than it has.
LEMMA StepsKept ==
  ASSUME IInv, Typed, [Next]_vars
  PROVE  \A c \in running' : 1 <= c.step /\ c.step <= Len(c.line.calls) + 1
<1> DEFINE Within(c) == 1 <= c.step /\ c.step <= Len(c.line.calls) + 1
<1>1. \A c \in running : Within(c) /\ c \in Commands
  BY DEF Typed, IInv, OneAtATime
<1>2. CASE running' \subseteq running
  BY <1>1, <1>2
<1>3. CASE running' = Outdated
  <2>1. \A d \in running : LET c == [d EXCEPT !.late = TRUE] IN c.step = d.step /\ c.line = d.line
    BY <1>1 DEF Commands
  <2> QED BY <1>1, <1>3, <2>1 DEF Outdated
<1>4. CASE Submit \/ RunQuick
  <2>1. PICK line \in Inputs : Run(line)
    BY <1>4 DEF Submit, RunQuick
  <2>2. running' \subseteq running \cup {Started(line)}
    BY <2>1 DEF Run
  <2>3. Within(Started(line))
    BY LinesSound DEF Started
  <2> QED BY <1>1, <2>2, <2>3
<1>5. CASE \E c \in running : Find(c) \/ Call(c)
  <2>1. PICK c \in running, found \in Ids \cup {None} : ~Over(c) /\ Step(c, found)
    <3>1. alive \subseteq Ids
      BY DEF IInv, Found
    <3> QED BY <1>1, <1>5, <3>1 DEF Find, Call, Hits, Namesakes, Commands
  <2> DEFINE d == [c EXCEPT !.step = @ + 1, !.found = found]
  <2>2. d.step = c.step + 1 /\ d.line = c.line /\ c.step \in Nat /\ 1 <= c.step /\ c.line \in Inputs
    BY <1>1 DEF Commands
  <2>3. Within(d)
    <3>1. c.step <= Len(c.line.calls) /\ Len(c.line.calls) \in Nat
      BY <2>1, <2>2, LinesSound DEF Over
    <3> HIDE DEF d
    <3> QED BY <2>2, <3>1
  <2>4. running' = (running \ {c}) \cup {d}
    BY <2>1 DEF Step
  <2> HIDE DEF d
  <2> QED BY <1>1, <2>3, <2>4
<1>6. CASE Open \/ Close \/ SwitchProject \/ Rerender
  BY <1>2, <1>3, <1>6 DEF Open, Close, SwitchProject, Rerender
<1>7. CASE Type \/ ArrowUp \/ ArrowDown \/ CtrlL \/ Other
  BY <1>2, <1>7 DEF Type, ArrowUp, ArrowDown, CtrlL, Other
<1>8. CASE \E c \in running : End(c)
  BY <1>2, <1>8 DEF End, Finish
<1>9. CASE UNCHANGED vars
  BY <1>2, <1>9 DEF vars
<1> QED BY <1>4, <1>5, <1>6, <1>7, <1>8, <1>9 DEF Next

\* What is made has a name and a project.
LEMMA BornKept ==
  ASSUME IInv, Typed, [Next]_vars
  PROVE  \A i \in DOMAIN born' : born'[i].name \in Names /\ born'[i].project \in Projects
<1>1. CASE born' = born
  BY <1>1 DEF Typed
<1>2. ASSUME NEW kind, NEW n \in Names, NEW p \in Projects, Make(kind, n, p)
      PROVE  \A i \in DOMAIN born' : born'[i].name \in Names /\ born'[i].project \in Projects
  BY <1>2 DEF Make, Typed
<1>3. CASE Other
  <2>1. CASE \E line \in Inputs, p \in Projects : line.name # None /\ Make(line.kind, line.name, p)
    <3>1. PICK line \in Inputs, p \in Projects : line.name # None /\ Make(line.kind, line.name, p)
      BY <2>1
    <3>2. line.name \in Names
      BY <3>1, LinesSound
    <3> QED BY <1>2, <3>1, <3>2
  <2> QED BY <1>1, <1>3, <2>1 DEF Other
<1>4. CASE \E c \in running : Call(c)
  <2>1. PICK c \in running : Call(c)
    BY <1>4
  <2>2. c.line \in Inputs /\ Home(c) \in Projects /\ c.step \in Nat
    BY TerminalAssumption DEF IInv, OneAtATime, Commands, Home
  <2>3. CASE c.line.calls[c.step] = "create"
    <3>1. Make(c.line.kind, c.line.name, Home(c))
      BY <2>1, <2>3 DEF Call, Carry
    <3>2. c.step \in 1 .. Len(c.line.calls)
      BY <2>1, <2>2, LinesSound DEF Call, Over, Typed
    <3>3. c.line.name \in Names
      BY <2>2, <2>3, <3>2, LinesSound
    <3> QED BY <1>2, <2>2, <3>1, <3>3
  <2>4. CASE c.line.calls[c.step] # "create"
    BY <1>1, <2>1, <2>4 DEF Call, Carry, resources
  <2> QED BY <2>3, <2>4
<1>5. CASE Open \/ Close \/ SwitchProject \/ Rerender
  BY <1>1, <1>5 DEF Open, Close, SwitchProject, Rerender, resources
<1>6. CASE Type \/ ArrowUp \/ ArrowDown \/ CtrlL
  BY <1>1, <1>6 DEF Type, ArrowUp, ArrowDown, CtrlL, resources
<1>7. CASE Submit \/ RunQuick
  BY <1>1, <1>7 DEF Submit, RunQuick, Run, resources
<1>8. CASE \E c \in running : Find(c) \/ End(c)
  BY <1>1, <1>8 DEF Find, End, Finish, resources
<1>9. CASE UNCHANGED vars
  BY <1>1, <1>9 DEF vars, resources
<1> QED BY <1>3, <1>4, <1>5, <1>6, <1>7, <1>8, <1>9 DEF Next

\* The variables have their types; in particular the history keeps its limit and
\* holds no command twice, and ArrowUp and ArrowDown never leave it, though a
\* command that is picked puts a new one before the place they are at.
THEOREM TypeCorrect == Spec => []TypeOK
<1>1. Init => Recorded /\ Typed
  <2>1. ASSUME Init PROVE Recorded
    <3>1. history = <<>> /\ histIdx = -1 /\ <<>> \in Seq(Inputs) /\ Len(<<>>) = 0
      BY <2>1 DEF Init
    <3> QED BY <3>1, TerminalAssumption DEF Recorded, Distinct
  <2>2. ASSUME Init PROVE Typed
    BY <2>2 DEF Init, Typed
  <2> QED BY <2>1, <2>2
<1>2. IInv /\ Recorded /\ Typed /\ [Next]_vars => (Recorded /\ Typed)'
  BY RecordKept, ScreenKept, StepsKept, BornKept DEF Typed
<1>3. IInv /\ Recorded /\ Typed => TypeOK
  BY DEF IInv, OneAtATime, Commands, Found, OnTime, Recorded, Distinct, Typed, TypeOK
<1> QED BY <1>1, <1>2, <1>3, Invariance, PTL DEF Spec
==============================================================================
