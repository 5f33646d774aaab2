------------------------------ MODULE Terminal ------------------------------
(***************************************************************************)
(* The Cloudlane Terminal of the console: a window that takes one command  *)
(* at a time, runs it as one or two calls of the control plane on behalf   *)
(* of the project selected when it was entered, and prints the outcome.    *)
(* Meanwhile the window may be closed and opened again, the project        *)
(* changed, the page around it rendered anew, and the resources changed by *)
(* others.                                                                 *)
(*                                                                         *)
(* A command is a row of a table: its words, and the calls it makes.  What *)
(* it prints is reduced to the project it was entered for.  No project is  *)
(* selected until the page has fetched the tenant's: then a lookup covers  *)
(* them all, and the control plane puts what is made into one of them.     *)
(***************************************************************************)
EXTENDS Integers, Sequences, FiniteSetsExt

CONSTANTS
  Projects,    \* projects of the tenant, of different names
  Default,     \* the one with the slug "default"
  Names,       \* names of resources
  Ids,         \* resources, by _id
  Inputs,      \* bound: the commands that are entered
  MaxHistory,  \* the history's length
  MaxSubmits,  \* bound: commands
  MaxOthers,   \* bound: changes by others
  None         \* no resource, no name, no project

VARIABLES
  open, project,  \* the window, and the project selected
  lines,          \* what is on the screen below the greeting
  input, history, histIdx, \* the input line, and the commands before it
  busy, running,  \* the busy flag, and the commands that run
  born,           \* what each resource is or was
  alive,          \* the resources that exist
  unseen,         \* history: first words of commands that changed something the
                  \* console has not been told to fetch since
  submits, others \* bounds used up

prompt == <<input, history, histIdx>>
resources == <<born, alive>>
bounds == <<submits, others>>
vars == <<open, project, lines, prompt, busy, running, resources, unseen, bounds>>

------------------------------------------------------------------------------
(* The commands: the branches of runTerminalCommand.                       *)

\* The words of a command, the kind of resource it is about, and its calls.
Row(root, sub, kind, calls) == [root |-> root, sub |-> sub, kind |-> kind, calls |-> calls]

\* Nothing is called by help, or by words that make no command; exit is one of
\* these.  Status asks for the health, then whether the token is good.
CoreRows ==
  {Row("help", "any", "none", <<>>), Row("exit", "any", "none", <<>>),
   Row("status", "any", "none", <<"get", "get">>), Row("quota", "any", "none", <<"get">>)}

ReportRows ==
  {Row(root, "any", "none", <<"get">>) : root \in {"monitor", "monitoring"}}
  \cup {Row("projects", "list", "none", <<"get">>)}

\* Logs finds a deployment, then asks for the log under its name, not its _id.
DeployRows ==
  {Row("deployments", "list", "deployment", <<"get">>),
   Row("deploy", "list", "deployment", <<"get">>),
   Row("deploy", "create", "deployment", <<"create">>),
   Row("deploy", "delete", "deployment", <<"find", "delete">>),
   Row("logs", "any", "deployment", <<"find", "ask">>)}

DbRows ==
  {Row("db", "list", "database", <<"get">>),
   Row("db", "create", "database", <<"create">>),
   Row("db", "delete", "database", <<"find", "delete">>),
   Row("db", "backup", "database", <<"find", "change">>),
   Row("db", "reveal", "database", <<"find", "get">>)}

LbRows ==
  {Row("lb", "list", "balancer", <<"get">>),
   Row("lb", "create", "balancer", <<"create">>),
   Row("lb", "delete", "balancer", <<"find", "delete">>)}

\* gw is short for gateway.
GatewayRows ==
  {Row(root, "list", "gateway", <<"get">>) : root \in {"gateway", "gw"}}
  \cup {Row(root, "create", "gateway", <<"create">>) : root \in {"gateway", "gw"}}

SecretRows ==
  {Row("secret", "list", "secret", <<"get">>),
   Row("secret", "create", "secret", <<"create">>),
   Row("secret", "delete", "secret", <<"find", "delete">>)}

BucketRows ==
  {Row("bucket", "list", "bucket", <<"get">>),
   Row("bucket", "create", "bucket", <<"create">>),
   Row("bucket", "objects", "bucket", <<"get">>)}

VmRows ==
  UNION {{Row(root, "list", "vm", <<"get">>),
          Row(root, "create", "vm", <<"create">>),
          Row(root, "start", "vm", <<"find", "change">>),
          Row(root, "stop", "vm", <<"find", "change">>)} : root \in {"vm", "vms"}}

AuditRows == {Row("audit", "list", "none", <<"get">>)}

BillingRows ==
  {Row("billing", sub, "none", <<"get">>) : sub \in {"usage", "invoices"}}

\* A query reads, a mutation changes.
GraphqlRows ==
  {Row("graphql", "query", "none", <<"get">>), Row("graphql", "mutation", "none", <<"change">>)}

Rows ==
  CoreRows \cup ReportRows \cup DeployRows \cup DbRows \cup LbRows \cup GatewayRows
  \cup SecretRows \cup BucketRows \cup VmRows \cup AuditRows \cup BillingRows \cup GraphqlRows

\* A command line: a row and the name in its arguments.  Without the arguments it
\* needs, a command prints its usage and makes no call.
Line(row, name) ==
  [root |-> row.root, sub |-> row.sub, kind |-> row.kind, name |-> name,
   calls |-> IF name = None /\ row.kind # "none" /\ row.sub # "list" THEN <<>> ELSE row.calls]

\* run handles clear itself.
Clear == Line(Row("clear", "any", "none", <<>>), None)

CommandLines == {Line(row, n) : row \in Rows, n \in Names \cup {None}} \cup {Clear}

ASSUME TerminalAssumption ==
  /\ Inputs \subseteq CommandLines
  /\ Default \in Projects /\ None \notin Ids \cup Names \cup Projects
  /\ MaxHistory \in Nat \ {0} /\ MaxSubmits \in Nat /\ MaxOthers \in Nat

Changes(line) == \E i \in DOMAIN line.calls : line.calls[i] \in {"create", "delete", "change"}

\* Faulty: the list of first words is older than the vm commands.
AllButVms ==
  {"deploy", "deployments", "db", "lb", "secret", "bucket", "gateway", "graphql"}

\* The first words that begin like one of the list.
Mutating == AllButVms \cup {"vm", "vms"}

------------------------------------------------------------------------------
Init ==
  /\ open = FALSE /\ project = None
  /\ lines = {}
  /\ input = None /\ history = <<>> /\ histIdx = -1
  /\ busy = FALSE /\ running = {}
  /\ born = [i \in {} |-> None] /\ alive = {}
  /\ unseen = {}
  /\ submits = 0 /\ others = 0

\* What is printed from here on comes too late for the screen.
Outdated == {[c EXCEPT !.late = TRUE] : c \in running}

\* Faulty: it ends what was in progress, as far as the window knows.
ResetAll ==
  /\ lines' = {} /\ busy' = FALSE
  /\ input' = None /\ histIdx' = -1
  /\ UNCHANGED history

\* The effect of CloudlaneTerminal on open, onClose and projectName.
Reset ==
  /\ lines' = {}
  /\ input' = None /\ histIdx' = -1
  /\ UNCHANGED <<history, busy>>

------------------------------------------------------------------------------
(* The window. *)

Open ==
  /\ ~open /\ open' = TRUE
  /\ Reset
  /\ UNCHANGED <<project, running, resources, unseen, bounds>>

\* Commands go on without the window.
Close ==
  /\ open /\ open' = FALSE
  /\ running' = Outdated
  /\ UNCHANGED <<project, lines, prompt, busy, resources, unseen, bounds>>

\* Faulty: the effect does not depend on the project.
KeepScreen == UNCHANGED <<lines, prompt, busy>>

\* The name of another project, if the window is open.
ResetIfOpen == IF open THEN Reset ELSE UNCHANGED <<lines, prompt, busy>>

\* The first project, when the projects have been fetched; later any other.
SwitchProject ==
  /\ project' \in Projects \ {project}
  /\ ResetIfOpen
  /\ running' = Outdated
  /\ UNCHANGED <<open, resources, unseen, bounds>>

\* ConsoleTopBar is rendered again, by new data of the page or by its own
\* state, and hands the window a new onClose.
Rerender ==
  /\ open /\ Reset
  /\ UNCHANGED <<open, project, running, resources, unseen, bounds>>

------------------------------------------------------------------------------
(* The input line. *)

\* Faulty: the list only grows.
All(seq) == seq

UpTo(seq) == SubSeq(seq, 1, Min({Len(seq), MaxHistory}))

\* The other members of a sequence, in their order.
Without(seq, x) ==
  LET kept == {k \in DOMAIN seq : seq[k] # x}
      Rank(k) == Cardinality({j \in kept : j <= k}) IN
  [n \in 1 .. Cardinality(kept) |-> seq[CHOOSE k \in kept : Rank(k) = n]]

Push(line) == UpTo(<<line>> \o Without(history, line))

Typing == open /\ ~busy

\* Typing, or completing with the Tab key.
Type ==
  /\ Typing /\ input' \in Inputs \ {input}
  /\ UNCHANGED <<open, project, lines, history, histIdx, busy, running, resources, unseen, bounds>>

ArrowUp ==
  /\ Typing /\ history # <<>>
  /\ histIdx' = IF histIdx + 1 < Len(history) THEN histIdx + 1 ELSE Len(history) - 1
  /\ input' = history[histIdx' + 1]
  /\ UNCHANGED <<open, project, lines, history, busy, running, resources, unseen, bounds>>

ArrowDown ==
  /\ Typing
  /\ IF histIdx <= 0
     THEN histIdx' = -1 /\ input' = None
     ELSE histIdx' = histIdx - 1 /\ input' = history[histIdx' + 1]
  /\ UNCHANGED <<open, project, lines, history, busy, running, resources, unseen, bounds>>

ClearScreen == lines' = {}

CtrlL ==
  /\ Typing /\ ClearScreen
  /\ UNCHANGED <<open, project, prompt, busy, running, resources, unseen, bounds>>

\* The command as it starts: it keeps the project of this moment.
Started(line) ==
  [line |-> line, project |-> project, step |-> 1, found |-> None, late |-> FALSE]

Run(line) ==
  /\ submits < MaxSubmits /\ submits' = submits + 1
  /\ history' = Push(line) /\ input' = None
  /\ IF line = Clear
     THEN ClearScreen /\ UNCHANGED <<busy, running>>
     ELSE /\ busy' = TRUE /\ running' = running \cup {Started(line)}
          /\ UNCHANGED lines
  /\ UNCHANGED <<open, project, resources, unseen, others>>

\* A blank line is no command.
Submit == Typing /\ input \in Inputs /\ Run(input) /\ histIdx' = -1

\* A quick command leaves the place in the history as it is.
Ready == open /\ ~busy

RunQuick == Ready /\ \E line \in Inputs : line # Clear /\ Run(line) /\ UNCHANGED histIdx

------------------------------------------------------------------------------
(* Running a command. *)

Over(c) == c.step > Len(c.line.calls)

\* Its lines are appended whatever has become of the window; a first word of
\* the list makes the console fetch its data again.
Finish(c) ==
  /\ running' = running \ {c}
  /\ lines' = lines \cup {[project |-> c.project, late |-> c.late]}
  /\ busy' = FALSE
  /\ unseen' = IF c.line.root \in Mutating THEN {} ELSE unseen
  /\ UNCHANGED <<open, project, prompt, resources, bounds>>

\* The resources that the words of a command may mean, in the whole tenant.
Namesakes(c) == {i \in alive : born[i].kind = c.line.kind /\ born[i].name = c.line.name}

\* findDeployment, findDatabase, findLoadBalancer, findSecret, findVm: the list of
\* the project, or of the tenant.
Hits(c) == {i \in Namesakes(c) : c.project \in {None, born[i].project}}

Step(c, found) ==
  running' = (running \ {c}) \cup {[c EXCEPT !.step = @ + 1, !.found = found]}

Unused == Ids \ DOMAIN born

Make(kind, name, p) ==
  \E i \in Unused :
    /\ born' = [j \in DOMAIN born \cup {i} |->
         IF j = i THEN [kind |-> kind, name |-> name, project |-> p] ELSE born[j]]
    /\ alive' = alive \cup {i}

Home(c) == IF c.project = None THEN Default ELSE c.project

\* A call carried out: what it does to the resources.
Carry(c) ==
  CASE c.line.calls[c.step] = "create" -> Make(c.line.kind, c.line.name, Home(c))
    [] c.line.calls[c.step] = "delete" -> alive' = alive \ {c.found} /\ UNCHANGED born
    [] OTHER -> UNCHANGED resources

\* A lookup in the list, or a question by name that a namesake in any project may
\* answer.
Find(c) ==
  /\ ~Over(c)
  /\ \/ c.line.calls[c.step] = "find" /\ \E i \in Hits(c) : Step(c, i)
     \/ c.line.calls[c.step] = "ask" /\ \E i \in Namesakes(c) : Step(c, i)
  /\ UNCHANGED <<open, project, lines, prompt, busy, resources, unseen, bounds>>

\* A call that the control plane carries out.
Call(c) ==
  /\ ~Over(c) /\ c.line.calls[c.step] \notin {"find", "ask"}
  /\ Carry(c)
  /\ Step(c, c.found)
  /\ unseen' = IF Changes(c.line) THEN unseen \cup {c.line.root} ELSE unseen
  /\ UNCHANGED <<open, project, lines, prompt, busy, bounds>>

\* All calls are made, or one found nothing, was refused, or lost its answer:
\* runTerminalCommand returns lines in every case.
End(c) == Finish(c)

\* Another session makes or removes a resource.
Other ==
  /\ others < MaxOthers /\ others' = others + 1
  /\ \/ \E i \in alive : alive' = alive \ {i} /\ UNCHANGED born
     \/ \E line \in Inputs, p \in Projects :
          line.kind # "none" /\ line.name # None /\ Make(line.kind, line.name, p)
  /\ UNCHANGED <<open, project, lines, prompt, busy, running, unseen, submits>>

Next ==
  \/ Open \/ Close \/ SwitchProject \/ Rerender
  \/ Type \/ ArrowUp \/ ArrowDown \/ CtrlL \/ Submit \/ RunQuick
  \/ \E c \in running : Find(c) \/ Call(c) \/ End(c)
  \/ Other

Spec == Init /\ [][Next]_vars

------------------------------------------------------------------------------
\* The variables have their types; the history never outgrows its limit and holds
\* no command twice, and the place in it is that of one of its commands.
TypeOK ==
  /\ open \in BOOLEAN /\ project \in Projects \cup {None}
  /\ lines \subseteq [project : Projects \cup {None}, late : BOOLEAN]
  /\ input \in Inputs \cup {None}
  /\ Len(history) <= MaxHistory /\ \A k \in DOMAIN history : history[k] \in Inputs
  /\ \A j, k \in DOMAIN history : history[j] = history[k] => j = k
  /\ histIdx \in -1 .. Len(history) - 1
  /\ busy \in BOOLEAN
  /\ \A c \in running : c.line \in Inputs /\ c.step <= Len(c.line.calls) + 1
  /\ \A i \in DOMAIN born : born[i].name \in Names /\ born[i].project \in Projects
  /\ alive \subseteq DOMAIN born /\ DOMAIN born \subseteq Ids

\* However often the window is closed, opened, given another project or rendered
\* anew while a command runs, no second command starts: the calls of two commands
\* never interleave.
OneCommandAtATime ==
  /\ \A c, d \in running : c = d
  /\ running # {} => busy

\* The screen of a project shows only what commands entered for this project print,
\* and that without a project only what commands without one print; the one
\* exception is the outcome of a command that was running when the screen was
\* given up.
LinesOfThisProject == open => \A l \in lines : l.late \/ l.project = project

\* When no command runs, the console has been told to fetch its data since the
\* last change a command made, failed or not; only gw, the short form of gateway,
\* is forgotten.
RefreshedAfterChange == running = {} => unseen \subseteq {"gw"}
==============================================================================
