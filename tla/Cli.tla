-------------------------------- MODULE Cli --------------------------------
(***************************************************************************)
(* The command line client: short-lived processes that share one           *)
(* configuration file.  Login stores what the server answers field by      *)
(* field; the other commands read the address and the key back, one after  *)
(* the other, and make one call.  The conf library reads and rewrites the  *)
(* whole file for a field, so two processes may undo each other's writes,  *)
(* and a process may be killed between two of them.                        *)
(*                                                                         *)
(* A key or a token is named by the server that issued it.                 *)
(***************************************************************************)
EXTENDS Naturals, Sequences, FiniteSets

CONSTANTS
  Servers,      \* control planes, by address
  KeyServers,   \* those whose login answers with an API key
  Names,        \* deployment names
  Processes,    \* commands that run at once
  MaxCommands,  \* bound: commands
  MaxTroubles,  \* bound: kills and failed calls
  None          \* no value

ASSUME CliAssumption ==
  /\ KeyServers \subseteq Servers
  /\ None \notin Servers \cup Names
  /\ MaxCommands \in Nat /\ MaxTroubles \in Nat

VARIABLES
  config,       \* the configuration file
  pc, run,      \* commands: next step, and what they know
  deployed,     \* the servers and names of deployments
  commands, troubles,  \* bounds used up
  last,         \* history: the server of the last login, None after a logout
  spoiled,      \* history: writers of the file overlapped or were killed since
  undisturbed   \* history: the commands that have met no writer

history == <<last, spoiled, undisturbed>>
vars == <<config, pc, run, deployed, commands, troubles, history>>

Empty == [token |-> None, apiKey |-> None, apiUrl |-> None]

Init ==
  /\ config = Empty
  /\ pc = [p \in Processes |-> "idle"]
  /\ run = [p \in Processes |-> None]
  /\ deployed = {}
  /\ commands = 0 /\ troubles = 0
  /\ last = None /\ spoiled = FALSE /\ undisturbed = {}

Busy(p) == pc[p] # "idle"
Writes(cmd) == cmd \in {"login", "logout"}
Writers == {p \in Processes : Busy(p) /\ Writes(run[p].cmd)}

Trouble == troubles < MaxTroubles /\ troubles' = troubles + 1

Goto(p, step) == pc' = [pc EXCEPT ![p] = step]
Know(p, field, v) == run' = [run EXCEPT ![p][field] = v]

Exit(p) ==
  /\ pc' = [pc EXCEPT ![p] = "idle"]
  /\ run' = [run EXCEPT ![p] = None]
  /\ undisturbed' = undisturbed \ {p}

------------------------------------------------------------------------------
(* Starting a command; env is the address the shell gives, or the default. *)

FirstStep(cmd) ==
  CASE cmd = "login" -> "post" [] cmd = "logout" -> "clear" [] OTHER -> "getUrl"

Start(p, cmd, env, name) ==
  /\ ~Busy(p) /\ commands < MaxCommands
  /\ commands' = commands + 1
  /\ pc' = [pc EXCEPT ![p] = FirstStep(cmd)]
  /\ run' = [run EXCEPT ![p] =
       [cmd |-> cmd, env |-> env, name |-> name, url |-> None, key |-> None,
        answer |-> Empty, file |-> Empty, set |-> 1]]
  /\ IF Writes(cmd)
     THEN /\ spoiled' = (spoiled \/ Writers # {})
          /\ undisturbed' = {}
     ELSE /\ undisturbed' = IF Writers = {} THEN undisturbed \cup {p} ELSE undisturbed
          /\ UNCHANGED spoiled
  /\ UNCHANGED <<config, deployed, troubles, last>>

\* Logs may be asked for without a name.
Commands(p) ==
  \E env \in Servers :
    \/ \E cmd \in {"login", "logout", "list"} : Start(p, cmd, env, None)
    \/ \E n \in Names : Start(p, "deploy", env, n)
    \/ \E n \in Names \cup {None} : Start(p, "logs", env, n)

------------------------------------------------------------------------------
(* cloudlane login: the address is the shell's, not the file's.            *)

\* A server that is not reached, or refuses, ends the command.
PostLogin(p) ==
  LET s == run[p].env IN
  /\ pc[p] = "post"
  /\ \/ /\ Know(p, "answer", [token |-> s, apiKey |-> IF s \in KeyServers THEN s ELSE None,
                              apiUrl |-> s])
        /\ Goto(p, "set") /\ UNCHANGED <<troubles, undisturbed>>
     \/ Trouble /\ Exit(p)
  /\ UNCHANGED <<config, deployed, commands, last, spoiled>>

\* Faulty: the address is stored before it is known that there is a key.
UrlFirst == <<"token", "apiUrl", "apiKey">>

Fields == <<"token", "apiKey", "apiUrl">>

Field(p) == Fields[run[p].set]

\* Faulty: an undefined value is stored.
NeverRefused(p) == FALSE

Refused(p) == run[p].answer[Field(p)] = None

\* conf refuses an undefined value: an error, and the login has "failed" with
\* the fields before it stored.
ReadFile(p) ==
  /\ pc[p] = "set"
  /\ IF Refused(p)
     THEN Exit(p)
     ELSE Know(p, "file", config) /\ Goto(p, "write") /\ UNCHANGED undisturbed
  /\ UNCHANGED <<config, deployed, commands, troubles, last, spoiled>>

Stored(p) == [run[p].file EXCEPT ![Field(p)] = run[p].answer[Field(p)]]

WriteFile(p) ==
  /\ pc[p] = "write"
  /\ config' = Stored(p)
  /\ IF run[p].set < Len(Fields)
     THEN /\ Goto(p, "set")
          /\ Know(p, "set", run[p].set + 1)
          /\ UNCHANGED history
     ELSE /\ Exit(p)
          /\ last' = run[p].answer.apiUrl
          /\ UNCHANGED spoiled
  /\ UNCHANGED <<deployed, commands, troubles>>

------------------------------------------------------------------------------
(* cloudlane logout. *)

Clear(p) ==
  /\ pc[p] = "clear"
  /\ config' = Empty
  /\ Exit(p)
  /\ last' = None
  /\ spoiled' = (spoiled /\ Writers # {p})
  /\ UNCHANGED <<deployed, commands, troubles>>

------------------------------------------------------------------------------
(* cloudlane deploy, list, logs. *)

\* Faulty: the shell's address comes first.
ShellFirst(p) == run[p].env

\* The file's address comes first.
Url(p) == IF config.apiUrl # None THEN config.apiUrl ELSE run[p].env

GetUrl(p) ==
  /\ pc[p] = "getUrl"
  /\ Know(p, "url", Url(p)) /\ Goto(p, "getKey")
  /\ UNCHANGED <<config, deployed, commands, troubles, history>>

\* Without a key, or logs without a name, nothing is sent.
GetKey(p) ==
  /\ pc[p] = "getKey"
  /\ IF config.apiKey = None \/ (run[p].cmd = "logs" /\ run[p].name = None)
     THEN Exit(p)
     ELSE Know(p, "key", config.apiKey) /\ Goto(p, "send") /\ UNCHANGED undisturbed
  /\ UNCHANGED <<config, deployed, commands, troubles, last, spoiled>>

Sends(p, cmd) == pc[p] = "send" /\ run[p].cmd = cmd

\* A server knows its own keys only.  A call that failed may have been carried
\* out all the same.
Deploy(p) ==
  LET made == IF run[p].key = run[p].url
              THEN deployed \cup {<<run[p].url, run[p].name>>} ELSE deployed IN
  /\ Sends(p, "deploy")
  /\ \/ deployed' = made /\ UNCHANGED troubles
     \/ Trouble /\ deployed' \in {deployed, made}
  /\ Exit(p)
  /\ UNCHANGED <<config, commands, last, spoiled>>

\* Listed, refused or not reached.
ListDeployments(p) ==
  /\ Sends(p, "list")
  /\ Trouble \/ UNCHANGED troubles
  /\ Exit(p)
  /\ UNCHANGED <<config, deployed, commands, last, spoiled>>

\* Shown, refused, unknown or not reached.
ViewLogs(p) ==
  /\ Sends(p, "logs")
  /\ Trouble \/ UNCHANGED troubles
  /\ Exit(p)
  /\ UNCHANGED <<config, deployed, commands, last, spoiled>>

\* A command is interrupted.
Kill(p) ==
  /\ Busy(p) /\ Trouble
  /\ spoiled' = (spoiled \/ p \in Writers)
  /\ Exit(p)
  /\ UNCHANGED <<config, deployed, commands, last>>

Next == \E p \in Processes :
  \/ Commands(p) \/ Kill(p)
  \/ PostLogin(p) \/ ReadFile(p) \/ WriteFile(p)
  \/ Clear(p)
  \/ GetUrl(p) \/ GetKey(p)
  \/ Deploy(p) \/ ListDeployments(p) \/ ViewLogs(p)

Spec == Init /\ [][Next]_vars

------------------------------------------------------------------------------
Files == [{"token", "apiKey", "apiUrl"} -> Servers \cup {None}]

\* Types; and only values that there are come to be written.
TypeOK ==
  /\ config \in Files
  /\ pc \in [Processes -> {"idle", "post", "set", "write", "clear", "getUrl", "getKey", "send"}]
  /\ deployed \subseteq Servers \X Names
  /\ last \in Servers \cup {None} /\ spoiled \in BOOLEAN
  /\ \A p \in Processes :
       /\ pc[p] = "write" => run[p].answer[Field(p)] # None
       /\ p \in undisturbed => Busy(p) /\ ~Writes(run[p].cmd)

\* The stored key and address are those of the last login that succeeded, or
\* none after a logout: a login that fails half-way, at a server that issues no
\* key, changes neither.  Logins that overlap or are killed may mix them.
LastLoginStands ==
  ~spoiled /\ Writers = {} => config.apiKey = last /\ config.apiUrl = last

\* A command that no login or logout disturbs sends its key to the server that
\* issued it, whatever the shell's address is.
CommandsGoHome ==
  \A p \in undisturbed :
    ~spoiled /\ pc[p] = "send" => run[p].key = run[p].url /\ run[p].url = last
==============================================================================
