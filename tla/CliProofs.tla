----------------------------- MODULE CliProofs -----------------------------
(***************************************************************************)
(* Theorems about Cli, for any servers, names, processes and bounds.       *)
(***************************************************************************)
EXTENDS Cli, TLAPS

------------------------------------------------------------------------------
(* The inductive invariant. *)

Values == Servers \cup {None}

RunRecord ==
  [cmd : {"login", "logout", "list", "deploy", "logs"}, env : Servers, name : Names \cup {None},
   url : Values, key : Values, answer : Files, file : Files, set : 1..3]

\* What a command knows, and which steps are whose.
RunsTyped ==
  /\ run \in [Processes -> RunRecord \cup {None}]
  /\ undisturbed \subseteq Processes
  /\ \A p \in Processes :
       /\ Busy(p) => run[p] \in RunRecord
       /\ pc[p] \in {"post", "set", "write"} => run[p].cmd = "login"
       /\ pc[p] = "clear" => run[p].cmd = "logout"
       /\ pc[p] \in {"getUrl", "getKey", "send"} => ~Writes(run[p].cmd)
       /\ pc[p] = "post" => run[p].set = 1
       /\ pc[p] = "send" => run[p].key # None
       /\ Busy(p) /\ run[p].cmd = "deploy" => run[p].name \in Names

\* Writers that overlap spoil the file, and disturb whoever reads it.
WritersApart ==
  /\ ~spoiled => \A p, q \in Writers : p = q
  /\ undisturbed # {} => Writers = {}

\* The server's answer is about itself; the address is only stored after a key.
Answered ==
  \A p \in Processes : pc[p] \in {"set", "write"} =>
    /\ run[p].answer.token = run[p].env /\ run[p].answer.apiUrl = run[p].env
    /\ run[p].answer.apiKey \in {run[p].env, None}
    /\ run[p].set = 3 => run[p].answer.apiKey # None

Pair == config.apiKey = last /\ config.apiUrl = last

\* Until the key is written the file holds the last login; then it holds the new
\* key with the old address.
HalfWay ==
  ~spoiled => \A p \in Processes :
    /\ pc[p] \in {"post", "clear"} => Pair
    /\ pc[p] \in {"set", "write"} =>
         /\ run[p].set < 3 => Pair
         /\ run[p].set = 3 => config.apiKey = run[p].env /\ config.apiUrl = last
    /\ pc[p] = "write" => run[p].file = config

\* What an undisturbed reader has read is still in the file.
ReadersAgree ==
  \A p \in undisturbed :
    /\ pc[p] \in {"getKey", "send"} => config.apiUrl \in {None, run[p].url}
    /\ pc[p] = "send" => run[p].key = config.apiKey

IInv ==
  /\ TypeOK
  /\ RunsTyped
  /\ WritersApart
  /\ Answered
  /\ HalfWay
  /\ ReadersAgree
  /\ LastLoginStands

------------------------------------------------------------------------------
(* Every step keeps the invariant. *)

\* The answer is kept, or the login has failed.
LEMMA PostLoginKeeps ==
  ASSUME IInv, NEW p \in Processes, PostLogin(p)
  PROVE  IInv'
<1> USE CliAssumption DEF IInv, RunsTyped, RunRecord, Busy, PostLogin
<1>a. p \in Writers
  BY DEF Writers, Writes
<1>b. undisturbed = {} /\ (~spoiled => Writers = {p})
  BY <1>a DEF WritersApart
<1>c. ~spoiled => \A q \in Processes \ {p} : pc[q] \notin {"post", "set", "write", "clear"}
  BY <1>b DEF Writers, Writes
<1>1. TypeOK'
  BY DEF TypeOK, Files, Field, Fields, Writes, Know, Goto, Exit, Trouble
<1>2. RunsTyped'
  BY DEF TypeOK, Files, Values, Writes, Know, Goto, Exit, Trouble
<1>3. WritersApart'
  BY DEF TypeOK, WritersApart, Writers, Writes, Know, Goto, Exit, Trouble
<1>4. Answered'
  <2>1. ASSUME NEW q \in Processes, pc'[q] \in {"set", "write"}, q # p
        PROVE  run'[q] = run[q] /\ pc'[q] = pc[q]
    BY <2>1 DEF TypeOK, Know, Goto, Exit
  <2>2. pc'[p] \in {"set", "write"} =>
          run' = [run EXCEPT ![p] = [run[p] EXCEPT !.answer =
            [token |-> run[p].env, apiKey |-> IF run[p].env \in KeyServers THEN run[p].env ELSE None,
             apiUrl |-> run[p].env]]]
    BY DEF TypeOK, Know, Goto, Exit
  <2>3. run[p] \in RunRecord
    BY DEF TypeOK
  <2>4. pc'[p] \in {"set", "write"} =>
          /\ run'[p].answer.token = run[p].env /\ run'[p].answer.apiUrl = run[p].env
          /\ run'[p].answer.apiKey \in {run[p].env, None} /\ run'[p].env = run[p].env
          /\ run'[p].set = run[p].set
    BY <2>2, <2>3
  <2> QED BY <2>1, <2>4 DEF Answered
<1>5. HalfWay'
  BY <1>c DEF HalfWay, Pair, TypeOK, Know, Goto, Exit, Trouble
<1>6. ReadersAgree'
  BY <1>b DEF ReadersAgree, TypeOK, Know, Goto, Exit, Trouble
<1>7. LastLoginStands'
  BY <1>a, <1>b DEF LastLoginStands, HalfWay, Pair, TypeOK, Know, Goto, Exit, Trouble, Writers, Writes
<1> QED BY <1>1, <1>2, <1>3, <1>4, <1>5, <1>6, <1>7

\* A field without a value ends the login before the address is stored.
LEMMA ReadFileKeeps ==
  ASSUME IInv, NEW p \in Processes, ReadFile(p)
  PROVE  IInv'
<1> USE CliAssumption DEF IInv, RunsTyped, RunRecord, Busy, ReadFile, Refused, Know, Goto, Exit, Field, Fields
<1>a. p \in Writers
  BY DEF Writers, Writes
<1>b. undisturbed = {} /\ (~spoiled => Writers = {p})
  BY <1>a DEF WritersApart
<1>c. ~spoiled => \A q \in Processes \ {p} : pc[q] \notin {"post", "set", "write", "clear"}
  BY <1>b DEF Writers, Writes
<1>1. TypeOK'
  BY DEF TypeOK, Files, Field, Fields, Writes
<1>2. RunsTyped'
  <2>1. run' \in [Processes -> RunRecord \cup {None}] /\ undisturbed' \subseteq Processes
    BY DEF TypeOK
  <2>2. \A q \in Processes \ {p} : run'[q] = run[q] /\ pc'[q] = pc[q]
    BY DEF TypeOK
  <2>3. pc'[p] # "idle" => run'[p] \in RunRecord /\ run'[p].cmd = "login"
             /\ pc'[p] \in {"set", "write"}
    <3>1. run[p] \in RunRecord /\ run[p].cmd = "login" /\ config \in Files
      BY DEF TypeOK
    <3>2. pc'[p] # "idle" => run'[p] = [run[p] EXCEPT !.file = config] /\ pc'[p] = "write"
      BY DEF TypeOK
    <3> QED BY <3>1, <3>2
  <2> QED BY <2>1, <2>2, <2>3 DEF Writes
<1>3. WritersApart'
  BY DEF TypeOK, WritersApart, Writers, Writes
<1>4. Answered'
  BY DEF TypeOK, Answered
<1>5. HalfWay'
  BY DEF TypeOK, HalfWay, Pair
<1>6. ReadersAgree'
  BY DEF TypeOK, ReadersAgree
<1>7. LastLoginStands'
  BY <1>a, <1>b DEF LastLoginStands, HalfWay, Pair, TypeOK, Answered, Writers, Writes
<1> QED BY <1>1, <1>2, <1>3, <1>4, <1>5, <1>6, <1>7

\* The file takes the next field.
LEMMA WriteFileKeeps ==
  ASSUME IInv, NEW p \in Processes, WriteFile(p)
  PROVE  IInv'
<1> USE CliAssumption DEF IInv, RunsTyped, RunRecord, Busy, WriteFile, Stored, Know, Goto, Exit, Field, Fields, history
<1>a. p \in Writers
  BY DEF Writers, Writes
<1>b. undisturbed = {} /\ (~spoiled => Writers = {p})
  BY <1>a DEF WritersApart
<1>c. ~spoiled => \A q \in Processes \ {p} : pc[q] \notin {"post", "set", "write", "clear"}
  BY <1>b DEF Writers, Writes
<1>1. TypeOK'
  BY DEF TypeOK, Files, Field, Fields, Writes
<1>2. RunsTyped'
  <2>1. run' \in [Processes -> RunRecord \cup {None}] /\ undisturbed' \subseteq Processes
    BY DEF TypeOK, Files, Values, Writes
  <2>2. \A q \in Processes \ {p} : run'[q] = run[q] /\ pc'[q] = pc[q]
    BY DEF TypeOK
  <2>3. pc'[p] # "idle" => run'[p] \in RunRecord /\ run'[p].cmd = "login"
             /\ pc'[p] \in {"set", "write"}
    BY DEF TypeOK, Files, Values
  <2> QED BY <2>1, <2>2, <2>3 DEF Writes
<1>3. WritersApart'
  BY DEF TypeOK, WritersApart, Writers, Writes
<1>4. Answered'
  BY DEF TypeOK, Answered
<1>5. HalfWay'
  <2>1. CASE run[p].set = 1
    BY <1>c, <2>1 DEF HalfWay, Pair, TypeOK, Answered
  <2>2. CASE run[p].set = 2
    BY <1>c, <2>2 DEF HalfWay, Pair, TypeOK, Answered, Files
  <2>3. CASE run[p].set = 3
    BY <1>c, <2>3 DEF HalfWay, Pair, TypeOK, Answered
  <2> QED BY <2>1, <2>2, <2>3 DEF TypeOK
<1>6. ReadersAgree'
  BY <1>b DEF ReadersAgree, TypeOK
<1>7. LastLoginStands'
  <2>1. CASE run[p].set < 3
    <3>1. p \in Writers'
      BY <2>1 DEF Writers, Writes, TypeOK
    <3> QED BY <3>1 DEF LastLoginStands
  <2>2. CASE run[p].set = 3
    BY <1>a, <1>b, <2>2 DEF LastLoginStands, HalfWay, Pair, TypeOK, Answered, Writers, Writes, Files
  <2> QED BY <2>1, <2>2 DEF TypeOK
<1> QED BY <1>1, <1>2, <1>3, <1>4, <1>5, <1>6, <1>7

\* The file is emptied.
LEMMA ClearKeeps ==
  ASSUME IInv, NEW p \in Processes, Clear(p)
  PROVE  IInv'
<1> USE CliAssumption DEF IInv, RunsTyped, RunRecord, Busy, Clear, Exit, Empty
<1>a. p \in Writers
  BY DEF Writers, Writes
<1>b. undisturbed = {} /\ (~spoiled => Writers = {p})
  BY <1>a DEF WritersApart
<1>c. ~spoiled => \A q \in Processes \ {p} : pc[q] \notin {"post", "set", "write", "clear"}
  BY <1>b DEF Writers, Writes
<1>1. TypeOK'
  BY DEF TypeOK, Files, Field, Fields, Writes
<1>2. RunsTyped'
  BY DEF TypeOK, Files, Values, Writes
<1>3. WritersApart'
  BY DEF TypeOK, WritersApart, Writers, Writes
<1>4. Answered'
  BY DEF TypeOK, Answered
<1>5. HalfWay'
  BY <1>a, <1>b, <1>c DEF HalfWay, Pair, TypeOK, Writers, Writes
<1>6. ReadersAgree'
  BY <1>b DEF ReadersAgree
<1>7. LastLoginStands'
  BY DEF TypeOK, LastLoginStands, Writers, Writes
<1> QED BY <1>1, <1>2, <1>3, <1>4, <1>5, <1>6, <1>7

\* The address is read.
LEMMA GetUrlKeeps ==
  ASSUME IInv, NEW p \in Processes, GetUrl(p)
  PROVE  IInv'
<1> USE CliAssumption DEF IInv, RunsTyped, RunRecord, Busy, GetUrl, Url, Know, Goto, history
<1>1. TypeOK'
  BY DEF TypeOK, Files, Field, Fields, Writes
<1>2. RunsTyped'
  BY DEF TypeOK, Files, Values, Writes
<1>3. WritersApart'
  BY DEF TypeOK, WritersApart, Writers, Writes
<1>4. Answered'
  BY DEF TypeOK, Answered
<1>5. HalfWay'
  BY DEF TypeOK, HalfWay, Pair
<1>6. ReadersAgree'
  BY DEF TypeOK, ReadersAgree
<1>7. LastLoginStands'
  BY DEF TypeOK, LastLoginStands, Writers, Writes
<1> QED BY <1>1, <1>2, <1>3, <1>4, <1>5, <1>6, <1>7

\* The key is read, or there is none.
LEMMA GetKeyKeeps ==
  ASSUME IInv, NEW p \in Processes, GetKey(p)
  PROVE  IInv'
<1> USE CliAssumption DEF IInv, RunsTyped, RunRecord, Busy, GetKey, Know, Goto, Exit
<1>1. TypeOK'
  BY DEF TypeOK, Files, Field, Fields, Writes
<1>2. RunsTyped'
  BY DEF TypeOK, Files, Values, Writes
<1>3. WritersApart'
  BY DEF TypeOK, WritersApart, Writers, Writes
<1>4. Answered'
  BY DEF TypeOK, Answered
<1>5. HalfWay'
  BY DEF TypeOK, HalfWay, Pair
<1>6. ReadersAgree'
  BY DEF TypeOK, ReadersAgree
<1>7. LastLoginStands'
  BY DEF TypeOK, LastLoginStands, Writers, Writes
<1> QED BY <1>1, <1>2, <1>3, <1>4, <1>5, <1>6, <1>7

\* A call ends the command.
LEMMA DeployKeeps ==
  ASSUME IInv, NEW p \in Processes, Deploy(p)
  PROVE  IInv'
<1> USE CliAssumption DEF IInv, RunsTyped, RunRecord, Busy, Deploy, Sends, Exit, Trouble
<1>1. TypeOK'
  <2>1. run[p].key = run[p].url => run[p].url \in Servers /\ run[p].name \in Names
    BY DEF Values
  <2>2. deployed' \subseteq Servers \X Names
    BY <2>1 DEF TypeOK
  <2> QED BY <2>2 DEF TypeOK, Files, Field, Fields, Writes
<1>2. RunsTyped'
  BY DEF TypeOK, Files, Values, Writes
<1>3. WritersApart'
  BY DEF TypeOK, WritersApart, Writers, Writes
<1>4. Answered'
  BY DEF TypeOK, Answered
<1>5. HalfWay'
  BY DEF TypeOK, HalfWay, Pair
<1>6. ReadersAgree'
  BY DEF TypeOK, ReadersAgree
<1>7. LastLoginStands'
  BY DEF TypeOK, LastLoginStands, Writers, Writes
<1> QED BY <1>1, <1>2, <1>3, <1>4, <1>5, <1>6, <1>7

\* A call ends the command.
LEMMA ListKeeps ==
  ASSUME IInv, NEW p \in Processes, ListDeployments(p) \/ ViewLogs(p)
  PROVE  IInv'
<1> USE CliAssumption DEF IInv, RunsTyped, RunRecord, Busy, ListDeployments, ViewLogs, Sends, Exit, Trouble
<1>1. TypeOK'
  BY DEF TypeOK, Files, Field, Fields, Writes
<1>2. RunsTyped'
  BY DEF TypeOK, Files, Values, Writes
<1>3. WritersApart'
  BY DEF TypeOK, WritersApart, Writers, Writes
<1>4. Answered'
  BY DEF TypeOK, Answered
<1>5. HalfWay'
  BY DEF TypeOK, HalfWay, Pair
<1>6. ReadersAgree'
  BY DEF TypeOK, ReadersAgree
<1>7. LastLoginStands'
  BY DEF TypeOK, LastLoginStands, Writers, Writes
<1> QED BY <1>1, <1>2, <1>3, <1>4, <1>5, <1>6, <1>7

\* A command that wrote leaves the file spoiled.
LEMMA KillKeeps ==
  ASSUME IInv, NEW p \in Processes, Kill(p)
  PROVE  IInv'
<1> USE CliAssumption DEF IInv, RunsTyped, RunRecord, Busy, Kill, Exit, Trouble
<1>1. TypeOK'
  BY DEF TypeOK, Files, Field, Fields, Writes
<1>2. RunsTyped'
  BY DEF TypeOK, Files, Values, Writes
<1>3. WritersApart'
  BY DEF TypeOK, WritersApart, Writers, Writes
<1>4. Answered'
  BY DEF TypeOK, Answered
<1>5. HalfWay'
  BY DEF TypeOK, HalfWay, Pair
<1>6. ReadersAgree'
  BY DEF TypeOK, ReadersAgree
<1>7. LastLoginStands'
  BY DEF TypeOK, LastLoginStands, Writers, Writes
<1> QED BY <1>1, <1>2, <1>3, <1>4, <1>5, <1>6, <1>7

\* A writer disturbs the readers, and spoils the file for another writer.
LEMMA StartKeeps ==
  ASSUME IInv, NEW p \in Processes, NEW cmd \in {"login", "logout", "list", "deploy", "logs"}, NEW env \in Servers,
         NEW name \in Names \cup {None},
         cmd = "deploy" => name \in Names, Start(p, cmd, env, name)
  PROVE  IInv'
<1> USE CliAssumption DEF IInv, RunsTyped, RunRecord, Busy, Start, FirstStep, Empty, Files
<1>a. \A q \in Processes \ {p} : run'[q] = run[q] /\ pc'[q] = pc[q]
  BY DEF TypeOK
<1>b. run'[p].cmd = cmd /\ run'[p].set = 1 /\ pc'[p] = FirstStep(cmd)
  BY DEF TypeOK
<1>c. Writers' = IF Writes(cmd) THEN Writers \cup {p} ELSE Writers
  BY <1>a, <1>b DEF Writers, Writes
<1>1. TypeOK'
  <2>1. pc'[p] \in {"post", "clear", "getUrl"}
    BY <1>b
  <2>2. \A q \in Processes : pc'[q] = "write" => run'[q].answer[Field(q)'] # None
    BY <1>a, <2>1 DEF TypeOK, Field
  <2>3. \A q \in undisturbed' : pc'[q] # "idle" /\ ~Writes(run'[q].cmd)
    BY <1>a, <1>b, <2>1 DEF TypeOK, Writes
  <2> QED BY <2>2, <2>3 DEF TypeOK
<1>2. RunsTyped'
  BY DEF TypeOK, Files, Values, Writes
<1>3. WritersApart'
  BY <1>c DEF WritersApart
<1>4. Answered'
  BY DEF TypeOK, Answered
<1>5. HalfWay'
  BY <1>a, <1>b, <1>c DEF TypeOK, HalfWay, Pair, LastLoginStands, Writes
<1>6. ReadersAgree'
  BY DEF TypeOK, ReadersAgree
<1>7. LastLoginStands'
  BY DEF TypeOK, LastLoginStands, Writers, Writes
<1> QED BY <1>1, <1>2, <1>3, <1>4, <1>5, <1>6, <1>7

------------------------------------------------------------------------------
(* The theorems. *)

\* At first there is no command and no file.
LEMMA Initially == Init => IInv
<1> SUFFICES ASSUME Init PROVE IInv
  OBVIOUS
<1> USE CliAssumption DEF Init, Empty, Busy
<1>1. Writers = {}
  BY DEF Writers
<1>2. TypeOK
  <2>1. Empty \in Files
    BY DEF Files
  <2>2. \A p \in Processes : pc[p] = "idle"
    OBVIOUS
  <2> QED BY <2>1, <2>2 DEF TypeOK
<1>3. RunsTyped
  BY DEF RunsTyped
<1> QED BY <1>1, <1>2, <1>3 DEF IInv, WritersApart, Answered, HalfWay, ReadersAgree, LastLoginStands

\* What nothing changes keeps holding.
LEMMA Unchanging == IInv /\ UNCHANGED vars => IInv'
<1> SUFFICES ASSUME IInv, UNCHANGED vars PROVE IInv'
  OBVIOUS
<1> USE DEF vars, history, IInv, Busy
<1>1. Writers' = Writers
  BY DEF Writers
<1>2. TypeOK' /\ RunsTyped'
  BY DEF TypeOK, Field, RunsTyped
<1>3. WritersApart' /\ Answered'
  BY <1>1 DEF WritersApart, Answered
<1>4. HalfWay' /\ ReadersAgree' /\ LastLoginStands'
  BY <1>1 DEF HalfWay, Pair, ReadersAgree, LastLoginStands
<1> QED BY <1>2, <1>3, <1>4

\* Each step is one of the commands' steps.
LEMMA StepKeeps == IInv /\ [Next]_vars => IInv'
<1> SUFFICES ASSUME IInv, [Next]_vars PROVE IInv'
  OBVIOUS
<1>1. CASE UNCHANGED vars
  BY <1>1, Unchanging
<1>2. CASE Next
  <2>1. PICK p \in Processes :
          \/ Commands(p) \/ Kill(p) \/ PostLogin(p) \/ ReadFile(p) \/ WriteFile(p) \/ Clear(p)
          \/ GetUrl(p) \/ GetKey(p) \/ Deploy(p) \/ ListDeployments(p) \/ ViewLogs(p)
    BY <1>2 DEF Next
  <2>2. CASE Commands(p)
    BY <2>2, StartKeeps, CliAssumption DEF Commands
  <2> QED BY <2>1, <2>2, KillKeeps, PostLoginKeeps, ReadFileKeeps, WriteFileKeeps, ClearKeeps,
             GetUrlKeeps, GetKeyKeeps, DeployKeeps, ListKeeps
<1> QED BY <1>1, <1>2 DEF vars

\* The inductive invariant holds.
THEOREM Invariance == Spec => []IInv
BY Initially, StepKeeps, PTL DEF Spec

\* Types, and only values that there are come to be written.
THEOREM TypeCorrect == Spec => []TypeOK
<1>1. IInv => TypeOK
  BY DEF IInv
<1> QED BY <1>1, Invariance, PTL

\* The file holds the key and the address of the last login that succeeded, as
\* long as logins and logouts neither overlap nor are killed.
THEOREM LastLoginHolds == Spec => []LastLoginStands
<1>1. IInv => LastLoginStands
  BY DEF IInv
<1> QED BY <1>1, Invariance, PTL

\* A command that no login or logout disturbs sends its key where it was issued:
\* there is no writer, so what it has read is still the last login's pair.
THEOREM CommandsReachTheirServer == Spec => []CommandsGoHome
<1>1. IInv => CommandsGoHome
  <2> SUFFICES ASSUME IInv, NEW p \in undisturbed, ~spoiled, pc[p] = "send"
               PROVE  run[p].key = run[p].url /\ run[p].url = last
    BY DEF CommandsGoHome
  <2>1. config.apiKey = last /\ config.apiUrl = last
    BY DEF IInv, WritersApart, LastLoginStands
  <2>2. run[p].key = config.apiKey /\ run[p].key # None /\ config.apiUrl \in {None, run[p].url}
    BY DEF IInv, RunsTyped, ReadersAgree
  <2> QED BY <2>1, <2>2
<1> QED BY <1>1, Invariance, PTL
==============================================================================
