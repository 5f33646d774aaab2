------------------------------ MODULE WorkQueue ------------------------------
(***************************************************************************)
(* What the provision_jobs collection promises its users, whatever the     *)
(* workers do with a job while they hold it:                               *)
(*                                                                         *)
(*   - a job is taken oldest first, by one worker at a time;               *)
(*   - it is taken at most MaxAttempts times;                              *)
(*   - a finished job is never taken again;                                *)
(*   - the job of a worker that died is not taken again either: nothing    *)
(*     gives it back (the queue has no lease and no reaper).               *)
(*                                                                         *)
(* Provisioning.tla is the code; it implements this specification.         *)
(***************************************************************************)
EXTENDS Naturals

CONSTANTS
  Jobs,         \* jobs that may be submitted
  Workers,      \* worker processes
  MaxAttempts,  \* times a job may be taken
  None          \* what an idle worker holds

VARIABLES
  phase,  \* of each job: absent, waiting, taken or finished
  tries,  \* times each job has been taken
  age,    \* submission stamp of each job, smaller is older
  last,   \* the youngest stamp handed out
  held    \* the job each worker holds, or None

vars == <<phase, tries, age, last, held>>

Init ==
  /\ phase = [j \in Jobs |-> "absent"]
  /\ tries = [j \in Jobs |-> 0]
  /\ age = [j \in Jobs |-> 0]
  /\ last = 0
  /\ held = [w \in Workers |-> None]

Submit(j) ==
  /\ phase[j] = "absent"
  /\ phase' = [phase EXCEPT ![j] = "waiting"]
  /\ last' = last + 1
  /\ age' = [age EXCEPT ![j] = last + 1]
  /\ UNCHANGED <<tries, held>>

Take(w, j) ==
  /\ held[w] = None
  /\ phase[j] = "waiting"
  /\ \A k \in Jobs : phase[k] = "waiting" => age[j] <= age[k]
  /\ tries[j] < MaxAttempts
  /\ phase' = [phase EXCEPT ![j] = "taken"]
  /\ tries' = [tries EXCEPT ![j] = @ + 1]
  /\ held' = [held EXCEPT ![w] = j]
  /\ UNCHANGED <<age, last>>

\* The worker puts the job back, at its old place in line.
GiveBack(w, j) ==
  /\ held[w] = j
  /\ tries[j] < MaxAttempts
  /\ phase' = [phase EXCEPT ![j] = "waiting"]
  /\ held' = [held EXCEPT ![w] = None]
  /\ UNCHANGED <<tries, age, last>>

Finish(w, j) ==
  /\ held[w] = j
  /\ phase' = [phase EXCEPT ![j] = "finished"]
  /\ held' = [held EXCEPT ![w] = None]
  /\ UNCHANGED <<tries, age, last>>

\* The worker dies: the job stays taken, by nobody.
Lose(w, j) ==
  /\ held[w] = j
  /\ held' = [held EXCEPT ![w] = None]
  /\ UNCHANGED <<phase, tries, age, last>>

Next ==
  \/ \E j \in Jobs : Submit(j)
  \/ \E w \in Workers, j \in Jobs :
       Take(w, j) \/ GiveBack(w, j) \/ Finish(w, j) \/ Lose(w, j)

Spec == Init /\ [][Next]_vars
==============================================================================
