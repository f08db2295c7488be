----------------------------- MODULE RestorePool -----------------------------
(***************************************************************************)
(* What the restore workers promise to Reconcile: a task that is sent      *)
(* waits, is run once and is then forgotten; at most WaitBound tasks wait  *)
(* and at most RunBound run; a crash forgets all of them at once.  Tasks   *)
(* are counted, not ordered: two dispatchers may start them in any order.  *)
(***************************************************************************)
EXTENDS Naturals, FiniteSets

CONSTANTS Tasks, WaitBound, RunBound

VARIABLES
  waiting,  \* waiting[t]: how many sends of t wait to be run
  running   \* running[t]: how many sends of t are being run

vars == <<waiting, running>>

TypeOK ==
  /\ waiting \in [Tasks -> 0..WaitBound]
  /\ running \in [Tasks -> 0..RunBound]

Idle == [t \in Tasks |-> 0]

(* The sends that are counted in f, all tasks together.                     *)
Sends(f) == UNION {{t} \X (1..f[t]) : t \in Tasks}

Init == waiting = Idle /\ running = Idle

Submit(t) ==
  /\ Cardinality(Sends(waiting)) < WaitBound
  /\ waiting' = [waiting EXCEPT ![t] = @ + 1]
  /\ UNCHANGED running

Run(t) ==
  /\ waiting[t] > 0
  /\ Cardinality(Sends(running)) < RunBound
  /\ waiting' = [waiting EXCEPT ![t] = @ - 1]
  /\ running' = [running EXCEPT ![t] = @ + 1]

Finish(t) ==
  /\ running[t] > 0
  /\ running' = [running EXCEPT ![t] = @ - 1]
  /\ UNCHANGED waiting

Crash == waiting' = Idle /\ running' = Idle

Next ==
  \/ \E t \in Tasks : Submit(t) \/ Run(t) \/ Finish(t)
  \/ Crash

Spec == Init /\ [][Next]_vars
=============================================================================
