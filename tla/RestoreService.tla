--------------------------- MODULE RestoreService ---------------------------
(***************************************************************************)
(* The controller of RestoreTasks as one process: the Reconcile goroutine  *)
(* of RestoreReconcile and the dispatchers and goroutines of               *)
(* RestoreWorkers.                                                         *)
(*                                                                         *)
(* They meet in two places.  The last statement of Reconcile sends on      *)
(* taskQueue, so Reconcile, and with it every other RestoreTask, waits     *)
(* while the buffer is full.  And both die together: what was in the       *)
(* queue or running is lost, but the informers list every RestoreTask      *)
(* again, so that each one is reconciled and sent once more.               *)
(*                                                                         *)
(* Every task names an index here.  One that names none kills each new     *)
(* process as soon as it is sent again (IndexPanic).                       *)
(***************************************************************************)
EXTENDS Naturals, Sequences, FiniteSets

CONSTANTS
  Tasks, NoTask,
  (* RestoreReconcile *)
  NodeName, StoreSize, Storage, Quantities, GigaBytes, Requests, RequestName,
  RequestSize, Owned, Flapping, ApiFaults, Original, MaxEvents,
  (* RestoreWorkers *)
  Keys, Indices, IndexOf, SpecKey, NoIndices, Rows, Workers, LiveSources,
  MaxTasks, Concurrency, IndexColumnParses, StatusSubresource, DbFaults, NoRow

VARIABLES
  (* RestoreReconcile *)
  nodeSets, cached, sts, exists, work, current, at, edited, base, request,
  events, sent,
  (* RestoreWorkers; enqueued is its own count of the sends *)
  queue, hand, returned, startCtxDone, sem, pc, job, held, outcome,
  row, restored, taskStatus, enqueued

R == INSTANCE RestoreReconcile
W == INSTANCE RestoreWorkers WITH sent <- enqueued

reconciler == <<nodeSets, cached, sts, exists, work, current, at, edited, base,
                request, events, sent>>
workers == <<queue, hand, returned, startCtxDone, sem, pc, job, held, outcome,
             row, restored, taskStatus, enqueued>>
vars == <<reconciler, workers>>

(* What the two modules assume of their constants, and that every task names *)
(* an index.                                                                *)
ASSUME ServiceAssumption ==
  /\ R!ConstantsAssumption /\ R!OriginalAssumption
  /\ W!ConstantsAssumption
  /\ \A t \in Tasks : SpecKey[t] \in Keys

Init == R!Init /\ W!Init

-----------------------------------------------------------------------------
(* r.taskQueue <- &RestoreTask{...}: Reconcile returns when there is room.  *)
Send == R!Send /\ W!Enqueue(current)

(* The process dies, of whatever cause, and is started again.               *)
Restart == R!Restart /\ W!Restart

ReconcileGoesOn ==
  /\ \/ R!GetTask \/ R!UpdateTask \/ R!NodeMissing \/ R!NodeFound
     \/ R!PatchES \/ R!GetSts
  /\ UNCHANGED workers

Begin(t) == R!Begin(t) /\ UNCHANGED workers

(* RestoreViaCR inserts the row before it creates the RestoreTask.          *)
Created(t) ==
  /\ W!RowsOf(SpecKey[t]) # {}
  /\ R!Created(t)
  /\ UNCHANGED workers

ClusterStep ==
  /\ \/ \E t \in Tasks : R!Deleted(t) \/ R!SpecChanged(t)
     \/ \E n \in R!TaskNodes : R!Operator(n)
     \/ R!CacheSyncs
  /\ UNCHANGED workers

Worker(w) == W!WorkerStep(w) /\ UNCHANGED reconciler

Dispatcher(d) == W!DispatcherStep(d) /\ UNCHANGED reconciler

StoreStep ==
  /\ \/ \E r \in Rows, k \in Keys : W!InsertRow(r, k)
     \/ \E i \in Indices : W!RecoveryCompletes(i)
     \/ W!StartCtxExpires
     \/ W!DispatcherReturns
  /\ UNCHANGED reconciler

Next ==
  \/ Send \/ ReconcileGoesOn \/ ClusterStep \/ StoreStep \/ Restart
  \/ \E t \in Tasks : Begin(t) \/ Created(t)
  \/ \E w \in Workers : Worker(w)
  \/ \E d \in W!Dispatchers : Dispatcher(d)

Spec == Init /\ [][Next]_vars

(* The fairness of the two components, but for the send: Reconcile returns  *)
(* from it only when there is room in the queue.                            *)
Fairness ==
  /\ WF_vars(ReconcileGoesOn) /\ WF_vars(Send)
  /\ \A t \in Tasks :
       /\ SF_vars(Begin(t))
       /\ SF_vars(R!UpdateTask /\ current = t /\ at' = "getES" /\ UNCHANGED workers)
       /\ SF_vars(R!PatchES /\ current = t /\ at' = "getSts" /\ UNCHANGED workers)
  /\ WF_vars(R!CacheSyncs /\ UNCHANGED workers)
  /\ \A n \in R!TaskNodes :
       /\ WF_vars(R!StsAppears(n) /\ UNCHANGED workers)
       /\ WF_vars(R!StsReady(n) /\ UNCHANGED workers)
  /\ WF_vars(W!Receive("background") /\ UNCHANGED reconciler)
  /\ \A d \in W!Dispatchers :
       SF_vars((\E w \in Workers : W!Start(d, w)) /\ UNCHANGED reconciler)
  /\ \A w \in Workers :
       /\ WF_vars(Worker(w))
       /\ SF_vars(W!Timeout(w) /\ UNCHANGED reconciler)

FairSpec == Spec /\ Fairness

-----------------------------------------------------------------------------
(* What RestoreReconcile takes for granted of its send: Reconcile goes on   *)
(* in the end.  The one goroutine that reconciles is never held for ever by *)
(* a full queue, so no RestoreTask keeps the others from being looked at.   *)
SendReturns == at = "send" ~> at # "send"

(* A RestoreTask in the workqueue whose node can be had is restored to the  *)
(* end by some goroutine, or deleted, although the process may die at any   *)
(* point: while it waits, between the send and the receive, before the last *)
(* statement.  What that end is, and whether a row shows it, is the matter  *)
(* of the database: no statement is tried again after an error but the two  *)
(* of a tick.  Tasks stopped by the owner check are excepted, which are all *)
(* whose StatefulSet the operator made (OwnedAreSent of RestoreReconcile).  *)
Ends(t) == \E w \in Workers : pc[w] = "report" /\ job[w] = t

EveryTaskRun ==
  \A t \in Tasks :
    \/ []<><<R!StsUnready(NodeName[t])>>_vars
    \/ /\ t \in work /\ R!Fits(t) /\ NodeName[t] \notin Owned
       ~> Ends(t) \/ t \notin exists

(* A verdict is written over only when the RestoreTask behind it had a      *)
(* second event (a change, or a restart of the process), when another       *)
(* RestoreTask names the same task and index, or by the goroutine that      *)
(* wrote it and was answered by an error.                                   *)
RewrittenOnlyIfAskedAgain ==
  [][\A r \in Rows :
       /\ row[r] # NoRow /\ row[r].status # ""
       /\ row'[r] # row[r]
       => LET askers == {t \in Tasks : SpecKey[t] = row[r].key /\ sent[t] > 0}
          IN  \/ \E t, u \in askers : t # u
              \/ \E t \in askers : events[t] > 1
              \/ /\ row[r].status = "SUCCESS" /\ row'[r].status = "TIMEOUT"
                 /\ \E w \in Workers : W!Doubts(w, r)]_vars
=============================================================================
