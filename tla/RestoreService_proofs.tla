------------------------ MODULE RestoreService_proofs ------------------------
(***************************************************************************)
(* The process as a whole does to the reconciler's state what              *)
(* RestoreReconcile allows and to the workers' state what RestoreWorkers   *)
(* allows, so what is proved of each of them holds of both together; and   *)
(* a verdict is replaced only when two events asked for it, or by a        *)
(* goroutine that was not told that it had written it.                     *)
(*                                                                         *)
(* RP and WP are R and W again, with the theorems about them.              *)
(***************************************************************************)
EXTENDS RestoreService, TLAPS

RP == INSTANCE RestoreReconcile_proofs
WP == INSTANCE RestoreWorkers_proofs WITH sent <- enqueued

(* The constants are as the theorems about the two parts take them.         *)
LEMMA ReconcilerConstants == RP!ConstantsAssumption /\ RP!OriginalAssumption
BY ServiceAssumption
   DEF R!ConstantsAssumption, R!OriginalAssumption, R!NodeSet, R!Nodes, R!TaskNodes,
       RP!ConstantsAssumption, RP!OriginalAssumption, RP!NodeSet, RP!Nodes, RP!TaskNodes

(* As above, for the workers.                                               *)
LEMMA WorkersConstants == WP!ConstantsAssumption
BY ServiceAssumption
   DEF W!ConstantsAssumption, W!IsFiniteSet, WP!ConstantsAssumption, WP!IsFiniteSet,
       IsFiniteSet

(* R and RP are one module, read twice.                                     *)
LEMMA SameReconciler == R!Spec => RP!Spec
<1>1. R!Init => RP!Init
  BY DEF
     R!TaskNodes, RP!TaskNodes, R!Names, RP!Names, R!Arrives, RP!Arrives,
     R!Init, RP!Init
<1>2. [R!Next]_R!vars => [RP!Next]_RP!vars
  BY DEF
     R!TaskNodes, RP!TaskNodes, R!Nodes, RP!Nodes, R!NodeSet, RP!NodeSet,
     R!queueVars, RP!queueVars, R!reconcileVars, RP!reconcileVars,
     R!vars, RP!vars, R!Named, RP!Named, R!Names, RP!Names, R!Arrives,
     RP!Arrives, R!Event, RP!Event, R!Created, RP!Created, R!Deleted,
     RP!Deleted, R!SpecChanged, RP!SpecChanged, R!Begin, RP!Begin,
     R!Continue, RP!Continue, R!Return, RP!Return, R!Forget, RP!Forget,
     R!Requeue, RP!Requeue, R!outside, RP!outside, R!GetTask, RP!GetTask,
     R!UpdateTask, RP!UpdateTask, R!NodeMissing, RP!NodeMissing,
     R!NodeFound, RP!NodeFound, R!Merged, RP!Merged, R!PatchES,
     RP!PatchES, R!GetSts, RP!GetSts, R!Send, RP!Send, R!Handler,
     RP!Handler, R!besideRequests, RP!besideRequests, R!RequestArrives,
     RP!RequestArrives, R!Without, RP!Without, R!Edit, RP!Edit,
     R!RequestGets, RP!RequestGets, R!RequestPatches, RP!RequestPatches,
     R!CacheSyncs, RP!CacheSyncs, R!StsBecomes, RP!StsBecomes,
     R!StsAppears, RP!StsAppears, R!StsReady, RP!StsReady, R!StsUnready,
     RP!StsUnready, R!StsRemoved, RP!StsRemoved, R!Restart, RP!Restart,
     R!Finish, RP!Finish, R!Reconcile, RP!Reconcile, R!HandlerStep, RP!HandlerStep,
     R!Operator, RP!Operator, R!Next, RP!Next
<1> QED
  BY <1>1, <1>2, PTL DEF R!Spec, RP!Spec

(* So are W and WP.                                                         *)
LEMMA SameWorkers == W!Spec => WP!Spec
<1>1. W!Init => WP!Init
  BY DEF
     W!Dispatchers, WP!Dispatchers, W!NoHand, WP!NoHand, W!NoGoroutine,
     WP!NoGoroutine, W!NoJob, WP!NoJob, W!NothingHeld, WP!NothingHeld,
     W!NoOutcome, WP!NoOutcome, W!Init, WP!Init
<1>2. [W!Next]_W!vars => [WP!Next]_WP!vars
  BY DEF
     W!memory, WP!memory, W!store, WP!store, W!vars, WP!vars,
     W!Dispatchers, WP!Dispatchers, W!RowsOf, WP!RowsOf, W!NoHand,
     WP!NoHand, W!NoGoroutine, WP!NoGoroutine, W!NoJob, WP!NoJob,
     W!NothingHeld, WP!NothingHeld, W!NoOutcome, WP!NoOutcome, W!Enqueue,
     WP!Enqueue, W!NameSent, WP!NameSent, W!InsertRow, WP!InsertRow,
     W!StartCtxExpires, WP!StartCtxExpires, W!DispatcherReturns,
     WP!DispatcherReturns, W!Receive, WP!Receive, W!Start, WP!Start,
     W!Key, WP!Key, W!Index, WP!Index, W!Goto, WP!Goto, W!ReturnWith,
     WP!ReturnWith, W!WriteStatus, WP!WriteStatus, W!QueryFails,
     WP!QueryFails, W!QueryFindsNotOne, WP!QueryFindsNotOne,
     W!QueryFindsRow, WP!QueryFindsRow, W!RestoreAccepted,
     WP!RestoreAccepted, W!RestoreRefused, WP!RestoreRefused,
     W!MarkFailed, WP!MarkFailed, W!PollSaysComplete,
     WP!PollSaysComplete, W!MarkSuccess, WP!MarkSuccess,
     W!MarkSuccessFails, WP!MarkSuccessFails, W!Timeout, WP!Timeout,
     W!MarkTimeout, WP!MarkTimeout, W!UpdateTaskStatus,
     WP!UpdateTaskStatus, W!Report, WP!Report, W!RecoveryCompletes,
     WP!RecoveryCompletes, W!Restart, WP!Restart, W!IndexPanic,
     WP!IndexPanic, W!WorkerStep, WP!WorkerStep, W!DispatcherStep,
     WP!DispatcherStep, W!Environment, WP!Environment, W!Next, WP!Next
<1> QED
  BY <1>1, <1>2, PTL DEF W!Spec, WP!Spec

-----------------------------------------------------------------------------
(* A step of the process is one of the reconciler or leaves it alone.       *)
LEMMA ReconcilerStep == [Next]_vars => [R!Next]_R!vars
<1> SUFFICES ASSUME [Next]_vars PROVE [R!Next]_R!vars
  OBVIOUS
<1>1. CASE Send \/ ReconcileGoesOn
  BY <1>1 DEF Send, ReconcileGoesOn, R!Reconcile, R!Next
<1>2. CASE ClusterStep
  BY <1>2 DEF ClusterStep, R!Next
<1>3. CASE Restart
  BY <1>3 DEF Restart, R!Next
<1>4. CASE \E t \in Tasks : Begin(t) \/ Created(t)
  BY <1>4 DEF Begin, Created, R!Next
<1>5. CASE \/ StoreStep
           \/ \E w \in Workers : Worker(w)
           \/ \E d \in W!Dispatchers : Dispatcher(d)
           \/ UNCHANGED vars
  <2>1. UNCHANGED reconciler
    BY <1>5 DEF StoreStep, Worker, Dispatcher, vars
  <2> QED
    BY <2>1 DEF reconciler, R!vars
<1> QED
  BY <1>1, <1>2, <1>3, <1>4, <1>5 DEF Next

(* The process is a reconciler: RestoreReconcile, whose send is never held  *)
(* up, allows everything that the composition with the workers does to the  *)
(* node sets, the workqueue and the RestoreTasks.                           *)
THEOREM ReconcilerImplemented == Spec => R!Spec
<1>1. Init => R!Init
  BY DEF Init
<1> QED
  BY <1>1, ReconcilerStep, PTL DEF Spec, R!Spec

(* Every send is paid for by an event, in the process as in its part.       *)
LEMMA SendsCounted == Spec => []RP!CountInv
BY RP!CountHolds, ReconcilerConstants, ReconcilerImplemented, SameReconciler, PTL
   DEF RP!ConstantsAssumption, RP!OriginalAssumption

(* A step of the process is one of the workers or leaves them alone.        *)
LEMMA WorkersStep == RP!CountInv /\ [Next]_vars => [W!Next]_W!vars
<1> SUFFICES ASSUME RP!CountInv, [Next]_vars PROVE [W!Next]_W!vars
  OBVIOUS
<1>1. CASE Send
  <2>1. current \in Tasks
    BY <1>1 DEF Send, R!Send, RP!CountInv, RP!CountTypes
  <2> QED
    BY <1>1, <2>1 DEF Send, W!Environment, W!Next
<1>2. CASE Restart
  BY <1>2 DEF Restart, W!Environment, W!Next
<1>3. CASE StoreStep
  BY <1>3 DEF StoreStep, W!Environment, W!Next
<1>4. CASE \E w \in Workers : Worker(w)
  BY <1>4 DEF Worker, W!Next
<1>5. CASE \E d \in W!Dispatchers : Dispatcher(d)
  BY <1>5 DEF Dispatcher, W!Next
<1>6. CASE \/ ReconcileGoesOn \/ ClusterStep \/ UNCHANGED vars
           \/ \E t \in Tasks : Begin(t) \/ Created(t)
  <2>1. UNCHANGED workers
    BY <1>6 DEF ReconcileGoesOn, ClusterStep, Begin, Created, vars
  <2> QED
    BY <2>1 DEF workers, W!vars
<1> QED
  BY <1>1, <1>2, <1>3, <1>4, <1>5, <1>6 DEF Next

(* The process is a set of workers: RestoreWorkers, whose senders come from *)
(* anywhere, allows everything that the composition with the reconciler     *)
(* does to the queue, the goroutines and the rows.                          *)
THEOREM WorkersImplemented == Spec => W!Spec
<1>1. Init => W!Init
  BY DEF Init
<1> QED
  BY <1>1, WorkersStep, SendsCounted, PTL DEF Spec, W!Spec

-----------------------------------------------------------------------------
(* The two counts of the sends, by RestoreTask and by key, agree: a key     *)
(* that was sent was sent for a RestoreTask that names it, and one that was *)
(* sent again for two of them, or for one of them twice.                    *)
Asker(t, k) == SpecKey[t] = k /\ sent[t] > 0

SentBy(k) ==
  /\ enqueued[k] # 0 => \E t \in Tasks : Asker(t, k)
  /\ enqueued[k] = 2 => \E t, u \in Tasks :
                          Asker(t, k) /\ Asker(u, k) /\ (t # u \/ sent[t] > 1)

SendsAgree == enqueued \in [Keys -> 0..2] /\ \A k \in Keys : SentBy(k)

(* Nothing was sent at the start.                                           *)
LEMMA AgreeInit == Init => SendsAgree
<1> SUFFICES ASSUME Init PROVE SendsAgree
  OBVIOUS
<1>1. enqueued = [k \in Keys |-> 0]
  BY DEF Init, W!Init
<1> QED
  BY <1>1 DEF SendsAgree, SentBy

(* Whatever is not the send leaves both counts alone.                       *)
LEMMA CountsStay == [Next]_vars => Send \/ UNCHANGED <<sent, enqueued>>
<1> SUFFICES ASSUME [Next]_vars, ~Send PROVE UNCHANGED <<sent, enqueued>>
  OBVIOUS
<1>1. CASE ReconcileGoesOn
  BY <1>1 DEF ReconcileGoesOn, R!GetTask, R!UpdateTask, R!NodeMissing, R!NodeFound,
              R!PatchES, R!GetSts, R!outside, workers
<1>2. CASE ClusterStep
  BY <1>2 DEF ClusterStep, R!Deleted, R!SpecChanged, R!Event, R!Operator, R!StsAppears,
              R!StsReady, R!StsUnready, R!StsRemoved, R!StsBecomes, R!CacheSyncs, workers
<1>3. CASE StoreStep
  BY <1>3 DEF StoreStep, W!InsertRow, W!RecoveryCompletes, W!StartCtxExpires,
              W!DispatcherReturns, reconciler
<1>4. CASE Restart
  BY <1>4 DEF Restart, R!Restart, W!Restart
<1>5. CASE \E t \in Tasks : Begin(t) \/ Created(t)
  BY <1>5 DEF Begin, Created, R!Begin, R!Created, R!Event, workers
<1>6. CASE \E w \in Workers : Worker(w)
  BY <1>6 DEF Worker, W!WorkerStep, W!QueryFails, W!QueryFindsNotOne, W!QueryFindsRow,
              W!IndexPanic, W!Restart, W!RestoreAccepted, W!RestoreRefused, W!MarkFailed,
              W!PollSaysComplete, W!MarkSuccess, W!MarkSuccessFails, W!Timeout,
              W!MarkTimeout, W!Report, reconciler
<1>7. CASE \E d \in W!Dispatchers : Dispatcher(d)
  BY <1>7 DEF Dispatcher, W!DispatcherStep, W!Receive, W!Start, reconciler
<1>8. CASE UNCHANGED vars
  BY <1>8 DEF vars, reconciler, workers
<1> QED
  BY <1>1, <1>2, <1>3, <1>4, <1>5, <1>6, <1>7, <1>8 DEF Next

(* A send counts in both, for the same RestoreTask.                         *)
LEMMA SendAgrees == ASSUME SendsAgree, RP!CountInv, Send PROVE SendsAgree'
<1>0. PICK s \in Tasks : s = current
  BY DEF Send, R!Send, RP!CountInv, RP!CountTypes
<1>1. /\ sent \in [Tasks -> Nat]
      /\ sent' = [sent EXCEPT ![s] = @ + 1]
  BY <1>0 DEF Send, R!Send, RP!CountInv, RP!CountTypes
<1>2. /\ SpecKey[s] \in Keys
      /\ enqueued' = [enqueued EXCEPT ![SpecKey[s]] = IF @ < 2 THEN @ + 1 ELSE @]
  BY <1>0, ServiceAssumption DEF Send, W!Enqueue
<1>3. \A t \in Tasks : sent'[t] \in Nat /\ sent[t] \in Nat /\ sent'[t] >= sent[t]
  BY <1>1
<1>4. sent'[s] = sent[s] + 1
  BY <1>1
<1>5. enqueued' \in [Keys -> 0..2]
  BY <1>2 DEF SendsAgree
<1>6. ASSUME NEW k \in Keys PROVE SentBy(k)'
  <2>1. SentBy(k) /\ enqueued[k] \in 0..2
    BY DEF SendsAgree
  <2>2. \A t \in Tasks : Asker(t, k) => Asker(t, k)'
    BY <1>3 DEF Asker
  <2>3. CASE k # SpecKey[s]
    <3>1. enqueued'[k] = enqueued[k]
      BY <1>2, <2>3 DEF SendsAgree
    <3> QED
      BY <2>1, <2>2, <1>3, <3>1 DEF SentBy
  <2>4. CASE k = SpecKey[s]
    <3>1. Asker(s, k)'
      BY <1>1, <1>3, <1>4, <2>4 DEF Asker
    <3>2. CASE enqueued[k] = 0
      <4>1. enqueued'[k] = 1
        BY <1>2, <2>4, <3>2 DEF SendsAgree
      <4> QED
        BY <1>1, <3>1, <4>1 DEF SentBy
    <3>3. CASE enqueued[k] # 0
      <4>1. PICK t \in Tasks : Asker(t, k)
        BY <2>1, <3>3 DEF SentBy
      <4>2. t # s \/ sent'[s] > 1
        BY <1>1, <1>4, <4>1 DEF Asker
      <4> QED
        BY <1>1, <2>2, <3>1, <4>1, <4>2 DEF SentBy
    <3> QED
      BY <3>2, <3>3
  <2> QED
    BY <2>3, <2>4
<1> QED
  BY <1>5, <1>6 DEF SendsAgree

(* The counts agree at all times.                                           *)
LEMMA CountsAgree == Spec => []SendsAgree
<1>1. SendsAgree /\ RP!CountInv /\ [Next]_vars => SendsAgree'
  <2>1. ASSUME SendsAgree, UNCHANGED <<sent, enqueued>> PROVE SendsAgree'
    BY <2>1 DEF SendsAgree, SentBy, Asker
  <2> QED
    BY <2>1, CountsStay, SendAgrees
<1> QED
  BY <1>1, AgreeInit, SendsCounted, PTL DEF Spec

(* Of two sends for one RestoreTask each had its event.                     *)
LEMMA TwoEvents ==
  ASSUME RP!CountInv, NEW t \in Tasks, sent[t] > 1
  PROVE  events[t] > 1
<1>1. sent[t] + RP!Claim(t) <= events[t] /\ sent[t] \in Nat /\ events[t] \in Nat
  BY DEF RP!CountInv, RP!CountTypes, RP!SendsPaidByEvents
<1>2. RP!Claim(t) \in 0..2
  BY DEF RP!Claim
<1> QED
  BY <1>1, <1>2

(* What stands behind a key that was sent again.                            *)
LEMMA AskedAgain ==
  ASSUME RP!CountInv, SendsAgree, NEW k \in Keys, enqueued[k] = 2
  PROVE  LET askers == {t \in Tasks : SpecKey[t] = k /\ sent[t] > 0}
         IN  \/ \E t, u \in askers : t # u
             \/ \E t \in askers : events[t] > 1
<1>1. PICK t, u \in Tasks : Asker(t, k) /\ Asker(u, k) /\ (t # u \/ sent[t] > 1)
  BY DEF SendsAgree, SentBy
<1>2. sent[t] > 1 => events[t] > 1
  BY TwoEvents
<1> QED
  BY <1>1, <1>2 DEF Asker

(* The verdict of a row is a verdict on a key.                              *)
LEMMA RowTyped ==
  ASSUME WP!TypeOK, NEW r \in Rows, row[r] # NoRow, row[r].status # ""
  PROVE  row[r].key \in Keys /\ row[r].status \in WP!Verdicts
BY DEF WP!TypeOK, WP!RowValue

(* A verdict is written over only when the RestoreTask behind it had a      *)
(* second event (a change, or a restart of the process), when another       *)
(* RestoreTask names the same task and index, or by the goroutine that      *)
(* wrote it and was answered by an error: for any number of RestoreTasks,   *)
(* workers and restarts.                                                    *)
THEOREM VerdictsRewrittenOnlyIfAsked == Spec => RewrittenOnlyIfAskedAgain
<1>1. Spec => WP!VerdictIsFinal /\ []WP!TypeOK
  BY WP!VerdictsAreFinal, WP!TypeCorrect, WorkersConstants, WorkersImplemented,
     SameWorkers, PTL DEF WP!ConstantsAssumption
<1>2. /\ RP!CountInv /\ WP!TypeOK /\ SendsAgree
      /\ [\A r \in Rows :
             /\ row[r] # NoRow
             /\ row[r].status \in WP!Verdicts
             /\ row'[r] # row[r]
             => \/ enqueued[row[r].key] = 2
                \/ /\ row[r].status = "SUCCESS" /\ row'[r].status = "TIMEOUT"
                   /\ \E w \in Workers : WP!Doubts(w, r)]_WP!vars
      => [\A r \in Rows :
            /\ row[r] # NoRow /\ row[r].status # ""
            /\ row'[r] # row[r]
            => LET askers == {t \in Tasks : SpecKey[t] = row[r].key /\ sent[t] > 0}
               IN  \/ \E t, u \in askers : t # u
                   \/ \E t \in askers : events[t] > 1
                   \/ /\ row[r].status = "SUCCESS" /\ row'[r].status = "TIMEOUT"
                      /\ \E w \in Workers : W!Doubts(w, r)]_vars
  BY AskedAgain, RowTyped DEF WP!vars, vars, workers, W!Doubts, WP!Doubts
<1> QED
  BY <1>1, <1>2, SendsCounted, CountsAgree, PTL
     DEF WP!VerdictIsFinal, RewrittenOnlyIfAskedAgain

(* The parts keep their promises in the process as they do alone: every     *)
(* goroutine holds its slot, a verdict has its restore and a restore one    *)
(* verdict, every send has its event, and Reconcile adds no second node set *)
(* of a name.                                                               *)
THEOREM PartsKeepTheirPromises ==
  Spec => [](/\ W!SlotsAccounted /\ W!VerdictHasRestore /\ W!OneRowPerRestore
            /\ R!SendsPaidByEvents /\ R!OneNodeSetPerName)
<1>1. Spec => []WP!IInv
  BY WP!IInvHolds, WorkersConstants, WorkersImplemented, SameWorkers, PTL
     DEF WP!ConstantsAssumption
<1>2. Spec => []RP!SendsPaidByEvents /\ []RP!OneNodeSetPerName
  BY RP!SendsArePaid, RP!NamesStaySingle, ReconcilerConstants, ReconcilerImplemented,
     SameReconciler, PTL DEF RP!ConstantsAssumption, RP!OriginalAssumption
<1>3. WP!IInv => W!SlotsAccounted /\ W!VerdictHasRestore /\ W!OneRowPerRestore
  BY DEF WP!IInv, WP!ClaimsAreUnique,
         W!SlotsAccounted, WP!SlotsAccounted, W!Active, WP!Active,
         W!Cardinality, WP!Cardinality,
         W!VerdictHasRestore, WP!VerdictHasRestore, W!Claims, WP!Claims,
         W!OneRowPerRestore, WP!OneRowPerRestore
<1>4. RP!SendsPaidByEvents => R!SendsPaidByEvents
  BY DEF R!SendsPaidByEvents, RP!SendsPaidByEvents, R!Claim, RP!Claim
<1>5. RP!OneNodeSetPerName => R!OneNodeSetPerName
  BY DEF R!OneNodeSetPerName, RP!OneNodeSetPerName, R!Named, RP!Named,
         R!Nodes, RP!Nodes, R!TaskNodes, RP!TaskNodes
<1> QED
  BY <1>1, <1>2, <1>3, <1>4, <1>5, PTL
=============================================================================
