--------------------------- MODULE RestoreWorkers ---------------------------
(***************************************************************************)
(* The restore workers of RestoreTaskReconciler                            *)
(* (internal/controller/controller/restoretask_controller.go).             *)
(*                                                                         *)
(* Reconcile sends a task on the buffered channel taskQueue.  Two          *)
(* dispatcher goroutines, one started by NewRestoreReconcilerCtrl and one  *)
(* by its OnStart hook, receive from it, take a slot of the semaphore sem  *)
(* and start a goroutine that restores the task's index: it looks up the   *)
(* task's row, asks Elasticsearch for the restore, polls until the index   *)
(* is there or a timer fires, writes its verdict in the row, reports on    *)
(* the RestoreTask and gives the slot back.                                *)
(*                                                                         *)
(* Every call to the database, to Elasticsearch or to the API server is a  *)
(* step of its own, so goroutines interleave between any two of them.      *)
(* The queue, the dispatchers, the slots and the goroutines are lost when  *)
(* the process dies; rows, indices and RestoreTasks are not.               *)
(***************************************************************************)
EXTENDS Naturals, Sequences, FiniteSets

CONSTANTS
  Tasks,             \* the RestoreTask objects, by name
  Keys,              \* the values of (TaskID, Indices[0]) in their specs
  Indices,           \* the source indices
  IndexOf,           \* IndexOf[k]: the Indices[0] of key k
  SpecKey,           \* SpecKey[t]: the key in the spec of t
  NoIndices,         \* SpecKey of a task whose spec.indices is empty
  Rows,              \* the primary keys of the table tasks
  Workers,           \* the goroutines that may run restoreIndices
  LiveSources,       \* the indices of which _cat/recovery prints "100%"
  MaxTasks,          \* capacity of taskQueue
  Concurrency,       \* capacity of sem
  IndexColumnParses, \* does the SQL dialect accept the bare column name index?
  StatusSubresource, \* does the CRD of RestoreTask have a status subresource?
  DbFaults,          \* may a statement fail that the database could execute?
  NoTask, NoRow

ASSUME ConstantsAssumption ==
  /\ MaxTasks \in Nat \ {0}
  /\ Concurrency \in Nat
  /\ IsFiniteSet(Workers)
  /\ SpecKey \in [Tasks -> Keys \cup {NoIndices}]
  /\ NoIndices \notin Keys
  /\ NoTask \notin Tasks
  /\ NoRow \notin Rows
  /\ NoRow \notin [key : Keys, status : {"", "SUCCESS", "FAILED", "TIMEOUT"}]
  /\ IndexOf \in [Keys -> Indices]
  /\ LiveSources \subseteq Indices
  /\ {IndexColumnParses, StatusSubresource, DbFaults} \subseteq BOOLEAN

VARIABLES
  queue,        \* taskQueue: the tasks sent and not yet received
  hand,         \* hand[d]: the task dispatcher d received and waits to start
  returned,     \* the dispatchers whose loop has returned
  startCtxDone, \* has the context of the OnStart hook expired?
  sem,          \* the number of tokens in the channel sem
  pc,           \* pc[w]: what goroutine w does next; "none": it does not exist
  job,          \* job[w]: its parameter, task
  held,         \* held[w]: the row it found, task_one
  outcome,      \* outcome[w]: the status it will report; until then "unsure"
                \* (history) once an UPDATE to SUCCESS returned an error
  row,          \* the table tasks
  restored,     \* restored[i]: the index Elasticsearch makes from a snapshot of i
  taskStatus,   \* taskStatus[t]: Status.Status of the RestoreTask t
  sent          \* history: how often a key was sent, 0, 1 or 2 for more

memory == <<queue, hand, returned, startCtxDone, sem, pc, job, held, outcome>>
store == <<row, restored, taskStatus>>
vars == <<queue, hand, returned, startCtxDone, sem, pc, job, held, outcome,
          row, restored, taskStatus, sent>>

Dispatchers == {"background", "onStart"}
Verdicts == {"SUCCESS", "FAILED", "TIMEOUT"}
RowValue == [key : Keys, status : Verdicts \cup {""}]
ProgramCounter == {"none", "query", "restore", "markFailed", "select",
                   "markSuccess", "markTimeout", "report"}

Active == {w \in Workers : pc[w] # "none"}
RowsOf(k) == {r \in Rows : row[r] # NoRow /\ row[r].key = k}

TypeOK ==
  /\ queue \in Seq(Tasks)
  /\ hand \in [Dispatchers -> Tasks \cup {NoTask}]
  /\ returned \in SUBSET Dispatchers
  /\ startCtxDone \in BOOLEAN
  /\ sem \in Nat
  /\ pc \in [Workers -> ProgramCounter]
  /\ job \in [Workers -> Tasks \cup {NoTask}]
  /\ held \in [Workers -> Rows \cup {NoRow}]
  /\ outcome \in [Workers -> {"none", "unsure", "done", "failed"}]
  /\ row \in [Rows -> RowValue \cup {NoRow}]
  /\ restored \in [Indices -> {"absent", "recovering", "recovered"}]
  /\ taskStatus \in [Tasks -> {"", "done", "failed"}]
  /\ sent \in [Keys -> 0..2]

-----------------------------------------------------------------------------
(* NewRestoreTaskReconciler: the channels are made empty and both           *)
(* dispatchers are started before any task is sent.                         *)
NoHand == [d \in Dispatchers |-> NoTask]
NoGoroutine == [w \in Workers |-> "none"]
NoJob == [w \in Workers |-> NoTask]
NothingHeld == [w \in Workers |-> NoRow]
NoOutcome == [w \in Workers |-> "none"]

Init ==
  /\ queue = <<>> /\ hand = NoHand /\ returned = {} /\ startCtxDone = FALSE
  /\ sem = 0 /\ pc = NoGoroutine /\ job = NoJob /\ held = NothingHeld
  /\ outcome = NoOutcome
  /\ row = [r \in Rows |-> NoRow]
  /\ restored = [i \in Indices |-> "absent"]
  /\ taskStatus = [t \in Tasks |-> ""]
  /\ sent = [k \in Keys |-> 0]

(* Reconcile of t reaches its last statement: r.taskQueue <- &RestoreTask.  *)
(* The send blocks while the buffer is full.                                *)
Enqueue(t) ==
  /\ Len(queue) < MaxTasks
  /\ queue' = Append(queue, t)
  /\ sent' = IF SpecKey[t] \in Keys
             THEN [sent EXCEPT ![SpecKey[t]] = IF @ < 2 THEN @ + 1 ELSE @]
             ELSE sent
  /\ UNCHANGED <<hand, returned, startCtxDone, sem, pc, job, held, outcome, store>>

(* The literal that is sent sets TaskID and Index only: Namespace and Name  *)
(* stay empty, and no object has the empty name.                            *)
NameSent(t) == NoTask

(* RestoreViaCR inserts the row of a task: db.CreateRecords leaves Status   *)
(* empty, and nothing keeps a key from having several rows.                 *)
InsertRow(r, k) ==
  /\ row[r] = NoRow
  /\ row' = [row EXCEPT ![r] = [key |-> k, status |-> ""]]
  /\ UNCHANGED <<memory, restored, taskStatus, sent>>

-----------------------------------------------------------------------------
(* StartWorker.  The context of the OnStart hook is fx's start context,     *)
(* which expires; that of the other dispatcher is context.Background().     *)
StartCtxExpires ==
  /\ ~startCtxDone
  /\ startCtxDone' = TRUE
  /\ UNCHANGED <<queue, hand, returned, sem, pc, job, held, outcome, store, sent>>

(* Mutant: both dispatchers are given the start context.                    *)
EitherReturns ==
  /\ startCtxDone
  /\ \E d \in Dispatchers :
       d \notin returned /\ hand[d] = NoTask /\ returned' = returned \cup {d}
  /\ UNCHANGED <<queue, hand, startCtxDone, sem, pc, job, held, outcome, store, sent>>

DispatcherReturns ==
  /\ startCtxDone
  /\ "onStart" \notin returned
  /\ hand["onStart"] = NoTask
  /\ returned' = returned \cup {"onStart"}
  /\ UNCHANGED <<queue, hand, startCtxDone, sem, pc, job, held, outcome, store, sent>>

Receive(d) ==
  /\ d \notin returned
  /\ hand[d] = NoTask
  /\ queue # <<>>
  /\ hand' = [hand EXCEPT ![d] = Head(queue)]
  /\ queue' = Tail(queue)
  /\ UNCHANGED <<returned, startCtxDone, sem, pc, job, held, outcome, store, sent>>

(* Mutant of Start: the goroutine is started before the slot is taken.      *)
StartWithoutSlot(d, w) ==
  /\ hand[d] # NoTask
  /\ pc[w] = "none"
  /\ sem' = sem + 1
  /\ pc' = [pc EXCEPT ![w] = "query"]
  /\ job' = [job EXCEPT ![w] = hand[d]]
  /\ hand' = [hand EXCEPT ![d] = NoTask]
  /\ UNCHANGED <<queue, returned, startCtxDone, held, outcome, store, sent>>

(* r.sem <- struct{}{} blocks while the channel holds Concurrency tokens;   *)
(* then the goroutine is started.                                           *)
Start(d, w) ==
  /\ hand[d] # NoTask
  /\ sem < Concurrency
  /\ pc[w] = "none"
  /\ sem' = sem + 1
  /\ pc' = [pc EXCEPT ![w] = "query"]
  /\ job' = [job EXCEPT ![w] = hand[d]]
  /\ hand' = [hand EXCEPT ![d] = NoTask]
  /\ UNCHANGED <<queue, returned, startCtxDone, held, outcome, store, sent>>

-----------------------------------------------------------------------------
(* restoreIndices(job[w]).                                                  *)
Key(w) == SpecKey[job[w]]
Index(w) == IndexOf[Key(w)]
Goto(w, l) == pc' = [pc EXCEPT ![w] = l]

ReturnWith(w, status) ==
  /\ Goto(w, "report")
  /\ outcome' = [outcome EXCEPT ![w] = status]

(* The row, if the UPDATE of its status is committed.  A statement that      *)
(* returns an error may have been: the answer to its commit can be lost.    *)
WriteStatus(w, status) == row' = [row EXCEPT ![held[w]].status = status]

(* db.QueryAll with "task_id = ? and index = ?" fails.                      *)
QueryFails(w) ==
  /\ pc[w] = "query"
  /\ Key(w) # NoIndices
  /\ ~IndexColumnParses \/ DbFaults
  /\ ReturnWith(w, "failed")
  /\ UNCHANGED <<queue, hand, returned, startCtxDone, sem, job, held, store, sent>>

(* len(t) != 1: the function returns err, which is nil on this path.        *)
QueryFindsNotOne(w) ==
  /\ pc[w] = "query"
  /\ Key(w) # NoIndices
  /\ IndexColumnParses
  /\ ~ \E r \in Rows : RowsOf(Key(w)) = {r}
  /\ ReturnWith(w, "done")
  /\ UNCHANGED <<queue, hand, returned, startCtxDone, sem, job, held, store, sent>>

QueryFindsRow(w) ==
  /\ pc[w] = "query"
  /\ Key(w) # NoIndices
  /\ IndexColumnParses
  /\ \E r \in Rows : RowsOf(Key(w)) = {r} /\ held' = [held EXCEPT ![w] = r]
  /\ Goto(w, "restore")
  /\ UNCHANGED <<queue, hand, returned, startCtxDone, sem, job, outcome, store, sent>>

(* ES.Restore asks for an index renamed after the repository and the source *)
(* index, whichever task asks.  Elasticsearch accepts only while no such    *)
(* index exists, and its answer may be lost.                                *)
RestoreAccepted(w) ==
  /\ pc[w] = "restore"
  /\ restored[Index(w)] = "absent"
  /\ restored' = [restored EXCEPT ![Index(w)] = "recovering"]
  /\ \E answered \in BOOLEAN : Goto(w, IF answered THEN "select" ELSE "markFailed")
  /\ UNCHANGED <<queue, hand, returned, startCtxDone, sem, job, held, outcome,
                 row, taskStatus, sent>>

(* Mutant of RestoreRefused: the error is logged and polling begins.        *)
RefusalIgnored(w) ==
  /\ pc[w] = "restore"
  /\ Goto(w, "select")
  /\ UNCHANGED <<queue, hand, returned, startCtxDone, sem, job, held, outcome, store, sent>>

RestoreRefused(w) ==
  /\ pc[w] = "restore"
  /\ Goto(w, "markFailed")
  /\ UNCHANGED <<queue, hand, returned, startCtxDone, sem, job, held, outcome, store, sent>>

MarkFailed(w) ==
  /\ pc[w] = "markFailed"
  /\ WriteStatus(w, "FAILED") \/ (DbFaults /\ UNCHANGED row)
  /\ ReturnWith(w, "failed")
  /\ UNCHANGED <<queue, hand, returned, startCtxDone, sem, job, held,
                 restored, taskStatus, sent>>

(* case <-ticker.C: GetRestoreIndexProcess is asked about task_one.Index,   *)
(* the source index, not the index being restored.  Only the text "100%"    *)
(* leaves the loop; an error, no answer or any other text makes it wait on. *)
(* Elasticsearch prints "100.0%", for which LiveSources is empty: then the  *)
(* step is never taken, and the others are as they are.                     *)
PollSaysComplete(w) ==
  /\ pc[w] = "select"
  /\ Index(w) \in LiveSources
  /\ Goto(w, "markSuccess")
  /\ UNCHANGED <<queue, hand, returned, startCtxDone, sem, job, held, outcome, store, sent>>

(* Mutant of MarkSuccess: the loop goes on after the verdict.               *)
SuccessKeepsPolling(w) ==
  /\ pc[w] = "markSuccess"
  /\ WriteStatus(w, "SUCCESS")
  /\ Goto(w, "select")
  /\ UNCHANGED <<queue, hand, returned, startCtxDone, sem, job, held, outcome,
                 restored, taskStatus, sent>>

MarkSuccess(w) ==
  /\ pc[w] = "markSuccess"
  /\ WriteStatus(w, "SUCCESS")
  /\ ReturnWith(w, "done")
  /\ UNCHANGED <<queue, hand, returned, startCtxDone, sem, job, held,
                 restored, taskStatus, sent>>

(* The UPDATE returns an error, committed or not: continue, and the next     *)
(* tick polls again.                                                        *)
MarkSuccessFails(w) ==
  /\ pc[w] = "markSuccess"
  /\ DbFaults
  /\ WriteStatus(w, "SUCCESS") \/ UNCHANGED row
  /\ Goto(w, "select")
  /\ outcome' = [outcome EXCEPT ![w] = "unsure"]
  /\ UNCHANGED <<queue, hand, returned, startCtxDone, sem, job, held,
                 restored, taskStatus, sent>>

(* Mutant of Timeout: the case breaks out of the select, not of the loop.   *)
TimeoutBreaks(w) == pc[w] = "select" /\ UNCHANGED vars

(* case <-timeout.                                                          *)
Timeout(w) ==
  /\ pc[w] = "select"
  /\ Goto(w, "markTimeout")
  /\ UNCHANGED <<queue, hand, returned, startCtxDone, sem, job, held, outcome, store, sent>>

MarkTimeout(w) ==
  /\ pc[w] = "markTimeout"
  /\ WriteStatus(w, "TIMEOUT") \/ (DbFaults /\ UNCHANGED row)
  /\ ReturnWith(w, "failed")
  /\ UNCHANGED <<queue, hand, returned, startCtxDone, sem, job, held,
                 restored, taskStatus, sent>>

(* updateTaskStatus: r.Get by name, then an Update of the main resource,    *)
(* which ignores the status when the CRD has a status subresource.          *)
UpdateTaskStatus(name, status) ==
  taskStatus' = IF name \in Tasks /\ ~StatusSubresource
                THEN [taskStatus EXCEPT ![name] = status] ELSE taskStatus

(* Mutants of Report: the slot is kept, or given back twice.                *)
ReportReleasing(w, slots) ==
  /\ pc[w] = "report"
  /\ UpdateTaskStatus(NameSent(job[w]), outcome[w])
  /\ sem' = sem - slots
  /\ Goto(w, "none")
  /\ job' = [job EXCEPT ![w] = NoTask]
  /\ held' = [held EXCEPT ![w] = NoRow]
  /\ outcome' = [outcome EXCEPT ![w] = "none"]
  /\ UNCHANGED <<queue, hand, returned, startCtxDone, row, restored, sent>>

ReportKeepsSlot(w) == ReportReleasing(w, 0)
ReportReleasesTwice(w) == ReportReleasing(w, 2)

(* The goroutine reports, and its deferred <-r.sem gives the slot back.     *)
Report(w) ==
  /\ pc[w] = "report"
  /\ UpdateTaskStatus(NameSent(job[w]), outcome[w])
  /\ sem' = sem - 1
  /\ Goto(w, "none")
  /\ job' = [job EXCEPT ![w] = NoTask]
  /\ held' = [held EXCEPT ![w] = NoRow]
  /\ outcome' = [outcome EXCEPT ![w] = "none"]
  /\ UNCHANGED <<queue, hand, returned, startCtxDone, row, restored, sent>>

-----------------------------------------------------------------------------
(* Elasticsearch finishes the recovery of a restored index.                 *)
RecoveryCompletes(i) ==
  /\ restored[i] = "recovering"
  /\ restored' = [restored EXCEPT ![i] = "recovered"]
  /\ UNCHANGED <<memory, row, taskStatus, sent>>

(* The process dies and is started again.                                   *)
Restart ==
  /\ queue' = <<>> /\ hand' = NoHand /\ returned' = {} /\ startCtxDone' = FALSE
  /\ sem' = 0 /\ pc' = NoGoroutine /\ job' = NoJob /\ held' = NothingHeld
  /\ outcome' = NoOutcome
  /\ UNCHANGED <<store, sent>>

(* task.Index[0] of an empty slice panics, and nothing recovers it in the   *)
(* goroutine: the whole process dies.                                       *)
IndexPanic(w) ==
  /\ pc[w] = "query"
  /\ Key(w) = NoIndices
  /\ Restart

WorkerStep(w) ==
  \/ QueryFails(w) \/ QueryFindsNotOne(w) \/ QueryFindsRow(w) \/ IndexPanic(w)
  \/ RestoreAccepted(w) \/ RestoreRefused(w) \/ MarkFailed(w)
  \/ PollSaysComplete(w) \/ MarkSuccess(w) \/ MarkSuccessFails(w)
  \/ Timeout(w) \/ MarkTimeout(w) \/ Report(w)

DispatcherStep(d) == Receive(d) \/ \E w \in Workers : Start(d, w)

Environment ==
  \/ \E t \in Tasks : Enqueue(t)
  \/ \E r \in Rows, k \in Keys : InsertRow(r, k)
  \/ \E i \in Indices : RecoveryCompletes(i)
  \/ StartCtxExpires
  \/ Restart

Next ==
  \/ DispatcherReturns
  \/ \E d \in Dispatchers : DispatcherStep(d)
  \/ \E w \in Workers : WorkerStep(w)
  \/ Environment

Spec == Init /\ [][Next]_vars

(* The Go scheduler runs every runnable goroutine and every call returns.   *)
(* Senders blocked on sem are served in turn, and select chooses at random  *)
(* among the ready cases, so neither is passed over for ever.               *)
Fairness ==
  /\ WF_vars(Receive("background"))
  /\ \A d \in Dispatchers : SF_vars(\E w \in Workers : Start(d, w))
  /\ \A w \in Workers :
       /\ WF_vars(WorkerStep(w))
       /\ SF_vars(Timeout(w))

FairSpec == Spec /\ Fairness

-----------------------------------------------------------------------------
(* Every running goroutine holds one slot of sem, and a slot is only held   *)
(* by a running goroutine: es.concurrency bounds the restores, and no exit  *)
(* from restoreIndices leaks a slot or returns it twice.                    *)
SlotsAccounted ==
  /\ sem = Cardinality(Active)
  /\ sem <= Concurrency

Claims(r) == row[r] # NoRow /\ row[r].status \in {"SUCCESS", "TIMEOUT"}

(* A row says SUCCESS or TIMEOUT only of a restore that Elasticsearch has   *)
(* accepted: every failed request leaves by the FAILED branch.              *)
VerdictHasRestore ==
  \A r \in Rows : Claims(r) => restored[IndexOf[row[r].key]] # "absent"

(* Elasticsearch restores an index once, so at most one row takes credit:   *)
(* of the tasks that ask for the same index, or ask again, all but one are  *)
(* told FAILED, in whichever order their goroutines ask and write.          *)
OneRowPerRestore ==
  \A r1, r2 \in Rows :
    Claims(r1) /\ Claims(r2) /\ IndexOf[row[r1].key] = IndexOf[row[r2].key]
      => r1 = r2

(* Who may take credit: a row that says so, or a goroutine whose request    *)
(* was accepted and that has not yet written its verdict in its row.        *)
Polling(w) == pc[w] \in {"select", "markSuccess", "markTimeout"}
HasRow(w) == pc[w] \in {"restore", "markFailed"} \/ Polling(w)

(* A goroutine that goes on after its query holds a row of its task's key.  *)
RowHeld ==
  \A w \in Workers :
    /\ pc[w] # "none" => job[w] \in Tasks
    /\ HasRow(w) => /\ held[w] \in Rows
                    /\ row[held[w]] # NoRow
                    /\ row[held[w]].key = Key(w)

(* A goroutine that polls on because its UPDATE of r returned an error.     *)
Doubts(w, r) == held[w] = r /\ outcome[w] = "unsure"

(* The claims on restored indices, of rows and of goroutines together: each *)
(* is backed by an accepted request and no index is claimed twice, but by a *)
(* goroutine and the row it could not be sure to have updated.  The two     *)
(* invariants above are what this one says of rows.                         *)
ClaimsAreUnique ==
  /\ \A w \in Workers :
       Polling(w) =>
         /\ restored[Index(w)] # "absent"
         /\ \A v \in Workers : Polling(v) /\ Index(v) = Index(w) => v = w
         /\ \A r \in Rows :
              Claims(r) /\ IndexOf[row[r].key] = Index(w) => Doubts(w, r)
  /\ VerdictHasRestore
  /\ OneRowPerRestore

(* The inductive invariant.                                                 *)
IInv == TypeOK /\ SlotsAccounted /\ RowHeld /\ ClaimsAreUnique

(* Once a row has a verdict it keeps it, unless its key was sent again: one *)
(* run of restoreIndices writes at most one verdict, however its ticks, its *)
(* timer and its failed statements interleave.  The one exception is that   *)
(* of a retry: SUCCESS was committed, its UPDATE returned an error all the  *)
(* same, and the timer fires before the next try.                           *)
VerdictIsFinal ==
  [][\A r \in Rows :
       /\ row[r] # NoRow
       /\ row[r].status \in Verdicts
       /\ row'[r] # row[r]
       => \/ sent[row[r].key] = 2
          \/ /\ row[r].status = "SUCCESS" /\ row'[r].status = "TIMEOUT"
             /\ \E w \in Workers : Doubts(w, r)]_vars

(* A goroutine gives its slot back in the end, whatever the database and    *)
(* Elasticsearch answer.                                                    *)
SlotReturned == \A w \in Workers : pc[w] # "none" ~> pc[w] = "none"

(* A Reconcile blocked on a full taskQueue is unblocked in the end.         *)
FullQueueDrains == Len(queue) = MaxTasks ~> Len(queue) < MaxTasks
=============================================================================
