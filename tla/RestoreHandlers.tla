--------------------------- MODULE RestoreHandlers ---------------------------
(***************************************************************************)
(* The HTTP handlers that write the task table (internal/http/handler.go): *)
(* NewTask, CreateRestoreNode and RestoreViaCR.  Every request runs in a   *)
(* goroutine of its own; each statement of the database and each call to   *)
(* the API server is a step and may fail, and the process may die between  *)
(* any two.  One that returns an error may have been carried out all the   *)
(* same: the answer can be lost.                                           *)
(*                                                                         *)
(* The patch that adds a node set is modelled by its outcome; what it does *)
(* to the list is in RestoreReconcile.  The restore workers write verdicts *)
(* in the same table; how they reach them is in RestoreWorkers.  RestoreViaCR *)
(* has no route yet (RegisterHandler).                                     *)
(***************************************************************************)
EXTENDS Naturals, Sequences

CONSTANTS
  TaskRequests,  \* requests PUT /task
  NodeRequests,  \* requests PUT /node
  CRRequests,    \* requests to RestoreViaCR
  TaskId,        \* TaskId[q]: the new uuid, or the task_id in the body
  Items,         \* Items[q]: the tasks in the body of a CR request, a sequence
  Quantities,    \* node requests whose size is a Kubernetes quantity
  MaxRows        \* bound on the rows of the task table

Requests == TaskRequests \cup NodeRequests \cup CRRequests

ASSUME ConstantsAssumption ==
  /\ TaskRequests \cap NodeRequests = {} /\ TaskRequests \cap CRRequests = {}
  /\ NodeRequests \cap CRRequests = {}
  /\ \A q \in CRRequests : Items[q] \in Seq([id : STRING, index : STRING])
  /\ Quantities \subseteq NodeRequests
  /\ MaxRows \in Nat

VARIABLES
  tasks,    \* the task table: rows in the order of their primary keys
  crs,      \* the RestoreTask objects: the request and the item they come from
  at,       \* at[q]: the next step of the handler of q
  held,     \* held[q]: primary key of the row in the variable t of q, or 0
  item,     \* item[q]: the element of r.Tasks that the loop of q is at
  success,  \* success[q]: elements in success_taskes
  failed,   \* failed[q]: elements in failed_taskes
  patched   \* history: node requests whose node set the API server has taken

vars == <<tasks, crs, at, held, item, success, failed, patched>>

Status == {"", "PENDING", "RUNNING", "SUCCESS", "FAILED", "TIMEOUT"}
Verdicts == {"SUCCESS", "FAILED", "TIMEOUT"}

(* The steps of a handler; it ends with an answer, in a panic that gin      *)
(* answers, not knowing whether its last UPDATE was done, or in a crash.    *)
Step == {"start", "update", "patch", "fail", "insert", "create",
         "answered", "refused", "panicked", "unmarked", "crashed"}
Ended == {"answered", "refused", "panicked", "unmarked", "crashed"}

TypeOK ==
  /\ \A r \in DOMAIN tasks : /\ DOMAIN tasks[r] = {"id", "index", "status", "stage"}
                             /\ tasks[r].status \in Status
                             /\ tasks[r].stage \in {"", "CREATE_ES_NODE"}
  /\ Len(tasks) <= MaxRows
  /\ \A c \in crs : c[1] \in CRRequests /\ c[2] \in DOMAIN Items[c[1]]
  /\ at \in [Requests -> Step]
  /\ \A q \in NodeRequests : held[q] \in 0..Len(tasks)
  /\ \A q \in CRRequests : /\ item[q] \in 1..Len(Items[q]) + 1
                           /\ success[q] \cup failed[q] \subseteq 1..item[q]
  /\ patched \subseteq NodeRequests

Init ==
  /\ tasks = <<>> /\ crs = {}
  /\ at = [q \in Requests |-> "start"]
  /\ held = [q \in NodeRequests |-> 0]
  /\ item = [q \in CRRequests |-> 1]
  /\ success = [q \in CRRequests |-> {}]
  /\ failed = [q \in CRRequests |-> {}]
  /\ patched = {}

Goto(q, step) == at' = [at EXCEPT ![q] = step]
Row(id, index, status) ==
  [id |-> id, index |-> index, status |-> status, stage |-> ""]
Insert(r) == Len(tasks) < MaxRows /\ tasks' = Append(tasks, r)

-----------------------------------------------------------------------------
(* PUT /task.                                                               *)
NewTask(q) ==
  /\ at[q] = "start"
  /\ \/ Insert(Row(TaskId[q], "", "PENDING")) /\ Goto(q, "answered")
     \/ Insert(Row(TaskId[q], "", "PENDING")) /\ Goto(q, "refused")
     \/ UNCHANGED tasks /\ Goto(q, "refused")
  /\ UNCHANGED <<crs, held, item, success, failed, patched>>

-----------------------------------------------------------------------------
(* PUT /node: find the row, mark it, patch, and mark it again on an error.  *)
WithId(id) == {r \in DOMAIN tasks : tasks[r].id = id}

FindRow(q) ==
  /\ at[q] = "start"
  /\ \/ \E r \in WithId(TaskId[q]) :
          /\ WithId(TaskId[q]) = {r}
          /\ held' = [held EXCEPT ![q] = r]
          /\ Goto(q, "update")
     \/ Goto(q, "refused") /\ UNCHANGED held   \* no row, several, or an error
  /\ UNCHANGED <<tasks, crs, item, success, failed, patched>>

(* Mutant: the error of the update is not returned. *)
MarkRunningGoesOn(q) ==
  /\ at[q] = "update"
  /\ Goto(q, "patch")
  /\ \/ tasks' = [tasks EXCEPT ![held[q]].status = "RUNNING",
                                ![held[q]].stage = "CREATE_ES_NODE"]
     \/ UNCHANGED tasks
  /\ UNCHANGED <<crs, held, item, success, failed, patched>>

(* The status the row has by now does not matter.                           *)
MarkRunning(q) ==
  /\ at[q] = "update"
  /\ \/ /\ tasks' = [tasks EXCEPT ![held[q]].status = "RUNNING",
                                  ![held[q]].stage = "CREATE_ES_NODE"]
        /\ Goto(q, "patch") \/ Goto(q, "unmarked")
     \/ UNCHANGED tasks /\ Goto(q, "unmarked")
  /\ UNCHANGED <<crs, held, item, success, failed, patched>>

(* Mutant: the error is answered but not written to the row. *)
PatchNodeUnmarked(q) ==
  /\ at[q] = "patch" /\ q \in Quantities
  /\ \/ patched' = patched \cup {q} /\ Goto(q, "answered")
     \/ patched' \in {patched, patched \cup {q}} /\ Goto(q, "refused")
  /\ UNCHANGED <<tasks, crs, held, item, success, failed>>

(* NewRestoreESNode.  An error may hide that the server took the patch.     *)
PatchNode(q) ==
  /\ at[q] = "patch" /\ q \in Quantities
  /\ \/ patched' = patched \cup {q} /\ Goto(q, "answered")
     \/ patched' \in {patched, patched \cup {q}} /\ Goto(q, "fail")
  /\ UNCHANGED <<tasks, crs, held, item, success, failed>>

(* resource.MustParse of the size.                                          *)
SizePanics(q) ==
  /\ at[q] = "patch" /\ q \notin Quantities
  /\ Goto(q, "panicked")
  /\ UNCHANGED <<tasks, crs, held, item, success, failed, patched>>

(* Mutant: the status of the RestoreTask, RestoreStatusFailed, in the row. *)
MarkFailedInLowerCase(q) ==
  /\ at[q] = "fail"
  /\ \/ tasks' = [tasks EXCEPT ![held[q]].status = "failed"] /\ Goto(q, "refused")
     \/ Goto(q, "unmarked") /\ UNCHANGED tasks
  /\ UNCHANGED <<crs, held, item, success, failed, patched>>

MarkFailed(q) ==
  /\ at[q] = "fail"
  /\ \/ /\ tasks' = [tasks EXCEPT ![held[q]].status = "FAILED"]
        /\ Goto(q, "refused") \/ Goto(q, "unmarked")
     \/ UNCHANGED tasks /\ Goto(q, "unmarked")
  /\ UNCHANGED <<crs, held, item, success, failed, patched>>

-----------------------------------------------------------------------------
(* RestoreViaCR: for each task a row and then a RestoreTask.                *)
Item(q) == Items[q][item[q]]

Begin(q) ==
  /\ at[q] = "start"
  /\ Goto(q, "insert")
  /\ UNCHANGED <<tasks, crs, held, item, success, failed, patched>>

NextItem(q) == item' = [item EXCEPT ![q] = @ + 1] /\ Goto(q, "insert")

(* Mutant: the branch for an error has no continue. *)
InsertRowGoesOn(q) ==
  /\ at[q] = "insert" /\ item[q] <= Len(Items[q])
  /\ Goto(q, "create")
  /\ \/ Insert(Row(Item(q).id, Item(q).index, "")) /\ UNCHANGED failed
     \/ failed' = [failed EXCEPT ![q] = @ \cup {item[q]}] /\ UNCHANGED tasks
  /\ UNCHANGED <<crs, held, item, success, patched>>

(* The row says nothing of a status.                                        *)
InsertRow(q) ==
  /\ at[q] = "insert" /\ item[q] <= Len(Items[q])
  /\ \/ /\ Insert(Row(Item(q).id, Item(q).index, ""))
        /\ Goto(q, "create")
        /\ UNCHANGED <<item, failed>>
     \/ /\ Insert(Row(Item(q).id, Item(q).index, "")) \/ UNCHANGED tasks
        /\ failed' = [failed EXCEPT ![q] = @ \cup {item[q]}]
        /\ NextItem(q)
  /\ UNCHANGED <<crs, held, success, patched>>

(* Mutant: the error is answered but the task is not listed as failed. *)
CreateCRUnlisted(q) ==
  /\ at[q] = "create"
  /\ crs' \in {crs, crs \cup {<<q, item[q]>>}}
  /\ success' = [success EXCEPT ![q] = @ \cup {item[q]}]
  /\ NextItem(q)
  /\ UNCHANGED <<tasks, held, failed, patched>>

(* The branch for an error has no continue.                                 *)
CreateCR(q) ==
  /\ at[q] = "create"
  /\ \/ crs' = crs \cup {<<q, item[q]>>} /\ UNCHANGED failed
     \/ /\ crs' \in {crs, crs \cup {<<q, item[q]>>}}
        /\ failed' = [failed EXCEPT ![q] = @ \cup {item[q]}]
  /\ success' = [success EXCEPT ![q] = @ \cup {item[q]}]
  /\ NextItem(q)
  /\ UNCHANGED <<tasks, held, patched>>

Answer(q) ==
  /\ at[q] = "insert" /\ item[q] > Len(Items[q])
  /\ Goto(q, IF failed[q] = {} THEN "answered" ELSE "refused")
  /\ UNCHANGED <<tasks, crs, held, item, success, failed, patched>>

-----------------------------------------------------------------------------
(* A restore worker ends the task of a RestoreTask.  It looked for the row  *)
(* by id and index when that was the only one: there may be more by now.    *)
Verdict(c, status) ==
  LET i == Items[c[1]][c[2]]
      matches == {r \in WithId(i.id) : tasks[r].index = i.index}
  IN \E r \in matches :
       /\ \A p \in matches : r <= p
       /\ tasks' = [tasks EXCEPT ![r].status = status]
       /\ UNCHANGED <<crs, at, held, item, success, failed, patched>>

(* Handlers that have not ended are gone with the process.                  *)
Crash ==
  /\ at' = [q \in Requests |-> IF at[q] \in Ended \cup {"start"} THEN at[q] ELSE "crashed"]
  /\ UNCHANGED <<tasks, crs, held, item, success, failed, patched>>

CreateRestoreNode(q) ==
  FindRow(q) \/ MarkRunning(q) \/ PatchNode(q) \/ SizePanics(q) \/ MarkFailed(q)

RestoreViaCR(q) == Begin(q) \/ InsertRow(q) \/ CreateCR(q) \/ Answer(q)

Next ==
  \/ \E q \in TaskRequests : NewTask(q)
  \/ \E q \in NodeRequests : CreateRestoreNode(q)
  \/ \E q \in CRRequests : RestoreViaCR(q)
  \/ \E c \in crs, status \in Verdicts : Verdict(c, status)
  \/ Crash

Spec == Init /\ [][Next]_vars

-----------------------------------------------------------------------------
(* RUNNING is never what a request leaves that could tell the row that its  *)
(* node failed: whoever wrote it is still at it, has its node, was cut off  *)
(* by a panic or a crash, or had an UPDATE answered by an error, of RUNNING *)
(* itself (it was written all the same) or of FAILED after it.  Two         *)
(* requests for one task, and a verdict of the workers, may come between    *)
(* its two writes.                                                          *)
RunningIsExplained ==
  \A r \in DOMAIN tasks :
    tasks[r].status = "RUNNING" =>
      \E q \in NodeRequests :
        /\ held[q] = r
        /\ \/ at[q] \in {"patch", "fail", "panicked", "unmarked", "crashed"}
           \/ at[q] = "answered" /\ q \in patched

(* A node set that a request has added is on record in the task table, also *)
(* after a crash and whatever became of the status.                         *)
NodesAreRecorded ==
  \A q \in patched : held[q] # 0 /\ tasks[held[q]].stage = "CREATE_ES_NODE"

(* A RestoreTask never exists without the row that its worker looks for.    *)
CRHasRow ==
  \A c \in crs : \E r \in DOMAIN tasks :
    /\ tasks[r].id = Items[c[1]][c[2]].id
    /\ tasks[r].index = Items[c[1]][c[2]].index

(* When the handler ends by itself every task of its body is in one of the  *)
(* lists, and one that is not in failed_taskes has its RestoreTask.         *)
ListsTellAll ==
  \A q \in CRRequests : at[q] \in {"answered", "refused"} =>
    /\ success[q] \cup failed[q] = DOMAIN Items[q]
    /\ \A i \in success[q] \ failed[q] : <<q, i>> \in crs

=============================================================================
