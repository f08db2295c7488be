----------------------- MODULE RestoreHandlers_proofs -----------------------
(***************************************************************************)
(* What the handlers leave in the task table, for any number of requests,  *)
(* any bodies and any number of rows.                                      *)
(*                                                                         *)
(* Rows are never removed and never change their task and index; that the  *)
(* node is being made is never taken back (RowsKept).  From this and from  *)
(* what a handler has done by the time it is at a step the properties      *)
(* follow.                                                                 *)
(***************************************************************************)
EXTENDS RestoreHandlers, SequenceTheorems, TLAPS

(* What the variables hold.                                                 *)
Rows == [id : {TaskId[q] : q \in TaskRequests} \cup STRING, index : {""} \cup STRING,
         status : Status, stage : {"", "CREATE_ES_NODE"}]

Types ==
  /\ tasks \in Seq(Rows)
  /\ at \in [Requests -> Step]
  /\ held \in [NodeRequests -> Nat]
  /\ item \in [CRRequests -> Nat]
  /\ success \in [CRRequests -> SUBSET Nat]
  /\ failed \in [CRRequests -> SUBSET Nat]
  /\ patched \subseteq NodeRequests

(* A handler holds a row that is there, and is at an item of its list.      *)
Bounds ==
  /\ Len(tasks) <= MaxRows
  /\ \A q \in NodeRequests : held[q] <= Len(tasks)
  /\ \A q \in CRRequests : item[q] \in 1..Len(Items[q]) + 1
  /\ \A q \in CRRequests : at[q] = "create" => item[q] <= Len(Items[q])
  /\ \A c \in crs : c[1] \in CRRequests /\ c[2] \in DOMAIN Items[c[1]]

(* A handler past FindRow holds a row, and past MarkRunning that is on      *)
(* record; only then does it patch.                                         *)
HoldsRow ==
  \A q \in NodeRequests :
    /\ at[q] = "update" => held[q] # 0
    /\ at[q] \in {"patch", "fail"} =>
         held[q] # 0 /\ tasks[held[q]].stage = "CREATE_ES_NODE"
    /\ at[q] \in {"start", "update"} => q \notin patched

(* The table has a row for item i.                                          *)
RowOf(i) == \E r \in 1..Len(tasks) : tasks[r].id = i.id /\ tasks[r].index = i.index

(* Between its two calls for an item RestoreViaCR has inserted the row.     *)
RowFirst == \A q \in CRRequests : at[q] = "create" => RowOf(Item(q))

(* The lists hold the items before the current one.                         *)
Listed ==
  \A q \in CRRequests :
    /\ at[q] = "start" => item[q] = 1 /\ success[q] \cup failed[q] = {}
    /\ at[q] \in {"insert", "create"} =>
         success[q] \cup failed[q] = 1..item[q] - 1
    /\ success[q] \cup failed[q] \subseteq 1..item[q]
    /\ \A i \in success[q] \ failed[q] : <<q, i>> \in crs

(* Every RestoreTask has its row.                                           *)
CRRows == \A c \in crs : RowOf(Items[c[1]][c[2]])

(* The inductive invariant.                                                 *)
HInv ==
  /\ Types /\ Bounds
  /\ HoldsRow /\ NodesAreRecorded /\ RunningIsExplained
  /\ RowFirst /\ CRRows
  /\ Listed /\ ListsTellAll

-----------------------------------------------------------------------------
(* The task table.                                                          *)
RowsKept ==
  /\ tasks' \in Seq(Rows)
  /\ Len(tasks) <= Len(tasks')
  /\ \A r \in 1..Len(tasks) :
       /\ tasks'[r].id = tasks[r].id
       /\ tasks'[r].index = tasks[r].index
       /\ tasks[r].stage = "CREATE_ES_NODE" => tasks'[r].stage = "CREATE_ES_NODE"

(* A new row comes after the others.                                        *)
LEMMA InsertKeeps ==
  ASSUME tasks \in Seq(Rows), NEW r \in Rows, Insert(r)
  PROVE  /\ RowsKept
         /\ Len(tasks') = Len(tasks) + 1 /\ Len(tasks') <= MaxRows
         /\ tasks'[Len(tasks')] = r
         /\ \A i \in 1..Len(tasks) : tasks'[i] = tasks[i]
<1>1. /\ tasks' \in Seq(Rows)
      /\ Len(tasks') = Len(tasks) + 1
      /\ tasks'[Len(tasks')] = r
      /\ \A i \in 1..Len(tasks) : tasks'[i] = tasks[i]
  BY DEF Insert
<1>2. Len(tasks) \in Nat /\ Len(tasks) < MaxRows /\ MaxRows \in Nat
  BY ConstantsAssumption DEF Insert
<1> QED
  BY <1>1, <1>2 DEF RowsKept

(* An update changes the status, and perhaps the stage, of one row.         *)
LEMMA UpdateKeeps ==
  ASSUME tasks \in Seq(Rows), NEW h \in 1..Len(tasks), NEW status \in Status,
         NEW stage \in {tasks[h].stage, "CREATE_ES_NODE"},
         tasks' = [tasks EXCEPT ![h].status = status, ![h].stage = stage]
  PROVE  /\ RowsKept
         /\ Len(tasks') = Len(tasks)
         /\ tasks'[h].status = status /\ tasks'[h].stage = stage
         /\ \A i \in 1..Len(tasks) : i # h => tasks'[i] = tasks[i]
<1> DEFINE row == [tasks[h] EXCEPT !.status = status, !.stage = stage]
<1>0. tasks \in [1..Len(tasks) -> Rows] /\ Len(tasks) \in Nat
  OBVIOUS
<1>1. tasks[h] \in Rows
  BY <1>0
<1>2. /\ row \in Rows
      /\ row.id = tasks[h].id /\ row.index = tasks[h].index
      /\ row.status = status /\ row.stage = stage
  BY <1>1 DEF Rows
<1>3. tasks' = [tasks EXCEPT ![h] = row]
  BY <1>0, <1>1 DEF Rows
<1> HIDE DEF row
<1>4. tasks' \in Seq(Rows) /\ Len(tasks') = Len(tasks)
  BY <1>2, <1>3, ExceptSeq
<1>5. /\ tasks'[h] = row
      /\ \A i \in 1..Len(tasks) : i # h => tasks'[i] = tasks[i]
  BY <1>0, <1>3
<1>6. /\ tasks'[h].status = status /\ tasks'[h].stage = stage
      /\ tasks'[h].id = tasks[h].id /\ tasks'[h].index = tasks[h].index
  BY <1>2, <1>5
<1> QED
  BY <1>4, <1>5, <1>6 DEF RowsKept

(* A table that is left alone keeps its rows.                               *)
LEMMA NothingChanges == ASSUME Types, UNCHANGED tasks PROVE RowsKept
BY DEF Types, RowsKept

(* An item that has a row goes on having one.                               *)
LEMMA RowOfKept == ASSUME Types, RowsKept, NEW i, RowOf(i) PROVE RowOf(i)'
<1>1. PICK r \in 1..Len(tasks) : tasks[r].id = i.id /\ tasks[r].index = i.index
  BY DEF RowOf
<1>2. r \in 1..Len(tasks')
  <2>1. Len(tasks) \in Nat /\ Len(tasks') \in Nat /\ Len(tasks) <= Len(tasks')
    BY DEF Types, RowsKept
  <2> QED
    BY <2>1
<1> QED
  BY <1>1, <1>2 DEF RowOf, RowsKept

-----------------------------------------------------------------------------
(* Steps that no PUT /node takes.                                           *)
LEMMA NodeQuiet ==
  ASSUME HInv, RowsKept, UNCHANGED <<held, patched>>,
         \A p \in NodeRequests : at'[p] = at[p]
  PROVE  HoldsRow' /\ NodesAreRecorded'
<1>1. ASSUME NEW p \in NodeRequests, held[p] # 0 PROVE held[p] \in 1..Len(tasks)
  <2>1. held[p] \in Nat /\ Len(tasks) \in Nat /\ held[p] <= Len(tasks)
    BY DEF HInv, Types, Bounds
  <2> QED
    BY <1>1, <2>1
<1>2. HoldsRow'
  BY <1>1 DEF HInv, HoldsRow, RowsKept
<1>3. NodesAreRecorded'
  BY <1>1 DEF HInv, Types, NodesAreRecorded, RowsKept
<1> QED
  BY <1>2, <1>3

(* Steps in which no row becomes RUNNING and no PUT /node goes on.          *)
LEMMA StatusQuiet ==
  ASSUME HInv, tasks' \in Seq(Rows), UNCHANGED <<held, patched>>,
         \A p \in NodeRequests : at'[p] = at[p],
         \A r \in 1..Len(tasks') :
           tasks'[r].status = "RUNNING" => r \in 1..Len(tasks) /\ tasks[r].status = "RUNNING"
  PROVE  RunningIsExplained'
<1>1. DOMAIN tasks = 1..Len(tasks) /\ DOMAIN tasks' = 1..Len(tasks')
  BY DEF HInv, Types
<1> QED
  BY <1>1 DEF HInv, RunningIsExplained

(* Steps that no request to RestoreViaCR takes.                             *)
LEMMA CRQuiet ==
  ASSUME HInv, RowsKept, UNCHANGED <<crs, item, success, failed>>,
         \A p \in CRRequests : at'[p] = at[p]
  PROVE  RowFirst' /\ CRRows' /\ Listed' /\ ListsTellAll'
<1>1. RowFirst'
  <2> SUFFICES ASSUME NEW p \in CRRequests, at'[p] = "create" PROVE RowOf(Item(p))'
    BY DEF RowFirst
  <2>1. RowOf(Item(p))
    BY DEF HInv, RowFirst
  <2>2. Item(p)' = Item(p)
    BY DEF Item
  <2> QED
    BY <2>1, <2>2, RowOfKept DEF HInv, RowOf, RowsKept
<1>2. CRRows'
  BY RowOfKept DEF HInv, CRRows
<1>3. Listed' /\ ListsTellAll'
  BY DEF HInv, Listed, ListsTellAll
<1> QED
  BY <1>1, <1>2, <1>3

-----------------------------------------------------------------------------
(* PUT /task.                                                               *)
LEMMA NewTaskPreserves ==
  ASSUME HInv, NEW q \in TaskRequests, NewTask(q)
  PROVE  HInv'
<1>0. Types /\ Bounds
  BY DEF HInv
<1>1. /\ q \notin NodeRequests /\ q \notin CRRequests /\ q \in Requests
  BY ConstantsAssumption DEF Requests
<1>2. /\ \A p \in NodeRequests : at'[p] = at[p]
      /\ \A p \in CRRequests : at'[p] = at[p]
      /\ at' \in [Requests -> Step]
      /\ UNCHANGED <<crs, held, item, success, failed, patched>>
  BY <1>0, <1>1 DEF NewTask, Goto, Types, Requests, Step
<1>3. Row(TaskId[q], "", "PENDING") \in Rows
  BY DEF Row, Rows, Status
<1>4. /\ RowsKept /\ Len(tasks') <= MaxRows
      /\ \A r \in 1..Len(tasks') :
           tasks'[r].status = "RUNNING" => r \in 1..Len(tasks) /\ tasks[r].status = "RUNNING"
  <2>1. CASE UNCHANGED tasks
    BY <1>0, <2>1, NothingChanges DEF Bounds, Types
  <2>2. CASE Insert(Row(TaskId[q], "", "PENDING"))
    <3>1. /\ RowsKept
          /\ Len(tasks') = Len(tasks) + 1 /\ Len(tasks') <= MaxRows
          /\ tasks'[Len(tasks')] = Row(TaskId[q], "", "PENDING")
          /\ \A i \in 1..Len(tasks) : tasks'[i] = tasks[i]
      BY <1>0, <1>3, <2>2, InsertKeeps DEF Types
    <3>2. Row(TaskId[q], "", "PENDING").status # "RUNNING"
      BY DEF Row
    <3>3. Len(tasks) \in Nat
      BY <1>0 DEF Types
    <3>4. \A r \in 1..Len(tasks') : r \in 1..Len(tasks) \/ r = Len(tasks')
      <4>1. Len(tasks') = Len(tasks) + 1
        BY <3>1
      <4> QED
        BY <3>3, <4>1
    <3> QED
      BY <3>1, <3>2, <3>4
  <2> QED
    BY <2>1, <2>2 DEF NewTask
<1>5. Types'
  BY <1>0, <1>2, <1>4 DEF Types, RowsKept
<1>6. Bounds'
  BY <1>0, <1>2, <1>4 DEF Bounds, Types, RowsKept
<1> QED
  BY <1>2, <1>4, <1>5, <1>6, NodeQuiet, StatusQuiet, CRQuiet DEF HInv, RowsKept

-----------------------------------------------------------------------------
(* A verdict goes to a row that is there, and is not RUNNING.               *)
LEMMA VerdictPreserves ==
  ASSUME HInv, NEW c \in crs, NEW status \in Verdicts, Verdict(c, status)
  PROVE  HInv'
<1>0. Types /\ Bounds
  BY DEF HInv
<1>1. PICK h \in 1..Len(tasks) :
        /\ tasks' = [tasks EXCEPT ![h].status = status]
        /\ UNCHANGED <<crs, at, held, item, success, failed, patched>>
  <2>1. WithId(Items[c[1]][c[2]].id) \subseteq 1..Len(tasks)
    BY <1>0 DEF WithId, Types
  <2> QED
    BY <2>1 DEF Verdict
<1>2. /\ tasks \in Seq(Rows) /\ tasks[h] \in Rows
  BY <1>0 DEF Types
<1>3. tasks' = [tasks EXCEPT ![h].status = status, ![h].stage = tasks[h].stage]
  BY <1>1, <1>2 DEF Rows
<1>4. /\ RowsKept /\ Len(tasks') = Len(tasks)
      /\ tasks'[h].status = status
      /\ \A i \in 1..Len(tasks) : i # h => tasks'[i] = tasks[i]
  BY <1>2, <1>3, UpdateKeeps DEF Verdicts, Status
<1>5. \A r \in 1..Len(tasks') :
        tasks'[r].status = "RUNNING" => r \in 1..Len(tasks) /\ tasks[r].status = "RUNNING"
  BY <1>4 DEF Verdicts
<1>6. Types'
  BY <1>0, <1>1, <1>4 DEF Types, RowsKept
<1>7. Bounds'
  BY <1>0, <1>1, <1>4 DEF Bounds
<1> QED
  BY <1>1, <1>4, <1>5, <1>6, <1>7, NodeQuiet, StatusQuiet, CRQuiet DEF HInv, RowsKept

-----------------------------------------------------------------------------
(* What PUT /node does to the step of q, and to no other.                   *)
LEMMA NodeMoves ==
  ASSUME Types, NEW q \in NodeRequests, NEW step \in Step, Goto(q, step)
  PROVE  /\ at' \in [Requests -> Step] /\ at'[q] = step
         /\ \A p \in Requests \ {q} : at'[p] = at[p]
         /\ \A p \in CRRequests : at'[p] = at[p]
BY ConstantsAssumption DEF Types, Goto, Requests

(* FindRow holds a row of the table.                                        *)
LEMMA FindRowPreserves ==
  ASSUME HInv, NEW q \in NodeRequests, FindRow(q)
  PROVE  HInv'
<1>0. Types /\ Bounds /\ HoldsRow /\ NodesAreRecorded /\ RunningIsExplained
  BY DEF HInv
<1>1. /\ UNCHANGED <<tasks, crs, item, success, failed, patched>>
      /\ at[q] = "start"
  BY DEF FindRow
<1>2. PICK step \in {"update", "refused"} : Goto(q, step)
  BY DEF FindRow
<1>3. /\ at' \in [Requests -> Step] /\ at'[q] = step
      /\ \A p \in Requests \ {q} : at'[p] = at[p]
      /\ \A p \in CRRequests : at'[p] = at[p]
  BY <1>0, <1>2, NodeMoves DEF Step
<1>4. /\ held' \in [NodeRequests -> Nat]
      /\ \A p \in NodeRequests \ {q} : held'[p] = held[p]
      /\ step = "update" => held'[q] # 0
      /\ held'[q] = held[q] \/ held'[q] \in 1..Len(tasks)
  <2>1. CASE UNCHANGED held /\ step = "refused"
    BY <1>0, <2>1 DEF Types
  <2>2. CASE \E r \in DOMAIN tasks : held' = [held EXCEPT ![q] = r]
    <3>1. DOMAIN tasks = 1..Len(tasks) /\ Len(tasks) \in Nat
      BY <1>0 DEF Types
    <3>2. PICK r \in 1..Len(tasks) : held' = [held EXCEPT ![q] = r]
      BY <2>2, <3>1
    <3>3. r \in Nat /\ r # 0
      BY <3>1
    <3> QED
      BY <1>0, <3>2, <3>3 DEF Types
  <2> QED
    BY <1>2, <1>3, <2>1, <2>2 DEF FindRow, WithId, Goto, Types, Requests
<1>5. Types' /\ Bounds'
  <2>1. Len(tasks) \in Nat /\ \A p \in NodeRequests : held'[p] <= Len(tasks)
    <3>1. Len(tasks) \in Nat
      BY <1>0 DEF Types
    <3>2. held[q] <= Len(tasks)
      BY <1>0 DEF Bounds
    <3>3. held'[q] <= Len(tasks)
      BY <1>4, <3>1, <3>2
    <3> QED
      BY <1>0, <1>4, <3>1, <3>3 DEF Bounds
  <2>2. Types'
    BY <1>0, <1>1, <1>3, <1>4 DEF Types
  <2>3. Bounds'
    BY <1>0, <1>1, <1>3, <2>1 DEF Bounds
  <2> QED
    BY <2>2, <2>3
<1>6. HoldsRow' /\ NodesAreRecorded'
  <2>1. \A p \in NodeRequests : p # q => at'[p] = at[p] /\ held'[p] = held[p]
    BY <1>3, <1>4 DEF Requests
  <2>2. q \notin patched
    BY <1>0, <1>1 DEF HoldsRow
  <2>3. HoldsRow'
    BY <1>0, <1>1, <1>3, <1>4, <2>1, <2>2 DEF HoldsRow
  <2>4. NodesAreRecorded'
    BY <1>0, <1>1, <2>1, <2>2 DEF NodesAreRecorded, Types
  <2> QED
    BY <2>3, <2>4
<1>7. RunningIsExplained'
  BY <1>0, <1>1, <1>3, <1>4 DEF RunningIsExplained, Requests
<1>8. RowFirst' /\ CRRows' /\ Listed' /\ ListsTellAll'
  BY <1>0, <1>1, <1>3, NothingChanges, CRQuiet
<1> QED
  BY <1>1, <1>5, <1>6, <1>7, <1>8 DEF HInv

(* MarkRunning writes the row that the handler holds, and explains it.      *)
LEMMA MarkRunningPreserves ==
  ASSUME HInv, NEW q \in NodeRequests, MarkRunning(q)
  PROVE  HInv'
<1> DEFINE h == held[q]
<1>0. Types /\ Bounds /\ HoldsRow /\ NodesAreRecorded /\ RunningIsExplained
  BY DEF HInv
<1>1. /\ UNCHANGED <<crs, held, item, success, failed, patched>>
      /\ at[q] = "update"
  BY DEF MarkRunning
<1>2. PICK step \in {"patch", "unmarked"} :
        /\ Goto(q, step)
        /\ \/ tasks' = [tasks EXCEPT ![h].status = "RUNNING", ![h].stage = "CREATE_ES_NODE"]
           \/ step = "unmarked" /\ UNCHANGED tasks
  BY DEF MarkRunning
<1>3. /\ at' \in [Requests -> Step] /\ at'[q] = step
      /\ \A p \in Requests \ {q} : at'[p] = at[p]
      /\ \A p \in CRRequests : at'[p] = at[p]
  BY <1>0, <1>2, NodeMoves DEF Step
<1>4. h \in 1..Len(tasks) /\ q \notin patched
  <2>1. h # 0 /\ q \notin patched
    BY <1>0, <1>1 DEF HoldsRow
  <2>2. h \in Nat /\ h <= Len(tasks) /\ Len(tasks) \in Nat
    BY <1>0 DEF Types, Bounds
  <2> QED
    BY <2>1, <2>2
<1> HIDE DEF h
<1>5. /\ RowsKept /\ Len(tasks') = Len(tasks)
      /\ step = "patch" => tasks'[h].stage = "CREATE_ES_NODE"
      /\ \A r \in 1..Len(tasks) :
           tasks'[r].status = "RUNNING" /\ r # h => tasks[r].status = "RUNNING"
  <2>1. CASE step = "unmarked" /\ UNCHANGED tasks
    BY <1>0, <2>1, NothingChanges
  <2>2. CASE tasks' = [tasks EXCEPT ![h].status = "RUNNING", ![h].stage = "CREATE_ES_NODE"]
    <3>1. "RUNNING" \in Status /\ tasks \in Seq(Rows)
      BY <1>0 DEF Status, Types
    <3>2. /\ RowsKept /\ Len(tasks') = Len(tasks)
          /\ tasks'[h].stage = "CREATE_ES_NODE"
          /\ \A i \in 1..Len(tasks) : i # h => tasks'[i] = tasks[i]
      BY <1>4, <2>2, <3>1, UpdateKeeps
    <3> QED
      BY <2>2, <3>2
  <2> QED
    BY <1>2, <2>1, <2>2
<1>6. Types' /\ Bounds'
  BY <1>0, <1>1, <1>3, <1>5 DEF Types, Bounds, RowsKept
<1>7. \A p \in NodeRequests : held[p] # 0 => held[p] \in 1..Len(tasks)
  <2>1. \A p \in NodeRequests : held[p] \in Nat /\ held[p] <= Len(tasks)
    BY <1>0 DEF Types, Bounds
  <2>2. Len(tasks) \in Nat
    BY <1>0 DEF Types
  <2> QED
    BY <2>1, <2>2
<1>8. HoldsRow' /\ NodesAreRecorded'
  <2>1. \A p \in NodeRequests : p # q => at'[p] = at[p]
    BY <1>3 DEF Requests
  <2>2. HoldsRow'
    BY <1>0, <1>1, <1>3, <1>4, <1>5, <1>7, <2>1 DEF HoldsRow, RowsKept, h
  <2>3. NodesAreRecorded'
    BY <1>0, <1>1, <1>5, <1>7 DEF NodesAreRecorded, RowsKept, Types
  <2> QED
    BY <2>2, <2>3
<1>9. RunningIsExplained'
  <2>1. DOMAIN tasks = 1..Len(tasks) /\ DOMAIN tasks' = 1..Len(tasks)
    BY <1>0, <1>5 DEF Types, RowsKept
  <2>2. \A p \in NodeRequests : p # q => at'[p] = at[p]
    BY <1>3 DEF Requests
  <2> QED
    BY <1>0, <1>1, <1>3, <1>5, <2>1, <2>2 DEF RunningIsExplained, h
<1>10. RowFirst' /\ CRRows' /\ Listed' /\ ListsTellAll'
  BY <1>1, <1>3, <1>5, CRQuiet
<1> QED
  BY <1>6, <1>8, <1>9, <1>10 DEF HInv

(* The two outcomes of NewRestoreESNode, and the panic before it.           *)
LEMMA PatchPreserves ==
  ASSUME HInv, NEW q \in NodeRequests, PatchNode(q) \/ SizePanics(q)
  PROVE  HInv'
<1>0. Types /\ Bounds /\ HoldsRow /\ NodesAreRecorded /\ RunningIsExplained
  BY DEF HInv
<1>1. /\ UNCHANGED <<tasks, crs, held, item, success, failed>>
      /\ at[q] = "patch"
      /\ patched' = patched \/ patched' = patched \cup {q}
  BY DEF PatchNode, SizePanics
<1>2. PICK step \in {"answered", "fail", "panicked"} :
        Goto(q, step) /\ (step = "answered" => q \in patched')
  BY DEF PatchNode, SizePanics
<1>3. /\ at' \in [Requests -> Step] /\ at'[q] = step
      /\ \A p \in Requests \ {q} : at'[p] = at[p]
      /\ \A p \in CRRequests : at'[p] = at[p]
  BY <1>0, <1>2, NodeMoves DEF Step
<1>4. \A p \in NodeRequests : p # q => at'[p] = at[p] /\ (p \in patched' <=> p \in patched)
  BY <1>1, <1>3 DEF Requests
<1>5. held[q] # 0 /\ tasks[held[q]].stage = "CREATE_ES_NODE"
  BY <1>0, <1>1 DEF HoldsRow
<1>6. Types' /\ Bounds'
  BY <1>0, <1>1, <1>3 DEF Types, Bounds
<1>7. HoldsRow'
  BY <1>0, <1>1, <1>2, <1>3, <1>4, <1>5 DEF HoldsRow
<1>8. NodesAreRecorded'
  BY <1>0, <1>1, <1>5 DEF NodesAreRecorded
<1>9. RunningIsExplained'
  BY <1>0, <1>1, <1>2, <1>3, <1>4 DEF RunningIsExplained
<1>10. RowFirst' /\ CRRows' /\ Listed' /\ ListsTellAll'
  BY <1>0, <1>1, <1>3, NothingChanges, CRQuiet
<1> QED
  BY <1>6, <1>7, <1>8, <1>9, <1>10 DEF HInv

(* MarkFailed takes RUNNING back from the row it holds, unless it fails.     *)
LEMMA MarkFailedPreserves ==
  ASSUME HInv, NEW q \in NodeRequests, MarkFailed(q)
  PROVE  HInv'
<1> DEFINE h == held[q]
<1>0. Types /\ Bounds /\ HoldsRow /\ NodesAreRecorded /\ RunningIsExplained
  BY DEF HInv
<1>1. /\ UNCHANGED <<crs, held, item, success, failed, patched>>
      /\ at[q] = "fail"
  BY DEF MarkFailed
<1>2. PICK step \in {"refused", "unmarked"} :
        /\ Goto(q, step)
        /\ \/ tasks' = [tasks EXCEPT ![h].status = "FAILED"]
           \/ step = "unmarked" /\ UNCHANGED tasks
  BY DEF MarkFailed
<1>3. /\ at' \in [Requests -> Step] /\ at'[q] = step
      /\ \A p \in Requests \ {q} : at'[p] = at[p]
      /\ \A p \in CRRequests : at'[p] = at[p]
  BY <1>0, <1>2, NodeMoves DEF Step
<1>4. h \in 1..Len(tasks)
  <2>1. h # 0
    BY <1>0, <1>1 DEF HoldsRow
  <2>2. h \in Nat /\ h <= Len(tasks) /\ Len(tasks) \in Nat
    BY <1>0 DEF Types, Bounds
  <2> QED
    BY <2>1, <2>2
<1> HIDE DEF h
<1>5. /\ RowsKept /\ Len(tasks') = Len(tasks)
      /\ step = "refused" => tasks'[h].status = "FAILED"
      /\ \A r \in 1..Len(tasks) : tasks'[r].status = "RUNNING" => tasks[r].status = "RUNNING"
  <2>1. CASE step = "unmarked" /\ UNCHANGED tasks
    BY <1>0, <2>1, NothingChanges
  <2>2. CASE tasks' = [tasks EXCEPT ![h].status = "FAILED"]
    <3>1. "FAILED" \in Status /\ tasks \in Seq(Rows) /\ tasks[h] \in Rows
      BY <1>0, <1>4 DEF Status, Types
    <3>2. tasks' = [tasks EXCEPT ![h].status = "FAILED", ![h].stage = tasks[h].stage]
      BY <2>2, <3>1 DEF Rows
    <3>3. /\ RowsKept /\ Len(tasks') = Len(tasks)
          /\ tasks'[h].status = "FAILED"
          /\ \A i \in 1..Len(tasks) : i # h => tasks'[i] = tasks[i]
      BY <1>4, <3>1, <3>2, UpdateKeeps
    <3> QED
      BY <3>3
  <2> QED
    BY <1>2, <2>1, <2>2
<1>6. Types' /\ Bounds'
  BY <1>0, <1>1, <1>3, <1>5 DEF Types, Bounds, RowsKept
<1>7. \A p \in NodeRequests : held[p] # 0 => held[p] \in 1..Len(tasks)
  <2>1. \A p \in NodeRequests : held[p] \in Nat /\ held[p] <= Len(tasks)
    BY <1>0 DEF Types, Bounds
  <2>2. Len(tasks) \in Nat
    BY <1>0 DEF Types
  <2> QED
    BY <2>1, <2>2
<1>8. HoldsRow' /\ NodesAreRecorded'
  <2>1. \A p \in NodeRequests : p # q => at'[p] = at[p]
    BY <1>3 DEF Requests
  <2>2. HoldsRow'
    BY <1>0, <1>1, <1>3, <1>5, <1>7, <2>1 DEF HoldsRow, RowsKept
  <2>3. NodesAreRecorded'
    BY <1>0, <1>1, <1>5, <1>7 DEF NodesAreRecorded, RowsKept, Types
  <2> QED
    BY <2>2, <2>3
<1>9. RunningIsExplained'
  <2>1. DOMAIN tasks = 1..Len(tasks) /\ DOMAIN tasks' = 1..Len(tasks)
    BY <1>0, <1>5 DEF Types, RowsKept
  <2>2. \A p \in NodeRequests : p # q => at'[p] = at[p]
    BY <1>3 DEF Requests
  <2> SUFFICES ASSUME NEW r \in 1..Len(tasks), tasks'[r].status = "RUNNING"
               PROVE  \E p \in NodeRequests :
                        /\ held[p] = r
                        /\ \/ at'[p] \in {"patch", "fail", "panicked", "unmarked", "crashed"}
                           \/ at'[p] = "answered" /\ p \in patched
    BY <1>1, <2>1 DEF RunningIsExplained
  <2>3. PICK p \in NodeRequests :
          /\ held[p] = r
          /\ \/ at[p] \in {"patch", "fail", "panicked", "unmarked", "crashed"}
             \/ at[p] = "answered" /\ p \in patched
    BY <1>0, <1>5, <2>1 DEF RunningIsExplained
  <2>4. CASE p # q
    BY <2>2, <2>3, <2>4
  <2>5. CASE p = q
    BY <1>2, <1>3, <1>5, <2>3, <2>5 DEF h
  <2> QED
    BY <2>4, <2>5
<1>10. RowFirst' /\ CRRows' /\ Listed' /\ ListsTellAll'
  BY <1>1, <1>3, <1>5, CRQuiet
<1> QED
  BY <1>6, <1>8, <1>9, <1>10 DEF HInv

-----------------------------------------------------------------------------
(* What RestoreViaCR does to the step of q, and to no other.                *)
LEMMA CRMoves ==
  ASSUME Types, NEW q \in CRRequests, NEW step \in Step, Goto(q, step)
  PROVE  /\ at' \in [Requests -> Step] /\ at'[q] = step
         /\ \A p \in CRRequests \ {q} : at'[p] = at[p]
         /\ \A p \in NodeRequests : at'[p] = at[p]
BY ConstantsAssumption DEF Types, Goto, Requests

(* The elements of the body of a request.                                   *)
LEMMA ItemLen ==
  ASSUME NEW q \in CRRequests
  PROVE  /\ Len(Items[q]) \in Nat /\ DOMAIN Items[q] = 1..Len(Items[q])
         /\ \A i \in 1..Len(Items[q]) :
              /\ Items[q][i] \in [id : STRING, index : STRING]
              /\ Items[q][i].id \in STRING /\ Items[q][i].index \in STRING
<1>1. Items[q] \in Seq([id : STRING, index : STRING])
  BY ConstantsAssumption
<1>2. Len(Items[q]) \in Nat /\ DOMAIN Items[q] = 1..Len(Items[q])
  BY <1>1
<1>3. ASSUME NEW i \in 1..Len(Items[q]) PROVE Items[q][i] \in [id : STRING, index : STRING]
  BY <1>1, ElementOfSeq
<1> QED
  BY <1>2, <1>3

(* Begin changes only the step.                                             *)
LEMMA BeginPreserves ==
  ASSUME HInv, NEW q \in CRRequests, Begin(q)
  PROVE  HInv'
<1>0. Types /\ Bounds /\ RowFirst /\ CRRows /\ Listed /\ ListsTellAll
  BY DEF HInv
<1>1. /\ UNCHANGED <<tasks, crs, held, item, success, failed, patched>>
      /\ at[q] = "start" /\ Goto(q, "insert")
  BY DEF Begin
<1>2. /\ at' \in [Requests -> Step] /\ at'[q] = "insert"
      /\ \A p \in CRRequests \ {q} : at'[p] = at[p]
      /\ \A p \in NodeRequests : at'[p] = at[p]
  BY <1>0, <1>1, CRMoves DEF Step
<1>3. RowsKept
  BY <1>0, <1>1, NothingChanges
<1>4. Types' /\ Bounds'
  BY <1>0, <1>1, <1>2 DEF Types, Bounds
<1>5. HoldsRow' /\ NodesAreRecorded'
  BY <1>1, <1>2, <1>3, NodeQuiet
<1>6. RunningIsExplained'
  BY <1>1, <1>2 DEF HInv, RunningIsExplained
<1>7. RowFirst' /\ CRRows'
  BY <1>0, <1>1, <1>2 DEF RowFirst, CRRows, RowOf, Item
<1>8. Listed'
  <2>1. item[q] = 1 /\ success[q] \cup failed[q] = {}
    BY <1>0, <1>1 DEF Listed
  <2>2. success[q] \cup failed[q] = 1..item[q] - 1
    BY <2>1
  <2> QED
    BY <1>0, <1>1, <1>2, <2>2 DEF Listed
<1>9. ListsTellAll'
  BY <1>0, <1>1, <1>2 DEF ListsTellAll
<1> QED
  BY <1>4, <1>5, <1>6, <1>7, <1>8, <1>9 DEF HInv

(* Answer comes after the last element, so the lists hold them all.         *)
LEMMA AnswerPreserves ==
  ASSUME HInv, NEW q \in CRRequests, Answer(q)
  PROVE  HInv'
<1>0. Types /\ Bounds /\ RowFirst /\ CRRows /\ Listed /\ ListsTellAll
  BY DEF HInv
<1>1. /\ UNCHANGED <<tasks, crs, held, item, success, failed, patched>>
      /\ at[q] = "insert" /\ item[q] > Len(Items[q])
  BY DEF Answer
<1>2. PICK step \in {"answered", "refused"} : Goto(q, step)
  BY DEF Answer
<1>3. /\ at' \in [Requests -> Step] /\ at'[q] = step
      /\ \A p \in CRRequests \ {q} : at'[p] = at[p]
      /\ \A p \in NodeRequests : at'[p] = at[p]
  BY <1>0, <1>2, CRMoves DEF Step
<1>4. RowsKept
  BY <1>0, <1>1, NothingChanges
<1>5. Types' /\ Bounds'
  BY <1>0, <1>1, <1>3 DEF Types, Bounds
<1>6. HoldsRow' /\ NodesAreRecorded'
  BY <1>1, <1>3, <1>4, NodeQuiet
<1>7. RunningIsExplained'
  BY <1>1, <1>3 DEF HInv, RunningIsExplained
<1>8. RowFirst' /\ CRRows' /\ Listed'
  BY <1>0, <1>1, <1>2, <1>3 DEF RowFirst, CRRows, RowOf, Item, Listed
<1>9. success[q] \cup failed[q] = DOMAIN Items[q]
  <2>1. item[q] \in 1..Len(Items[q]) + 1 /\ Len(Items[q]) \in Nat
    BY <1>0, ItemLen DEF Bounds
  <2>2. item[q] - 1 = Len(Items[q])
    BY <1>1, <2>1
  <2>3. success[q] \cup failed[q] = 1..item[q] - 1
    BY <1>0, <1>1 DEF Listed
  <2> QED
    BY <2>2, <2>3, ItemLen
<1>10. ListsTellAll'
  BY <1>0, <1>1, <1>3, <1>9 DEF ListsTellAll, Listed
<1> QED
  BY <1>5, <1>6, <1>7, <1>8, <1>10 DEF HInv

(* An element that fails at its row is listed and passed over.              *)
LEMMA InsertRowPreserves ==
  ASSUME HInv, NEW q \in CRRequests, InsertRow(q)
  PROVE  HInv'
<1> DEFINE n == item[q]
           r == Row(Item(q).id, Item(q).index, "")
<1>0. Types /\ Bounds /\ RowFirst /\ CRRows /\ Listed /\ ListsTellAll
  BY DEF HInv
<1>1. /\ UNCHANGED <<crs, held, success, patched>>
      /\ at[q] = "insert" /\ n <= Len(Items[q])
      /\ \/ Insert(r) /\ Goto(q, "create") /\ UNCHANGED <<item, failed>>
         \/ /\ failed' = [failed EXCEPT ![q] = @ \cup {n}]
            /\ item' = [item EXCEPT ![q] = @ + 1]
            /\ Goto(q, "insert") /\ (Insert(r) \/ UNCHANGED tasks)
  BY DEF InsertRow, NextItem
<1>2. n \in 1..Len(Items[q]) /\ n \in Nat /\ Len(Items[q]) \in Nat
  <2>1. n \in 1..Len(Items[q]) + 1 /\ Len(Items[q]) \in Nat
    BY <1>0, ItemLen DEF Bounds
  <2>2. n <= Len(Items[q])
    BY <1>1
  <2> HIDE DEF n
  <2> QED
    BY <2>1, <2>2
<1>3. success[q] \cup failed[q] = 1..n - 1
  BY <1>0, <1>1 DEF Listed
<1>4. CASE Insert(r) /\ Goto(q, "create") /\ UNCHANGED <<item, failed>>
  <2>1. r \in Rows /\ r.id = Item(q).id /\ r.index = Item(q).index /\ r.status = ""
    BY <1>2, ItemLen DEF Row, Rows, Status, Item
  <2>2. /\ RowsKept
        /\ Len(tasks') = Len(tasks) + 1 /\ Len(tasks') <= MaxRows
        /\ tasks'[Len(tasks')] = r
        /\ \A i \in 1..Len(tasks) : tasks'[i] = tasks[i]
    BY <1>0, <1>4, <2>1, InsertKeeps DEF Types
  <2>3. /\ at' \in [Requests -> Step] /\ at'[q] = "create"
        /\ \A p \in CRRequests \ {q} : at'[p] = at[p]
        /\ \A p \in NodeRequests : at'[p] = at[p]
    BY <1>0, <1>4, CRMoves DEF Step
  <2>4. /\ \A i \in 1..Len(tasks') : i \in 1..Len(tasks) \/ i = Len(tasks')
        /\ Len(tasks') \in 1..Len(tasks') /\ Len(tasks) <= Len(tasks')
    <3>1. Len(tasks) \in Nat
      BY <1>0 DEF Types
    <3>2. Len(tasks') = Len(tasks) + 1
      BY <2>2
    <3> QED
      BY <3>1, <3>2
  <2>5. Types'
    BY <1>0, <1>1, <1>4, <2>2, <2>3 DEF Types, RowsKept
  <2>6. Bounds'
    <3>1. \A p \in NodeRequests : held'[p] <= Len(tasks')
      <4>1. Len(tasks) \in Nat /\ Len(tasks') \in Nat
        BY <1>0, <2>5 DEF Types
      <4>2. \A p \in NodeRequests : held'[p] \in Nat /\ held'[p] <= Len(tasks)
        BY <1>0, <1>1 DEF Types, Bounds
      <4> QED
        BY <2>4, <4>1, <4>2
    <3> QED
      BY <1>0, <1>1, <1>4, <2>2, <2>3, <3>1 DEF Bounds
  <2>7. HoldsRow' /\ NodesAreRecorded'
    BY <1>1, <2>2, <2>3, NodeQuiet
  <2>8. RunningIsExplained'
    <3>1. tasks' \in Seq(Rows)
      BY <2>2 DEF RowsKept
    <3> QED
      BY <1>1, <2>1, <2>2, <2>3, <2>4, <3>1, StatusQuiet
  <2>9. RowFirst'
    <3>1. RowOf(Item(q))'
      BY <1>4, <2>1, <2>2, <2>4 DEF RowOf, Item
    <3>2. ASSUME NEW p \in CRRequests \ {q}, at'[p] = "create" PROVE RowOf(Item(p))'
      <4>1. RowOf(Item(p))
        BY <1>0, <2>3, <3>2 DEF RowFirst
      <4>2. PICK i \in 1..Len(tasks) :
              tasks[i].id = Item(p).id /\ tasks[i].index = Item(p).index
        BY <4>1 DEF RowOf
      <4>3. tasks'[i] = tasks[i] /\ i \in 1..Len(tasks')
        <5>1. Len(tasks) \in Nat /\ Len(tasks') \in Nat
          BY <1>0, <2>5 DEF Types
        <5>2. Len(tasks) <= Len(tasks')
          BY <2>4
        <5>3. i \in 1..Len(tasks')
          BY <5>1, <5>2
        <5>4. tasks'[i] = tasks[i]
          BY <2>2
        <5> QED
          BY <5>3, <5>4
      <4>4. Item(p)' = Item(p)
        BY <1>4 DEF Item
      <4> QED
        BY <4>2, <4>3, <4>4 DEF RowOf
    <3> QED
      BY <3>1, <3>2 DEF RowFirst
  <2>10. CRRows'
    BY <1>0, <1>1, <2>2, RowOfKept DEF CRRows
  <2>11. Listed' /\ ListsTellAll'
    BY <1>0, <1>1, <1>3, <1>4, <2>3 DEF Listed, ListsTellAll
  <2> QED
    BY <2>5, <2>6, <2>7, <2>8, <2>9, <2>10, <2>11 DEF HInv
<1>5. CASE /\ failed' = [failed EXCEPT ![q] = @ \cup {n}]
           /\ item' = [item EXCEPT ![q] = @ + 1]
           /\ Goto(q, "insert") /\ (Insert(r) \/ UNCHANGED tasks)
  <2>1. /\ at' \in [Requests -> Step] /\ at'[q] = "insert"
        /\ \A p \in CRRequests \ {q} : at'[p] = at[p]
        /\ \A p \in NodeRequests : at'[p] = at[p]
    BY <1>0, <1>5, CRMoves DEF Step
  <2>2. /\ item' \in [CRRequests -> Nat] /\ item'[q] = n + 1
        /\ \A p \in CRRequests \ {q} : item'[p] = item[p]
    <3>1. item' = [item EXCEPT ![q] = @ + 1] /\ item \in [CRRequests -> Nat]
      BY <1>0, <1>5 DEF Types
    <3> QED
      BY <1>2, <3>1
  <2>3. /\ failed' \in [CRRequests -> SUBSET Nat] /\ failed'[q] = failed[q] \cup {n}
        /\ \A p \in CRRequests \ {q} : failed'[p] = failed[p]
    BY <1>0, <1>2, <1>5 DEF Types
  <2>6. /\ RowsKept /\ Len(tasks') <= MaxRows
        /\ \A i \in 1..Len(tasks') :
             tasks'[i].status = "RUNNING" => i \in 1..Len(tasks) /\ tasks[i].status = "RUNNING"
    <3>1. CASE UNCHANGED tasks
      BY <1>0, <3>1, NothingChanges DEF Bounds, Types
    <3>2. CASE Insert(r)
      <4>1. r \in Rows /\ r.status = ""
        BY <1>2, ItemLen DEF Row, Rows, Status, Item
      <4>2. /\ RowsKept
            /\ Len(tasks') = Len(tasks) + 1 /\ Len(tasks') <= MaxRows
            /\ tasks'[Len(tasks')] = r
            /\ \A i \in 1..Len(tasks) : tasks'[i] = tasks[i]
        BY <1>0, <3>2, <4>1, InsertKeeps DEF Types
      <4>3. \A i \in 1..Len(tasks') : i \in 1..Len(tasks) \/ i = Len(tasks')
        <5>1. Len(tasks) \in Nat
          BY <1>0 DEF Types
        <5>2. Len(tasks') = Len(tasks) + 1
          BY <4>2
        <5> QED
          BY <5>1, <5>2
      <4> QED
        BY <4>1, <4>2, <4>3
    <3> QED
      BY <1>5, <3>1, <3>2
  <2>4. Types'
    BY <1>0, <1>1, <1>5, <2>1, <2>2, <2>3, <2>6 DEF Types, RowsKept
  <2>5. Bounds'
    <3>1. n + 1 \in 1..Len(Items[q]) + 1
      BY <1>2
    <3>2. \A p \in CRRequests : item'[p] \in 1..Len(Items[p]) + 1
      BY <1>0, <2>2, <3>1 DEF Bounds
    <3>3. \A p \in CRRequests : at'[p] = "create" => item'[p] <= Len(Items[p])
      BY <1>0, <2>1, <2>2 DEF Bounds
    <3>4. \A p \in NodeRequests : held'[p] <= Len(tasks')
      <4>1. Len(tasks) \in Nat /\ Len(tasks') \in Nat /\ Len(tasks) <= Len(tasks')
        BY <1>0, <2>4, <2>6 DEF Types, RowsKept
      <4>2. \A p \in NodeRequests : held'[p] \in Nat /\ held'[p] <= Len(tasks)
        BY <1>0, <1>1 DEF Types, Bounds
      <4> QED
        BY <4>1, <4>2
    <3> QED
      BY <1>0, <1>1, <1>5, <2>6, <3>2, <3>3, <3>4 DEF Bounds
  <2>7. HoldsRow' /\ NodesAreRecorded'
    BY <1>1, <2>1, <2>6, NodeQuiet
  <2>8. RunningIsExplained'
    <3>1. tasks' \in Seq(Rows)
      BY <2>6 DEF RowsKept
    <3> QED
      BY <1>1, <2>1, <2>6, <3>1, StatusQuiet
  <2>9. RowFirst' /\ CRRows'
    <3>1. CRRows'
      BY <1>0, <1>1, <2>6, RowOfKept DEF CRRows
    <3>2. ASSUME NEW p \in CRRequests, at'[p] = "create" PROVE RowOf(Item(p))'
      <4>1. p # q /\ at[p] = "create" /\ item'[p] = item[p]
        BY <2>1, <2>2, <3>2
      <4>2. RowOf(Item(p))
        BY <1>0, <4>1 DEF RowFirst
      <4>3. Item(p)' = Item(p)
        BY <4>1 DEF Item
      <4>4. RowOf(Item(p))' <=> \E i \in 1..Len(tasks') : tasks'[i].id = Item(p).id /\ tasks'[i].index = Item(p).index
        BY <4>3 DEF RowOf
      <4> QED
        BY <1>0, <2>6, <4>2, <4>4, RowOfKept DEF RowOf
    <3> QED
      BY <3>1, <3>2 DEF RowFirst
  <2>10. success'[q] \cup failed'[q] = 1..item'[q] - 1
    <3>1. success'[q] \cup failed'[q] = (1..n - 1) \cup {n}
      BY <1>1, <1>3, <2>3
    <3>2. (1..n - 1) \cup {n} = 1..n
      BY <1>2
    <3>3. (n + 1) - 1 = n
      BY <1>2
    <3> QED
      BY <2>2, <3>1, <3>2, <3>3
  <2>11. Listed'
    <3>1. 1..item'[q] - 1 \subseteq 1..item'[q]
      BY <1>2, <2>2
    <3>2. success'[q] \ failed'[q] \subseteq success[q] \ failed[q]
      BY <1>1, <2>3
    <3> QED
      BY <1>0, <1>1, <2>1, <2>2, <2>3, <2>10, <3>1, <3>2 DEF Listed
  <2>12. ListsTellAll'
    BY <1>0, <1>1, <2>1, <2>3 DEF ListsTellAll
  <2> QED
    BY <2>4, <2>5, <2>7, <2>8, <2>9, <2>11, <2>12 DEF HInv
<1> QED
  BY <1>1, <1>4, <1>5

(* CreateCR lists the element as restored whatever became of it, and as     *)
(* failed too when it did.                                                  *)
LEMMA CreateCRPreserves ==
  ASSUME HInv, NEW q \in CRRequests, CreateCR(q)
  PROVE  HInv'
<1> DEFINE n == item[q]
<1>0. Types /\ Bounds /\ RowFirst /\ CRRows /\ Listed /\ ListsTellAll
  BY DEF HInv
<1>1. /\ UNCHANGED <<tasks, held, patched>>
      /\ at[q] = "create" /\ Goto(q, "insert")
      /\ success' = [success EXCEPT ![q] = @ \cup {n}]
      /\ item' = [item EXCEPT ![q] = @ + 1]
      /\ crs \subseteq crs' /\ crs' \subseteq crs \cup {<<q, n>>}
      /\ \/ <<q, n>> \in crs' /\ UNCHANGED failed
         \/ failed' = [failed EXCEPT ![q] = @ \cup {n}]
  BY DEF CreateCR, NextItem
<1>2. n \in 1..Len(Items[q]) /\ n \in Nat /\ Len(Items[q]) \in Nat
  <2>1. n \in 1..Len(Items[q]) + 1 /\ Len(Items[q]) \in Nat
    BY <1>0, ItemLen DEF Bounds
  <2>2. n <= Len(Items[q])
    BY <1>0, <1>1 DEF Bounds
  <2> HIDE DEF n
  <2> QED
    BY <2>1, <2>2
<1>3. success[q] \cup failed[q] = 1..n - 1
  BY <1>0, <1>1 DEF Listed
<1>4. /\ at' \in [Requests -> Step] /\ at'[q] = "insert"
      /\ \A p \in CRRequests \ {q} : at'[p] = at[p]
      /\ \A p \in NodeRequests : at'[p] = at[p]
  BY <1>0, <1>1, CRMoves DEF Step
<1>5. /\ item' \in [CRRequests -> Nat] /\ item'[q] = n + 1
      /\ \A p \in CRRequests \ {q} : item'[p] = item[p]
  BY <1>0, <1>1, <1>2 DEF Types
<1>6. /\ success' \in [CRRequests -> SUBSET Nat] /\ success'[q] = success[q] \cup {n}
      /\ \A p \in CRRequests \ {q} : success'[p] = success[p]
  BY <1>0, <1>1, <1>2 DEF Types
<1>7. /\ failed' \in [CRRequests -> SUBSET Nat]
      /\ \/ failed'[q] = failed[q] /\ <<q, n>> \in crs'
         \/ failed'[q] = failed[q] \cup {n}
      /\ \A p \in CRRequests \ {q} : failed'[p] = failed[p]
  BY <1>0, <1>1, <1>2 DEF Types
<1>8. Types'
  BY <1>0, <1>1, <1>4, <1>5, <1>6, <1>7 DEF Types
<1>9. Bounds'
  <2>1. n + 1 \in 1..Len(Items[q]) + 1
    BY <1>2
  <2>2. \A p \in CRRequests : item'[p] \in 1..Len(Items[p]) + 1
    BY <1>0, <1>5, <2>1 DEF Bounds
  <2>3. \A p \in CRRequests : at'[p] = "create" => item'[p] <= Len(Items[p])
    BY <1>0, <1>4, <1>5 DEF Bounds
  <2>4. \A c \in crs' : c[1] \in CRRequests /\ c[2] \in DOMAIN Items[c[1]]
    BY <1>0, <1>1, <1>2, ItemLen DEF Bounds
  <2> QED
    BY <1>0, <1>1, <2>2, <2>3, <2>4 DEF Bounds
<1>10. RowsKept
  BY <1>0, <1>1, NothingChanges
<1>11. HoldsRow' /\ NodesAreRecorded'
  BY <1>1, <1>4, <1>10, NodeQuiet
<1>12. RunningIsExplained'
  <2>1. RunningIsExplained /\ UNCHANGED <<tasks, held, patched>>
    BY <1>1 DEF HInv
  <2> QED
    BY <1>4, <2>1 DEF RunningIsExplained
<1>13. RowFirst' /\ CRRows'
  <2>1. RowFirst'
    BY <1>0, <1>1, <1>4, <1>5 DEF RowFirst, RowOf, Item
  <2>2. RowOf(Items[q][n])
    BY <1>0, <1>1 DEF RowFirst, Item
  <2>3. \A c \in crs' : c \in crs \/ (c[1] = q /\ c[2] = n)
    BY <1>1
  <2> QED
    BY <1>0, <1>1, <2>1, <2>2, <2>3 DEF CRRows, RowOf
<1>14. success'[q] \cup failed'[q] = 1..item'[q] - 1
  <2>1. success'[q] \cup failed'[q] = (1..n - 1) \cup {n}
    BY <1>3, <1>6, <1>7
  <2>2. (1..n - 1) \cup {n} = 1..n
    BY <1>2
  <2>3. (n + 1) - 1 = n
    BY <1>2
  <2> QED
    BY <1>5, <2>1, <2>2, <2>3
<1>15. Listed'
  <2>1. 1..item'[q] - 1 \subseteq 1..item'[q]
    BY <1>2, <1>5
  <2>2. \A i \in success'[q] \ failed'[q] : <<q, i>> \in crs'
    BY <1>0, <1>1, <1>6, <1>7 DEF Listed
  <2>3. \A p \in CRRequests \ {q} : \A i \in success'[p] \ failed'[p] : <<p, i>> \in crs'
    BY <1>0, <1>1, <1>6, <1>7 DEF Listed
  <2> QED
    BY <1>0, <1>4, <1>5, <1>6, <1>7, <1>14, <2>1, <2>2, <2>3 DEF Listed
<1>16. ListsTellAll'
  BY <1>0, <1>1, <1>4, <1>6, <1>7 DEF ListsTellAll
<1> QED
  BY <1>8, <1>9, <1>11, <1>12, <1>13, <1>15, <1>16 DEF HInv

-----------------------------------------------------------------------------
(* A crash ends the handlers that are under way, and writes nothing.        *)
LEMMA CrashPreserves == ASSUME HInv, Crash PROVE HInv'
<1>0. /\ Types /\ Bounds /\ HoldsRow /\ NodesAreRecorded /\ RunningIsExplained
      /\ RowFirst /\ CRRows /\ Listed /\ ListsTellAll
  BY DEF HInv
<1>1. /\ UNCHANGED <<tasks, crs, held, item, success, failed, patched>>
      /\ at' \in [Requests -> Step]
      /\ \A q \in Requests :
           \/ at[q] \in Ended \cup {"start"} /\ at'[q] = at[q]
           \/ at[q] \notin Ended \cup {"start"} /\ at'[q] = "crashed"
  BY <1>0 DEF Crash, Types, Step
<1>2. /\ \A q \in NodeRequests : at'[q] = at[q] \/ at'[q] = "crashed"
      /\ \A q \in CRRequests : at'[q] = at[q] \/ at'[q] = "crashed"
  BY <1>1 DEF Requests
<1>3. Types' /\ Bounds'
  BY <1>0, <1>1, <1>2 DEF Types, Bounds
<1>4. HoldsRow' /\ NodesAreRecorded'
  BY <1>0, <1>1, <1>2 DEF HoldsRow, NodesAreRecorded
<1>5. RunningIsExplained'
  BY <1>0, <1>1, <1>2 DEF RunningIsExplained
<1>6. RowFirst' /\ CRRows'
  BY <1>0, <1>1, <1>2 DEF RowFirst, CRRows, RowOf, Item
<1>7. Listed' /\ ListsTellAll'
  BY <1>0, <1>1, <1>2 DEF Listed, ListsTellAll
<1> QED
  BY <1>3, <1>4, <1>5, <1>6, <1>7 DEF HInv

-----------------------------------------------------------------------------
(* Before the first request nothing is held, listed or made.                *)
THEOREM HInvInit == Init => HInv
<1> SUFFICES ASSUME Init PROVE HInv
  OBVIOUS
<1>1. Types
  BY DEF Init, Types, Step
<1>2. Bounds
  <2>1. Len(tasks) = 0
    BY DEF Init
  <2>2. \A q \in CRRequests : 1 \in 1..Len(Items[q]) + 1
    BY ItemLen
  <2> QED
    BY <2>1, <2>2, ConstantsAssumption DEF Init, Bounds, Requests
<1>3. HoldsRow /\ NodesAreRecorded /\ RunningIsExplained
  BY DEF Init, HoldsRow, NodesAreRecorded, RunningIsExplained, Requests
<1>4. RowFirst /\ CRRows /\ Listed /\ ListsTellAll
  BY DEF Init, RowFirst, CRRows, Listed, ListsTellAll, Requests
<1> QED
  BY <1>1, <1>2, <1>3, <1>4 DEF HInv

(* The invariant is inductive: one lemma per step of a handler, a verdict   *)
(* of a worker, or a crash.                                                 *)
THEOREM HInvStep == HInv /\ [Next]_vars => HInv'
<1> SUFFICES ASSUME HInv, [Next]_vars PROVE HInv'
  OBVIOUS
<1>1. CASE \E q \in TaskRequests : NewTask(q)
  BY <1>1, NewTaskPreserves
<1>2. ASSUME NEW q \in NodeRequests, CreateRestoreNode(q) PROVE HInv'
  BY <1>2, FindRowPreserves, MarkRunningPreserves, PatchPreserves, MarkFailedPreserves
  DEF CreateRestoreNode
<1>3. ASSUME NEW q \in CRRequests, RestoreViaCR(q) PROVE HInv'
  BY <1>3, BeginPreserves, InsertRowPreserves, CreateCRPreserves, AnswerPreserves
  DEF RestoreViaCR
<1>4. CASE \E c \in crs, status \in Verdicts : Verdict(c, status)
  BY <1>4, VerdictPreserves
<1>5. CASE Crash
  BY <1>5, CrashPreserves
<1>6. CASE UNCHANGED vars
  BY <1>6 DEF vars, HInv, Types, Bounds, HoldsRow, NodesAreRecorded, RunningIsExplained,
              RowFirst, CRRows, RowOf, Item, Listed, ListsTellAll
<1> QED
  BY <1>1, <1>2, <1>3, <1>4, <1>5, <1>6 DEF Next

(* What a handler has done by the time it is at a step holds at every moment. *)
THEOREM HInvHolds == Spec => []HInv
BY HInvInit, HInvStep, PTL DEF Spec

(* RUNNING is explained: whoever wrote it is still at it, has its node, or  *)
(* was cut off before it could take the word back.                          *)
THEOREM RunningHasAReason == Spec => []RunningIsExplained
<1>1. HInv => RunningIsExplained
  BY DEF HInv
<1> QED
  BY <1>1, HInvHolds, PTL

(* No node set is added that the task table does not tell of.               *)
THEOREM NodesStayRecorded == Spec => []NodesAreRecorded
<1>1. HInv => NodesAreRecorded
  BY DEF HInv
<1> QED
  BY <1>1, HInvHolds, PTL

(* The row comes before the RestoreTask and is never removed.               *)
THEOREM RowBeforeCR == Spec => []CRHasRow
<1>1. HInv => CRHasRow
  BY DEF HInv, Types, CRRows, RowOf, CRHasRow
<1> QED
  BY <1>1, HInvHolds, PTL

(* The answer of RestoreViaCR accounts for every task of its body.          *)
THEOREM AnswersTellAll == Spec => []ListsTellAll
<1>1. HInv => ListsTellAll
  BY DEF HInv
<1> QED
  BY <1>1, HInvHolds, PTL

(* The variables of the handlers have their types.                          *)
THEOREM HandlerTypes == Spec => []TypeOK
<1>1. HInv => TypeOK
  <2> SUFFICES ASSUME HInv PROVE TypeOK
    OBVIOUS
  <2>0. Types /\ Bounds /\ Listed
    BY DEF HInv
  <2>1. \A r \in DOMAIN tasks : /\ DOMAIN tasks[r] = {"id", "index", "status", "stage"}
                                /\ tasks[r].status \in Status
                                /\ tasks[r].stage \in {"", "CREATE_ES_NODE"}
    <3> SUFFICES ASSUME NEW r \in DOMAIN tasks
                 PROVE  /\ DOMAIN tasks[r] = {"id", "index", "status", "stage"}
                        /\ tasks[r].status \in Status
                        /\ tasks[r].stage \in {"", "CREATE_ES_NODE"}
      OBVIOUS
    <3>1. tasks[r] \in Rows
      BY <2>0 DEF Types
    <3> QED
      BY <3>1 DEF Rows
  <2>2. \A q \in NodeRequests : held[q] \in 0..Len(tasks)
    <3>1. Len(tasks) \in Nat
      BY <2>0 DEF Types
    <3> QED
      BY <2>0, <3>1 DEF Types, Bounds
  <2>3. \A q \in CRRequests : /\ item[q] \in 1..Len(Items[q]) + 1
                              /\ success[q] \cup failed[q] \subseteq 1..item[q]
    BY <2>0 DEF Bounds, Listed
  <2> QED
    BY <2>0, <2>1, <2>2, <2>3 DEF TypeOK, Types, Bounds
<1> QED
  BY <1>1, HInvHolds, PTL

=============================================================================
