------------------------ MODULE RestoreWorkers_proofs ------------------------
(***************************************************************************)
(* Safety of RestoreWorkers, for every set of tasks, rows and goroutines   *)
(* and every capacity of the two channels.                                 *)
(***************************************************************************)
EXTENDS RestoreWorkers, FiniteSetTheorems, TLAPS

USE DEF ProgramCounter, Verdicts, RowValue, Dispatchers

-----------------------------------------------------------------------------
(* How a step of one goroutine changes the set of running goroutines.       *)

(* The number of slots and the number taken are natural numbers.            *)
LEMMA ConcurrencyIsNat == Concurrency \in Nat
BY ConstantsAssumption

(* So is the number of slots taken, while the types hold.                   *)
LEMMA SemIsNat == ASSUME TypeOK PROVE sem \in Nat
BY DEF TypeOK

(* A goroutine that goes on is still running.                               *)
LEMMA ActiveStays ==
  ASSUME TypeOK, NEW w \in Workers, pc[w] # "none", NEW l, l # "none", Goto(w, l)
  PROVE  Active' = Active
BY DEF TypeOK, Active, Goto

(* A slot is taken for the one goroutine that is started.                   *)
LEMMA ActiveGrows ==
  ASSUME TypeOK, SlotsAccounted, NEW w \in Workers, pc[w] = "none",
         pc' = [pc EXCEPT ![w] = "query"]
  PROVE  Cardinality(Active') = sem + 1
<1>1. IsFiniteSet(Active)
  BY ConstantsAssumption, FS_Subset DEF Active
<1>2. Active' = Active \cup {w} /\ w \notin Active
  BY DEF TypeOK, Active
<1> QED
  BY <1>1, <1>2, FS_AddElement DEF SlotsAccounted

(* The goroutine that returns frees a slot: there was one to free.          *)
LEMMA ActiveShrinks ==
  ASSUME TypeOK, SlotsAccounted, NEW w \in Workers, pc[w] # "none",
         pc' = [pc EXCEPT ![w] = "none"]
  PROVE  sem - 1 \in Nat /\ Cardinality(Active') = sem - 1
<1>1. IsFiniteSet(Active)
  BY ConstantsAssumption, FS_Subset DEF Active
<1>2. Active' = Active \ {w} /\ w \in Active
  BY DEF TypeOK, Active
<1>3. Cardinality(Active) \in Nat /\ Cardinality(Active') = Cardinality(Active) - 1
  BY <1>1, <1>2, FS_RemoveElement, FS_CardinalityType
<1>4. Cardinality(Active') \in Nat
  BY <1>1, <1>2, FS_Subset, FS_CardinalityType
<1> QED
  BY <1>3, <1>4 DEF SlotsAccounted

(* Nothing runs after a crash.                                              *)
LEMMA ActiveAfterCrash ==
  ASSUME Restart PROVE Cardinality(Active') = 0
<1>1. Active' = {}
  BY DEF Restart, Active, NoGoroutine
<1> QED
  BY <1>1, FS_EmptySet
-----------------------------------------------------------------------------
(* Each part of IInv is preserved by every action.                          *)

(* The variables keep their types.  A row is written only through held[w],  *)
(* which RowHeld says is a row; sem is lowered only when it is positive.    *)
LEMMA TypeStep ==
  ASSUME TypeOK, SlotsAccounted, RowHeld, [Next]_vars
  PROVE  TypeOK'
<1>1. ASSUME NEW t \in Tasks, Enqueue(t) PROVE TypeOK'
  <2>1. queue' \in Seq(Tasks)
    <3>1. queue \in Seq(Tasks)
      BY DEF TypeOK
    <3> QED
      BY <1>1, <3>1 DEF Enqueue
  <2>2. sent' \in [Keys -> 0..2]
    <3>1. \A n \in 0..2 : (IF n < 2 THEN n + 1 ELSE n) \in 0..2
      OBVIOUS
    <3>2. sent \in [Keys -> 0..2]
      BY DEF TypeOK
    <3> QED
      BY <1>1, <3>1, <3>2 DEF Enqueue
  <2> QED
    BY <1>1, <2>1, <2>2 DEF TypeOK, Enqueue, store
<1>2. ASSUME NEW r \in Rows, NEW k \in Keys, InsertRow(r, k) PROVE TypeOK'
  BY <1>2 DEF TypeOK, InsertRow, memory
<1>3. CASE StartCtxExpires
  BY <1>3 DEF TypeOK, StartCtxExpires, store
<1>4. CASE DispatcherReturns
  BY <1>4 DEF TypeOK, DispatcherReturns, store
<1>5. ASSUME NEW d \in Dispatchers, Receive(d) PROVE TypeOK'
  <2>1. Head(queue) \in Tasks /\ Tail(queue) \in Seq(Tasks)
    <3>1. queue \in Seq(Tasks) /\ queue # <<>>
      BY <1>5 DEF TypeOK, Receive
    <3> QED
      BY <3>1
  <2>2. hand' \in [Dispatchers -> Tasks \cup {NoTask}]
    BY <1>5, <2>1 DEF TypeOK, Receive
  <2> QED
    BY <1>5, <2>1, <2>2 DEF TypeOK, Receive, store
<1>6. ASSUME NEW d \in Dispatchers, NEW w \in Workers, Start(d, w) PROVE TypeOK'
  <2>1. hand' \in [Dispatchers -> Tasks \cup {NoTask}]
    BY <1>6 DEF TypeOK, Start
  <2>2. sem' \in Nat
    BY <1>6, SemIsNat DEF Start
  <2>3. /\ pc' \in [Workers -> ProgramCounter]
        /\ job' \in [Workers -> Tasks \cup {NoTask}]
    BY <1>6 DEF TypeOK, Start
  <2> QED
    BY <1>6, <2>1, <2>2, <2>3 DEF TypeOK, Start, store
<1>7. ASSUME NEW w \in Workers, QueryFails(w) PROVE TypeOK'
  BY <1>7 DEF TypeOK, QueryFails, Goto, ReturnWith, store
<1>8. ASSUME NEW w \in Workers, QueryFindsNotOne(w) PROVE TypeOK'
  BY <1>8 DEF TypeOK, QueryFindsNotOne, Goto, ReturnWith, store
<1>9. ASSUME NEW w \in Workers, QueryFindsRow(w) PROVE TypeOK'
  BY <1>9 DEF TypeOK, QueryFindsRow, Goto, RowsOf, store
<1>10. ASSUME NEW w \in Workers, RestoreAccepted(w) PROVE TypeOK'
  BY <1>10, ConstantsAssumption DEF TypeOK, RestoreAccepted, Goto, Index, Key, RowHeld, HasRow
<1>11. ASSUME NEW w \in Workers, RestoreRefused(w) PROVE TypeOK'
  BY <1>11 DEF TypeOK, RestoreRefused, Goto, store
<1>12. ASSUME NEW w \in Workers, MarkFailed(w) PROVE TypeOK'
  <2>1. held[w] \in Rows /\ row[held[w]] \in RowValue
    BY <1>12 DEF TypeOK, MarkFailed, RowHeld, HasRow, Polling
  <2>2. row' \in [Rows -> RowValue \cup {NoRow}]
    <3>1. CASE WriteStatus(w, "FAILED")
      BY <2>1, <3>1 DEF TypeOK, WriteStatus
    <3>2. CASE UNCHANGED row
      BY <3>2 DEF TypeOK
    <3> QED
      BY <1>12, <3>1, <3>2 DEF MarkFailed
  <2> QED
    BY <1>12, <2>2 DEF TypeOK, MarkFailed, Goto, ReturnWith
<1>13. ASSUME NEW w \in Workers, PollSaysComplete(w) PROVE TypeOK'
  BY <1>13 DEF TypeOK, PollSaysComplete, Goto, store
<1>14. ASSUME NEW w \in Workers, MarkSuccess(w) PROVE TypeOK'
  <2>1. held[w] \in Rows /\ row[held[w]] \in RowValue
    BY <1>14 DEF TypeOK, MarkSuccess, RowHeld, HasRow, Polling
  <2>2. row' \in [Rows -> RowValue \cup {NoRow}]
    BY <1>14, <2>1 DEF TypeOK, MarkSuccess, WriteStatus
  <2> QED
    BY <1>14, <2>2 DEF TypeOK, MarkSuccess, Goto, ReturnWith
<1>15. ASSUME NEW w \in Workers, MarkSuccessFails(w) PROVE TypeOK'
  <2>1. held[w] \in Rows /\ row[held[w]] \in RowValue
    BY <1>15 DEF TypeOK, MarkSuccessFails, RowHeld, HasRow, Polling
  <2>2. row' \in [Rows -> RowValue \cup {NoRow}]
    <3>1. CASE WriteStatus(w, "SUCCESS")
      BY <2>1, <3>1 DEF TypeOK, WriteStatus
    <3>2. CASE UNCHANGED row
      BY <3>2 DEF TypeOK
    <3> QED
      BY <1>15, <3>1, <3>2 DEF MarkSuccessFails
  <2> QED
    BY <1>15, <2>2 DEF TypeOK, MarkSuccessFails, Goto
<1>16. ASSUME NEW w \in Workers, Timeout(w) PROVE TypeOK'
  BY <1>16 DEF TypeOK, Timeout, Goto, store
<1>17. ASSUME NEW w \in Workers, MarkTimeout(w) PROVE TypeOK'
  <2>1. held[w] \in Rows /\ row[held[w]] \in RowValue
    BY <1>17 DEF TypeOK, MarkTimeout, RowHeld, HasRow, Polling
  <2>2. row' \in [Rows -> RowValue \cup {NoRow}]
    <3>1. CASE WriteStatus(w, "TIMEOUT")
      BY <2>1, <3>1 DEF TypeOK, WriteStatus
    <3>2. CASE UNCHANGED row
      BY <3>2 DEF TypeOK
    <3> QED
      BY <1>17, <3>1, <3>2 DEF MarkTimeout
  <2> QED
    BY <1>17, <2>2 DEF TypeOK, MarkTimeout, Goto, ReturnWith
<1>18. ASSUME NEW w \in Workers, Report(w) PROVE TypeOK'
  <2>1. sem' \in Nat
    BY <1>18, ActiveShrinks DEF Report, Goto
  <2>2. taskStatus' \in [Tasks -> {"", "done", "failed"}]
    BY <1>18, ConstantsAssumption DEF TypeOK, Report, UpdateTaskStatus, NameSent
  <2>3. /\ pc' \in [Workers -> ProgramCounter]
        /\ job' \in [Workers -> Tasks \cup {NoTask}]
        /\ held' \in [Workers -> Rows \cup {NoRow}]
        /\ outcome' \in [Workers -> {"none", "unsure", "done", "failed"}]
    BY <1>18 DEF TypeOK, Report, Goto
  <2> QED
    BY <1>18, <2>1, <2>2, <2>3 DEF TypeOK, Report
<1>19. ASSUME NEW i \in Indices, RecoveryCompletes(i) PROVE TypeOK'
  BY <1>19 DEF TypeOK, RecoveryCompletes, memory
<1>20. CASE Restart
  <2>1. /\ queue' \in Seq(Tasks)
        /\ hand' \in [Dispatchers -> Tasks \cup {NoTask}]
        /\ sem' \in Nat
    BY <1>20 DEF Restart, NoHand
  <2>2. /\ pc' \in [Workers -> ProgramCounter]
        /\ job' \in [Workers -> Tasks \cup {NoTask}]
        /\ held' \in [Workers -> Rows \cup {NoRow}]
        /\ outcome' \in [Workers -> {"none", "unsure", "done", "failed"}]
    BY <1>20 DEF Restart, NoGoroutine, NoJob, NothingHeld, NoOutcome
  <2> QED
    BY <1>20, <2>1, <2>2 DEF TypeOK, Restart, store
<1>21. CASE UNCHANGED vars
  BY <1>21 DEF TypeOK, vars, store
<1> QED
  BY <1>1, <1>2, <1>3, <1>4, <1>5, <1>6, <1>7, <1>8, <1>9, <1>10, <1>11, <1>12, <1>13, <1>14, <1>15, <1>16, <1>17, <1>18, <1>19, <1>20, <1>21
     DEF Next, Environment, DispatcherStep, WorkerStep, IndexPanic

(* The semaphore counts the running goroutines.                             *)
LEMMA SlotsStep ==
  ASSUME TypeOK, SlotsAccounted, [Next]_vars
  PROVE  SlotsAccounted'
<1>1. ASSUME NEW t \in Tasks, Enqueue(t) PROVE SlotsAccounted'
  BY <1>1 DEF SlotsAccounted, Active, Enqueue
<1>2. ASSUME NEW r \in Rows, NEW k \in Keys, InsertRow(r, k) PROVE SlotsAccounted'
  BY <1>2 DEF SlotsAccounted, Active, InsertRow, memory
<1>3. CASE StartCtxExpires
  BY <1>3 DEF SlotsAccounted, Active, StartCtxExpires
<1>4. CASE DispatcherReturns
  BY <1>4 DEF SlotsAccounted, Active, DispatcherReturns
<1>5. ASSUME NEW d \in Dispatchers, Receive(d) PROVE SlotsAccounted'
  BY <1>5 DEF SlotsAccounted, Active, Receive
<1>6. ASSUME NEW d \in Dispatchers, NEW w \in Workers, Start(d, w) PROVE SlotsAccounted'
  <2>1. Cardinality(Active') = sem'
    BY <1>6, ActiveGrows DEF Start
  <2>2. sem' <= Concurrency
    BY <1>6, SemIsNat, ConcurrencyIsNat DEF Start
  <2> QED
    BY <2>1, <2>2 DEF SlotsAccounted
<1>7. ASSUME NEW w \in Workers, QueryFails(w) PROVE SlotsAccounted'
  BY <1>7, ActiveStays DEF SlotsAccounted, QueryFails, ReturnWith
<1>8. ASSUME NEW w \in Workers, QueryFindsNotOne(w) PROVE SlotsAccounted'
  BY <1>8, ActiveStays DEF SlotsAccounted, QueryFindsNotOne, ReturnWith
<1>9. ASSUME NEW w \in Workers, QueryFindsRow(w) PROVE SlotsAccounted'
  BY <1>9, ActiveStays DEF SlotsAccounted, QueryFindsRow
<1>10. ASSUME NEW w \in Workers, RestoreAccepted(w) PROVE SlotsAccounted'
  BY <1>10, ActiveStays DEF SlotsAccounted, RestoreAccepted
<1>11. ASSUME NEW w \in Workers, RestoreRefused(w) PROVE SlotsAccounted'
  BY <1>11, ActiveStays DEF SlotsAccounted, RestoreRefused
<1>12. ASSUME NEW w \in Workers, MarkFailed(w) PROVE SlotsAccounted'
  BY <1>12, ActiveStays DEF SlotsAccounted, MarkFailed, ReturnWith
<1>13. ASSUME NEW w \in Workers, PollSaysComplete(w) PROVE SlotsAccounted'
  BY <1>13, ActiveStays DEF SlotsAccounted, PollSaysComplete
<1>14. ASSUME NEW w \in Workers, MarkSuccess(w) PROVE SlotsAccounted'
  BY <1>14, ActiveStays DEF SlotsAccounted, MarkSuccess, ReturnWith
<1>15. ASSUME NEW w \in Workers, MarkSuccessFails(w) PROVE SlotsAccounted'
  BY <1>15, ActiveStays DEF SlotsAccounted, MarkSuccessFails
<1>16. ASSUME NEW w \in Workers, Timeout(w) PROVE SlotsAccounted'
  BY <1>16, ActiveStays DEF SlotsAccounted, Timeout
<1>17. ASSUME NEW w \in Workers, MarkTimeout(w) PROVE SlotsAccounted'
  BY <1>17, ActiveStays DEF SlotsAccounted, MarkTimeout, ReturnWith
<1>18. ASSUME NEW w \in Workers, Report(w) PROVE SlotsAccounted'
  <2>1. Cardinality(Active') = sem'
    BY <1>18, ActiveShrinks DEF Report, Goto
  <2>2. sem' <= Concurrency
    BY <1>18, SemIsNat, ConcurrencyIsNat DEF SlotsAccounted, Report
  <2> QED
    BY <2>1, <2>2 DEF SlotsAccounted
<1>19. ASSUME NEW i \in Indices, RecoveryCompletes(i) PROVE SlotsAccounted'
  BY <1>19 DEF SlotsAccounted, Active, RecoveryCompletes, memory
<1>20. CASE Restart
  <2>1. sem' = 0
    BY <1>20 DEF Restart
  <2> QED
    BY <1>20, <2>1, ActiveAfterCrash, ConcurrencyIsNat DEF SlotsAccounted
<1>21. CASE UNCHANGED vars
  BY <1>21 DEF SlotsAccounted, Active, vars
<1> QED
  BY <1>1, <1>2, <1>3, <1>4, <1>5, <1>6, <1>7, <1>8, <1>9, <1>10, <1>11, <1>12, <1>13, <1>14, <1>15, <1>16, <1>17, <1>18, <1>19, <1>20, <1>21
     DEF Next, Environment, DispatcherStep, WorkerStep, IndexPanic

(* What a status update does to the table.                                  *)
LEMMA RowWritten ==
  ASSUME TypeOK, RowHeld, NEW w \in Workers, HasRow(w),
         NEW status \in Verdicts, WriteStatus(w, status)
  PROVE  /\ held[w] \in Rows
         /\ row[held[w]] # NoRow
         /\ \A r \in Rows \ {held[w]} : row'[r] = row[r]
         /\ row'[held[w]] # NoRow
         /\ row'[held[w]].key = row[held[w]].key
         /\ row'[held[w]].status = status
<1>1. held[w] \in Rows /\ row[held[w]] # NoRow
  BY DEF RowHeld
<1>2. row[held[w]] \in RowValue /\ row \in [Rows -> RowValue \cup {NoRow}]
  BY <1>1 DEF TypeOK
<1>3. row'[held[w]] = [row[held[w]] EXCEPT !.status = status]
  BY <1>1, <1>2 DEF WriteStatus
<1>4. row'[held[w]] \in RowValue
  BY <1>2, <1>3
<1> QED
  BY <1>1, <1>2, <1>3, <1>4, ConstantsAssumption DEF WriteStatus

(* What a goroutine holds stays a row of its key while keys stay.           *)
LEMMA RowHeldPersists ==
  ASSUME RowHeld, UNCHANGED <<job, held>>,
         \A r \in Rows : row[r] # NoRow => row'[r] # NoRow /\ row'[r].key = row[r].key,
         \A v \in Workers : /\ pc'[v] # "none" => pc[v] # "none"
                            /\ HasRow(v)' => HasRow(v)
  PROVE  RowHeld'
<1>1. ASSUME NEW v \in Workers
      PROVE  /\ pc'[v] # "none" => job'[v] \in Tasks
             /\ HasRow(v)' => /\ held'[v] \in Rows
                              /\ row'[held'[v]] # NoRow
                              /\ row'[held'[v]].key = Key(v)'
  BY <1>1 DEF RowHeld, Key
<1> QED
  BY <1>1 DEF RowHeld

(* A goroutine keeps the row it found: rows are only inserted where there   *)
(* is none, and an update leaves the key alone.                             *)
LEMMA RowHeldStep ==
  ASSUME TypeOK, RowHeld, [Next]_vars
  PROVE  RowHeld'
<1>1. ASSUME NEW t \in Tasks, Enqueue(t) PROVE RowHeld'
  BY <1>1, ConstantsAssumption DEF TypeOK, RowHeld, HasRow, Polling, Key, Enqueue, store
<1>2. ASSUME NEW r \in Rows, NEW k \in Keys, InsertRow(r, k) PROVE RowHeld'
  BY <1>2, ConstantsAssumption DEF TypeOK, RowHeld, HasRow, Polling, Key, InsertRow, memory
<1>3. CASE StartCtxExpires
  BY <1>3, ConstantsAssumption DEF TypeOK, RowHeld, HasRow, Polling, Key, StartCtxExpires, store
<1>4. CASE DispatcherReturns
  BY <1>4, ConstantsAssumption DEF TypeOK, RowHeld, HasRow, Polling, Key, DispatcherReturns, store
<1>5. ASSUME NEW d \in Dispatchers, Receive(d) PROVE RowHeld'
  BY <1>5, ConstantsAssumption DEF TypeOK, RowHeld, HasRow, Polling, Key, Receive, store
<1>6. ASSUME NEW d \in Dispatchers, NEW w \in Workers, Start(d, w) PROVE RowHeld'
  <2>1. pc'[w] = "query" /\ job'[w] \in Tasks
    BY <1>6 DEF TypeOK, Start
  <2>2. \A v \in Workers \ {w} : pc'[v] = pc[v] /\ job'[v] = job[v]
    BY <1>6 DEF TypeOK, Start
  <2> QED
    BY <1>6, <2>1, <2>2 DEF RowHeld, HasRow, Polling, Key, Start, store
<1>7. ASSUME NEW w \in Workers, QueryFails(w) PROVE RowHeld'
  BY <1>7, ConstantsAssumption DEF TypeOK, RowHeld, HasRow, Polling, Key, QueryFails, Goto, ReturnWith, store
<1>8. ASSUME NEW w \in Workers, QueryFindsNotOne(w) PROVE RowHeld'
  BY <1>8, ConstantsAssumption DEF TypeOK, RowHeld, HasRow, Polling, Key, QueryFindsNotOne, Goto, ReturnWith, store
<1>9. ASSUME NEW w \in Workers, QueryFindsRow(w) PROVE RowHeld'
  <2>1. PICK r \in Rows : RowsOf(Key(w)) = {r} /\ held' = [held EXCEPT ![w] = r]
    BY <1>9 DEF QueryFindsRow
  <2>2. row[r] # NoRow /\ row[r].key = Key(w)
    BY <2>1 DEF RowsOf
  <2>3. held'[w] = r /\ \A v \in Workers \ {w} : pc'[v] = pc[v] /\ held'[v] = held[v]
    BY <1>9, <2>1 DEF TypeOK, QueryFindsRow, Goto
  <2> QED
    BY <1>9, <2>2, <2>3 DEF RowHeld, HasRow, Polling, Key, QueryFindsRow, store
<1>10. ASSUME NEW w \in Workers, RestoreAccepted(w) PROVE RowHeld'
  BY <1>10, ConstantsAssumption DEF TypeOK, RowHeld, HasRow, Polling, Key, RestoreAccepted, Goto
<1>11. ASSUME NEW w \in Workers, RestoreRefused(w) PROVE RowHeld'
  BY <1>11, ConstantsAssumption DEF TypeOK, RowHeld, HasRow, Polling, Key, RestoreRefused, Goto, store
<1>12. ASSUME NEW w \in Workers, MarkFailed(w) PROVE RowHeld'
  <2>1. \A r \in Rows : row[r] # NoRow => row'[r] # NoRow /\ row'[r].key = row[r].key
    BY <1>12, RowWritten DEF MarkFailed, HasRow, Polling
  <2>2. \A v \in Workers : /\ pc'[v] # "none" => pc[v] # "none"
                           /\ HasRow(v)' => HasRow(v)
    BY <1>12 DEF TypeOK, MarkFailed, Goto, ReturnWith, HasRow, Polling
  <2> QED
    BY <1>12, <2>1, <2>2, RowHeldPersists DEF MarkFailed
<1>13. ASSUME NEW w \in Workers, PollSaysComplete(w) PROVE RowHeld'
  BY <1>13, ConstantsAssumption DEF TypeOK, RowHeld, HasRow, Polling, Key, PollSaysComplete, Goto, store
<1>14. ASSUME NEW w \in Workers, MarkSuccess(w) PROVE RowHeld'
  <2>1. \A r \in Rows : row[r] # NoRow => row'[r] # NoRow /\ row'[r].key = row[r].key
    BY <1>14, RowWritten DEF MarkSuccess, HasRow, Polling
  <2>2. \A v \in Workers : /\ pc'[v] # "none" => pc[v] # "none"
                           /\ HasRow(v)' => HasRow(v)
    BY <1>14 DEF TypeOK, MarkSuccess, Goto, ReturnWith, HasRow, Polling
  <2> QED
    BY <1>14, <2>1, <2>2, RowHeldPersists DEF MarkSuccess
<1>15. ASSUME NEW w \in Workers, MarkSuccessFails(w) PROVE RowHeld'
  <2>1. \A r \in Rows : row[r] # NoRow => row'[r] # NoRow /\ row'[r].key = row[r].key
    BY <1>15, RowWritten DEF MarkSuccessFails, HasRow, Polling
  <2>2. \A v \in Workers : /\ pc'[v] # "none" => pc[v] # "none"
                           /\ HasRow(v)' => HasRow(v)
    BY <1>15 DEF TypeOK, MarkSuccessFails, Goto, HasRow, Polling
  <2> QED
    BY <1>15, <2>1, <2>2, RowHeldPersists DEF MarkSuccessFails
<1>16. ASSUME NEW w \in Workers, Timeout(w) PROVE RowHeld'
  BY <1>16, ConstantsAssumption DEF TypeOK, RowHeld, HasRow, Polling, Key, Timeout, Goto, store
<1>17. ASSUME NEW w \in Workers, MarkTimeout(w) PROVE RowHeld'
  <2>1. \A r \in Rows : row[r] # NoRow => row'[r] # NoRow /\ row'[r].key = row[r].key
    BY <1>17, RowWritten DEF MarkTimeout, HasRow, Polling
  <2>2. \A v \in Workers : /\ pc'[v] # "none" => pc[v] # "none"
                           /\ HasRow(v)' => HasRow(v)
    BY <1>17 DEF TypeOK, MarkTimeout, Goto, ReturnWith, HasRow, Polling
  <2> QED
    BY <1>17, <2>1, <2>2, RowHeldPersists DEF MarkTimeout
<1>18. ASSUME NEW w \in Workers, Report(w) PROVE RowHeld'
  BY <1>18, ConstantsAssumption DEF TypeOK, RowHeld, HasRow, Polling, Key, Report, Goto
<1>19. ASSUME NEW i \in Indices, RecoveryCompletes(i) PROVE RowHeld'
  BY <1>19, ConstantsAssumption DEF TypeOK, RowHeld, HasRow, Polling, Key, RecoveryCompletes, memory
<1>20. CASE Restart
  BY <1>20, ConstantsAssumption DEF TypeOK, RowHeld, HasRow, Polling, Key, Restart, store, NoGoroutine
<1>21. CASE UNCHANGED vars
  BY <1>21, ConstantsAssumption DEF TypeOK, RowHeld, HasRow, Polling, Key, vars, store
<1> QED
  BY <1>1, <1>2, <1>3, <1>4, <1>5, <1>6, <1>7, <1>8, <1>9, <1>10, <1>11, <1>12, <1>13, <1>14, <1>15, <1>16, <1>17, <1>18, <1>19, <1>20, <1>21
     DEF Next, Environment, DispatcherStep, WorkerStep, IndexPanic

(* What goroutines hold and rows name are indices.                          *)
LEMMA IndexTyped ==
  ASSUME TypeOK, RowHeld
  PROVE  /\ \A w \in Workers : Polling(w) => Index(w) \in Indices
         /\ \A r \in Rows : Claims(r) => IndexOf[row[r].key] \in Indices
<1>1. \A r \in Rows : row[r] # NoRow => row[r].key \in Keys
  BY DEF TypeOK
<1>2. \A k \in Keys : IndexOf[k] \in Indices
  BY ConstantsAssumption
<1> QED
  BY <1>1, <1>2 DEF RowHeld, HasRow, Index, Key, Claims

(* Claims stay unique in a step that makes none.                            *)
LEMMA ClaimsPersist ==
  ASSUME TypeOK, RowHeld, ClaimsAreUnique,
         \A w \in Workers : Polling(w)' => Polling(w) /\ Index(w)' = Index(w),
         \A w \in Workers, r \in Rows : Polling(w)' /\ Doubts(w, r) => Doubts(w, r)',
         \A r \in Rows : Claims(r)' => Claims(r) /\ row'[r].key = row[r].key,
         \A i \in Indices : restored[i] # "absent" => restored'[i] # "absent"
  PROVE  ClaimsAreUnique'
BY IndexTyped DEF ClaimsAreUnique, VerdictHasRestore, OneRowPerRestore

(* Claims stay unique when a goroutine hands its claim over to its row, or   *)
(* keeps it because it cannot be sure to have done so.                      *)
LEMMA ClaimPasses ==
  ASSUME TypeOK, RowHeld, ClaimsAreUnique, UNCHANGED restored,
         NEW w \in Workers, Polling(w),
         Polling(w)' => held'[w] = held[w] /\ outcome'[w] = "unsure",
         \A v \in Workers : Polling(v)' => Polling(v) /\ Index(v)' = Index(v),
         \A v \in Workers, r \in Rows : Polling(v)' /\ Doubts(v, r) => Doubts(v, r)',
         \A r \in Rows \ {held[w]} : row'[r] = row[r],
         row'[held[w]].key = row[held[w]].key
  PROVE  ClaimsAreUnique'
<1>1. IndexOf[row'[held[w]].key] = Index(w)
  BY DEF RowHeld, HasRow, Index
<1>2. \A r \in Rows : Claims(r)' => \/ r = held[w]
                                    \/ Claims(r) /\ row'[r].key = row[r].key
  BY DEF Claims
<1>3. VerdictHasRestore'
  BY <1>1, <1>2 DEF ClaimsAreUnique, VerdictHasRestore
<1>4. OneRowPerRestore'
  <2>1. \A r \in Rows : Claims(r) /\ IndexOf[row[r].key] = Index(w) => r = held[w]
    BY DEF ClaimsAreUnique, Doubts
  <2> QED
    BY <1>1, <1>2, <2>1 DEF ClaimsAreUnique, OneRowPerRestore
<1>5. ASSUME NEW v \in Workers, Polling(v)'
      PROVE  /\ restored'[Index(v)'] # "absent"
             /\ \A u \in Workers : Polling(u)' /\ Index(u)' = Index(v)' => u = v
             /\ \A r \in Rows : Claims(r)' /\ IndexOf[row'[r].key] = Index(v)'
                               => Doubts(v, r)'
  <2>1. Polling(v) /\ Index(v)' = Index(v)
    BY <1>5
  <2>2. /\ restored'[Index(v)'] # "absent"
        /\ \A u \in Workers : Polling(u)' /\ Index(u)' = Index(v)' => u = v
    BY <2>1 DEF ClaimsAreUnique
  <2>3. ASSUME NEW r \in Rows, Claims(r)', IndexOf[row'[r].key] = Index(v)'
        PROVE  Doubts(v, r)'
    <3>1. CASE r = held[w]
      <4>1. v = w
        BY <1>1, <2>1, <2>3, <3>1 DEF ClaimsAreUnique
      <4> QED
        BY <1>5, <3>1, <4>1 DEF Doubts
    <3>2. CASE r # held[w]
      <4>1. Doubts(v, r)
        BY <1>2, <2>1, <2>3, <3>2 DEF ClaimsAreUnique
      <4> QED
        BY <1>5, <4>1
    <3> QED
      BY <3>1, <3>2
  <2> QED
    BY <2>2, <2>3
<1> QED
  BY <1>3, <1>4, <1>5 DEF ClaimsAreUnique

(* A claim begins when Elasticsearch accepts a request, which it does only  *)
(* when no index of that name exists, so when no claim on it does; it       *)
(* passes from the goroutine to its row or disappears.                      *)
LEMMA ClaimsStep ==
  ASSUME TypeOK, RowHeld, ClaimsAreUnique, [Next]_vars
  PROVE  ClaimsAreUnique'
<1>1. ASSUME NEW t \in Tasks, Enqueue(t) PROVE ClaimsAreUnique'
  BY <1>1, ClaimsPersist DEF Polling, Doubts, Claims, Index, Key, Enqueue, store
<1>2. ASSUME NEW r \in Rows, NEW k \in Keys, InsertRow(r, k) PROVE ClaimsAreUnique'
  <2>1. \A q \in Rows : Claims(q)' => Claims(q) /\ row'[q].key = row[q].key
    BY <1>2 DEF TypeOK, Claims, InsertRow
  <2> QED
    BY <1>2, <2>1, ClaimsPersist DEF Polling, Doubts, Index, Key, InsertRow, memory
<1>3. CASE StartCtxExpires
  BY <1>3, ClaimsPersist DEF Polling, Doubts, Claims, Index, Key, StartCtxExpires, store
<1>4. CASE DispatcherReturns
  BY <1>4, ClaimsPersist DEF Polling, Doubts, Claims, Index, Key, DispatcherReturns, store
<1>5. ASSUME NEW d \in Dispatchers, Receive(d) PROVE ClaimsAreUnique'
  BY <1>5, ClaimsPersist DEF Polling, Doubts, Claims, Index, Key, Receive, store
<1>6. ASSUME NEW d \in Dispatchers, NEW w \in Workers, Start(d, w) PROVE ClaimsAreUnique'
  BY <1>6, ClaimsPersist DEF TypeOK, Polling, Doubts, Claims, Index, Key, Start, store
<1>7. ASSUME NEW w \in Workers, QueryFails(w) PROVE ClaimsAreUnique'
  BY <1>7, ClaimsPersist DEF TypeOK, Polling, Doubts, Claims, Index, Key, QueryFails, Goto, ReturnWith, store
<1>8. ASSUME NEW w \in Workers, QueryFindsNotOne(w) PROVE ClaimsAreUnique'
  BY <1>8, ClaimsPersist DEF TypeOK, Polling, Doubts, Claims, Index, Key, QueryFindsNotOne, Goto, ReturnWith, store
<1>9. ASSUME NEW w \in Workers, QueryFindsRow(w) PROVE ClaimsAreUnique'
  BY <1>9, ClaimsPersist DEF TypeOK, Polling, Doubts, Claims, Index, Key, QueryFindsRow, Goto, store, RowsOf
<1>10. ASSUME NEW w \in Workers, RestoreAccepted(w) PROVE ClaimsAreUnique'
  <2> DEFINE i == Index(w)
  <2>1. HasRow(w) /\ i \in Indices
    <3>1. HasRow(w)
      BY <1>10 DEF RestoreAccepted, HasRow
    <3>2. Key(w) \in Keys
      <4>1. held[w] \in Rows /\ row[held[w]] # NoRow /\ row[held[w]].key = Key(w)
        BY <3>1 DEF RowHeld
      <4>2. row[held[w]] \in RowValue
        BY <4>1 DEF TypeOK
      <4> QED
        BY <4>1, <4>2
    <3> QED
      BY <3>1, <3>2, ConstantsAssumption DEF Index
  <2>2. /\ restored[i] = "absent"
        /\ restored'[i] # "absent"
        /\ \A j \in Indices \ {i} : restored'[j] = restored[j]
    BY <1>10, <2>1 DEF TypeOK, RestoreAccepted
  <2>3. \A v \in Workers : /\ Index(v)' = Index(v)
                           /\ Polling(v)' => v = w \/ Polling(v)
    BY <1>10 DEF TypeOK, RestoreAccepted, Goto, Index, Key, Polling
  <2>4. \A r \in Rows : row'[r] = row[r] /\ (Claims(r)' <=> Claims(r))
    BY <1>10 DEF RestoreAccepted, Claims
  <2>5. /\ \A v \in Workers : Polling(v) => Index(v) # i
        /\ \A r \in Rows : Claims(r) => IndexOf[row[r].key] # i
    BY <2>2 DEF ClaimsAreUnique, VerdictHasRestore
  <2>6. VerdictHasRestore' /\ OneRowPerRestore'
    BY <2>2, <2>4, <2>5, IndexTyped DEF ClaimsAreUnique, VerdictHasRestore, OneRowPerRestore
  <2>7. ASSUME NEW v \in Workers, Polling(v)'
        PROVE  /\ Index(v)' \in Indices /\ restored'[Index(v)'] # "absent"
               /\ \A u \in Workers : Polling(u)' /\ Index(u)' = Index(v)' => u = v
               /\ \A r \in Rows : Claims(r)' /\ IndexOf[row'[r].key] = Index(v)'
                                 => Doubts(v, r)'
    <3>1. CASE v = w
      BY <2>1, <2>2, <2>3, <2>4, <2>5, <3>1
    <3>2. CASE v # w
      <4>1. Polling(v) /\ Index(v)' = Index(v) /\ Index(v) # i
        BY <2>3, <2>5, <2>7, <3>2
      <4>2. \A r \in Rows : Doubts(v, r)' <=> Doubts(v, r)
        BY <1>10 DEF RestoreAccepted, Doubts
      <4> QED
        BY <2>2, <2>3, <2>4, <4>1, <4>2, IndexTyped DEF ClaimsAreUnique
    <3> QED
      BY <3>1, <3>2
  <2> HIDE DEF i
  <2> QED
    BY <2>6, <2>7 DEF ClaimsAreUnique
<1>11. ASSUME NEW w \in Workers, RestoreRefused(w) PROVE ClaimsAreUnique'
  BY <1>11, ClaimsPersist DEF TypeOK, Polling, Doubts, Claims, Index, Key, RestoreRefused, Goto, store
<1>12. ASSUME NEW w \in Workers, MarkFailed(w) PROVE ClaimsAreUnique'
  <2>1. \A r \in Rows : Claims(r)' => Claims(r) /\ row'[r].key = row[r].key
    BY <1>12, RowWritten DEF MarkFailed, HasRow, Claims
  <2> QED
    BY <1>12, <2>1, ClaimsPersist
       DEF TypeOK, Polling, Doubts, Index, Key, MarkFailed, Goto, ReturnWith
<1>13. ASSUME NEW w \in Workers, PollSaysComplete(w) PROVE ClaimsAreUnique'
  BY <1>13, ClaimsPersist DEF TypeOK, Polling, Doubts, Claims, Index, Key, PollSaysComplete, Goto, store
<1>14. ASSUME NEW w \in Workers, MarkSuccess(w) PROVE ClaimsAreUnique'
  <2>1. Polling(w) /\ HasRow(w) /\ ~Polling(w)'
    BY <1>14 DEF TypeOK, MarkSuccess, Goto, ReturnWith, HasRow, Polling
  <2>2. \A v \in Workers :
          Polling(v)' => /\ Polling(v) /\ Index(v)' = Index(v)
                         /\ \A r \in Rows : Doubts(v, r) => Doubts(v, r)'
    BY <1>14 DEF TypeOK, MarkSuccess, Goto, ReturnWith, Polling, Index, Key, Doubts
  <2>3. /\ \A r \in Rows \ {held[w]} : row'[r] = row[r]
        /\ row'[held[w]].key = row[held[w]].key
    BY <1>14, <2>1, RowWritten DEF MarkSuccess
  <2> QED
    BY <1>14, <2>1, <2>2, <2>3, ClaimPasses DEF MarkSuccess
<1>15. ASSUME NEW w \in Workers, MarkSuccessFails(w) PROVE ClaimsAreUnique'
  <2>1. Polling(w) /\ HasRow(w) /\ held'[w] = held[w] /\ outcome'[w] = "unsure"
    BY <1>15 DEF TypeOK, MarkSuccessFails, Goto, HasRow, Polling
  <2>2. \A v \in Workers : /\ Polling(v)' => Polling(v) /\ Index(v)' = Index(v)
                           /\ \A r \in Rows : Doubts(v, r) => Doubts(v, r)'
    BY <1>15 DEF TypeOK, MarkSuccessFails, Goto, Polling, Index, Key, Doubts
  <2>3. /\ \A r \in Rows \ {held[w]} : row'[r] = row[r]
        /\ row'[held[w]].key = row[held[w]].key
    BY <1>15, <2>1, RowWritten DEF MarkSuccessFails
  <2> QED
    BY <1>15, <2>1, <2>2, <2>3, ClaimPasses DEF MarkSuccessFails
<1>16. ASSUME NEW w \in Workers, Timeout(w) PROVE ClaimsAreUnique'
  BY <1>16, ClaimsPersist DEF TypeOK, Polling, Doubts, Claims, Index, Key, Timeout, Goto, store
<1>17. ASSUME NEW w \in Workers, MarkTimeout(w) PROVE ClaimsAreUnique'
  <2>1. Polling(w) /\ HasRow(w) /\ ~Polling(w)'
    BY <1>17 DEF TypeOK, MarkTimeout, Goto, ReturnWith, HasRow, Polling
  <2>2. \A v \in Workers :
          Polling(v)' => /\ Polling(v) /\ Index(v)' = Index(v)
                         /\ \A r \in Rows : Doubts(v, r) => Doubts(v, r)'
    BY <1>17 DEF TypeOK, MarkTimeout, Goto, ReturnWith, Polling, Index, Key, Doubts
  <2>3. /\ \A r \in Rows \ {held[w]} : row'[r] = row[r]
        /\ row'[held[w]].key = row[held[w]].key
    BY <1>17, <2>1, RowWritten DEF MarkTimeout
  <2> QED
    BY <1>17, <2>1, <2>2, <2>3, ClaimPasses DEF MarkTimeout
<1>18. ASSUME NEW w \in Workers, Report(w) PROVE ClaimsAreUnique'
  BY <1>18, ClaimsPersist DEF TypeOK, Polling, Doubts, Claims, Index, Key, Report, Goto
<1>19. ASSUME NEW i \in Indices, RecoveryCompletes(i) PROVE ClaimsAreUnique'
  BY <1>19, ClaimsPersist DEF Polling, Doubts, Claims, Index, Key, RecoveryCompletes, memory
<1>20. CASE Restart
  BY <1>20, ClaimsPersist DEF Polling, Doubts, Claims, Index, Key, Restart, store, NoGoroutine
<1>21. CASE UNCHANGED vars
  BY <1>21, ClaimsPersist DEF Polling, Doubts, Claims, Index, Key, vars, store
<1> QED
  BY <1>1, <1>2, <1>3, <1>4, <1>5, <1>6, <1>7, <1>8, <1>9, <1>10, <1>11, <1>12, <1>13, <1>14, <1>15, <1>16, <1>17, <1>18, <1>19, <1>20, <1>21
     DEF Next, Environment, DispatcherStep, WorkerStep, IndexPanic

-----------------------------------------------------------------------------
(* The inductive invariant and what follows from it.                        *)

LEMMA IInvInit == Init => IInv
<1> SUFFICES ASSUME Init PROVE IInv
  OBVIOUS
<1>1. /\ queue \in Seq(Tasks)
      /\ hand \in [Dispatchers -> Tasks \cup {NoTask}]
      /\ sem \in Nat
      /\ sent \in [Keys -> 0..2]
  <2>1. sent = [k \in Keys |-> 0]
    BY DEF Init
  <2>2. sent \in [Keys -> 0..2]
    BY <2>1
  <2>3. sem \in Nat
    BY DEF Init
  <2>4. queue = <<>> /\ hand = [d \in Dispatchers |-> NoTask]
    BY DEF Init, NoHand
  <2>5. queue \in Seq(Tasks)
    BY <2>4
  <2> QED
    BY <2>2, <2>3, <2>4, <2>5
<1>2. TypeOK
  BY <1>1 DEF Init, TypeOK, NoGoroutine, NoJob, NothingHeld, NoOutcome
<1>3. Active = {} /\ sem = 0
  BY DEF Init, Active, NoGoroutine
<1>4. SlotsAccounted
  BY <1>3, FS_EmptySet, ConcurrencyIsNat DEF SlotsAccounted
<1>5. RowHeld /\ ClaimsAreUnique
  BY DEF Init, NoGoroutine, RowHeld, HasRow, Polling, ClaimsAreUnique,
         VerdictHasRestore, OneRowPerRestore, Claims
<1> QED
  BY <1>2, <1>4, <1>5 DEF IInv

(* Every step keeps the inductive invariant.                                *)
LEMMA IInvStep == IInv /\ [Next]_vars => IInv'
BY TypeStep, SlotsStep, RowHeldStep, ClaimsStep DEF IInv

(* IInv holds in every reachable state.                                     *)
THEOREM IInvHolds == Spec => []IInv
BY IInvInit, IInvStep, PTL DEF Spec

(* The variables have their types: in particular no statement ever updates  *)
(* a row that is not there, and sem never falls below zero.                 *)
THEOREM TypeCorrect == Spec => []TypeOK
BY IInvHolds, PTL DEF IInv

(* sem counts the running goroutines and es.concurrency bounds them.        *)
THEOREM SlotsAreAccounted == Spec => []SlotsAccounted
BY IInvHolds, PTL DEF IInv

(* A row says SUCCESS or TIMEOUT only of a restore that was accepted.       *)
THEOREM VerdictsHaveRestores == Spec => []VerdictHasRestore
BY IInvHolds, PTL DEF IInv, ClaimsAreUnique

(* At most one row takes credit for a restored index.                       *)
THEOREM OneRowTakesCredit == Spec => []OneRowPerRestore
BY IInvHolds, PTL DEF IInv, ClaimsAreUnique

-----------------------------------------------------------------------------
(* VerdictIsFinal: a send is a token that moves from the queue to a hand to *)
(* a goroutine and is never copied, so a key that was sent once has one     *)
(* token at most, and it is spent when the verdict is in the row.           *)

(* The tokens of key k: its places in the queue, the hands and the          *)
(* goroutines that carry it.                                                *)
InQueue(k) == {i \in DOMAIN queue : SpecKey[queue[i]] = k}
InHand(k) == {d \in Dispatchers : hand[d] # NoTask /\ SpecKey[hand[d]] = k}
AtWork(k) == {w \in Workers : pc[w] # "none" /\ Key(w) = k}

(* The row r has a verdict on k, and some row has.                          *)
Verdict(r, k) == row[r] # NoRow /\ row[r].key = k /\ row[r].status \in Verdicts
Settled(k) == \E r \in Rows : Verdict(r, k)

(* A goroutine with nothing left to do for k but to report, or to write     *)
(* again in the row whose UPDATE to SUCCESS returned an error.              *)
Retries(w, k) ==
  /\ Polling(w)
  /\ \A r \in Rows : Verdict(r, k) => row[r].status = "SUCCESS" /\ Doubts(w, r)
Spent(w, k) == pc[w] = "report" \/ Retries(w, k)

AtMostOne(S) == \A x, y \in S : x = y

OneToken(k) ==
  /\ AtMostOne(InQueue(k)) /\ AtMostOne(InHand(k)) /\ AtMostOne(AtWork(k))
  /\ InQueue(k) = {} \/ InHand(k) = {}
  /\ InQueue(k) = {} \/ AtWork(k) = {}
  /\ InHand(k) = {} \/ AtWork(k) = {}

(* A key sent once at most: it has one token at most, none before it is     *)
(* sent, and once a row has the verdict the goroutine is spent.             *)
SentOnce(k) ==
  sent[k] # 2 =>
    /\ OneToken(k)
    /\ sent[k] = 0 => /\ InQueue(k) = {} /\ InHand(k) = {} /\ AtWork(k) = {}
                      /\ ~Settled(k)
    /\ Settled(k) => /\ InQueue(k) = {} /\ InHand(k) = {}
                     /\ \A w \in AtWork(k) : Spent(w, k)

AllSentOnce == \A k \in Keys : SentOnce(k)

(* The parts of SentOnce(k), for a key sent once at most.                   *)
LEMMA OnceParts ==
  ASSUME NEW k \in Keys, SentOnce(k), sent[k] # 2
  PROVE  /\ \A x, y \in InQueue(k) : x = y
         /\ \A x, y \in InHand(k) : x = y
         /\ \A x, y \in AtWork(k) : x = y
         /\ InQueue(k) = {} \/ InHand(k) = {}
         /\ InQueue(k) = {} \/ AtWork(k) = {}
         /\ InHand(k) = {} \/ AtWork(k) = {}
         /\ sent[k] = 0 => /\ InQueue(k) = {} /\ InHand(k) = {} /\ AtWork(k) = {}
                           /\ ~Settled(k)
         /\ Settled(k) => /\ InQueue(k) = {} /\ InHand(k) = {}
                          /\ \A w \in AtWork(k) : Spent(w, k)
BY DEF SentOnce, OneToken, AtMostOne

(* A step that moves no token and gives no verdict keeps SentOnce.          *)
LEMMA OnceStays ==
  ASSUME NEW k \in Keys, SentOnce(k), sent'[k] = sent[k],
         InQueue(k)' \subseteq InQueue(k),
         InHand(k)' \subseteq InHand(k),
         AtWork(k)' \subseteq AtWork(k),
         \A w \in AtWork(k) : Spent(w, k) /\ w \in AtWork(k)' => Spent(w, k)',
         Settled(k)' => Settled(k)
  PROVE  SentOnce(k)'
<1>1. ASSUME sent[k] # 2
      PROVE  /\ OneToken(k)'
             /\ sent[k] = 0 => /\ InQueue(k)' = {} /\ InHand(k)' = {} /\ AtWork(k)' = {}
                               /\ ~Settled(k)'
             /\ Settled(k)' => /\ InQueue(k)' = {} /\ InHand(k)' = {}
                               /\ \A w \in AtWork(k)' : Spent(w, k)'
  <2>1. OneToken(k)'
    BY <1>1, OnceParts DEF OneToken, AtMostOne
  <2>2. sent[k] = 0 => /\ InQueue(k)' = {} /\ InHand(k)' = {} /\ AtWork(k)' = {}
                       /\ ~Settled(k)'
    BY <1>1, OnceParts
  <2>3. Settled(k)' => /\ InQueue(k)' = {} /\ InHand(k)' = {}
                       /\ \A w \in AtWork(k)' : Spent(w, k)'
    BY <1>1, OnceParts
  <2> QED
    BY <2>1, <2>2, <2>3
<1> QED
  BY <1>1 DEF SentOnce

(* A token moves on: it leaves the place it was in, and reaches one other.  *)
LEMMA OnceMoves ==
  ASSUME NEW k \in Keys, SentOnce(k), sent[k] # 2, sent'[k] = sent[k],
         ~Settled(k), ~Settled(k)', sent[k] # 0,
         OneToken(k)'
  PROVE  SentOnce(k)'
BY DEF SentOnce

(* What is spent stays so while its own variables and the rows of k do.     *)
LEMMA SpentStays ==
  ASSUME NEW k \in Keys, NEW w \in Workers, Spent(w, k),
         pc[w] = "report" => pc'[w] = "report",
         Polling(w) => Polling(w)' /\ held'[w] = held[w] /\ outcome'[w] = outcome[w],
         \A r \in Rows : Verdict(r, k)' => Verdict(r, k) /\ row'[r] = row[r]
  PROVE  Spent(w, k)'
<1>1. CASE pc[w] = "report"
  BY <1>1 DEF Spent
<1>2. CASE Retries(w, k)
  BY <1>2 DEF Spent, Retries, Doubts
<1> QED
  BY <1>1, <1>2 DEF Spent

(* A goroutine that writes in its row disturbs no other key.                *)
LEMMA OnceOthers ==
  ASSUME TypeOK, RowHeld, NEW k \in Keys, SentOnce(k),
         NEW w \in Workers, HasRow(w), k # Key(w),
         \E l \in ProgramCounter \ {"none"} : Goto(w, l),
         NEW status \in Verdicts, WriteStatus(w, status) \/ UNCHANGED row,
         \A v \in Workers \ {w} : held'[v] = held[v] /\ outcome'[v] = outcome[v],
         UNCHANGED <<queue, hand, job, sent>>
  PROVE  SentOnce(k)'
<1>1. AtWork(k)' = AtWork(k) /\ w \notin AtWork(k)
  <2>1. pc[w] # "none" /\ pc'[w] # "none" /\ \A v \in Workers \ {w} : pc'[v] = pc[v]
    BY DEF TypeOK, HasRow, Polling, Goto
  <2> QED
    BY <2>1 DEF AtWork, Key
<1>2. \A r \in Rows : Verdict(r, k)' => Verdict(r, k) /\ row'[r] = row[r]
  <2>1. CASE WriteStatus(w, status)
    <3>1. /\ row[held[w]].key = Key(w)
          /\ row'[held[w]].key = Key(w)
          /\ \A r \in Rows \ {held[w]} : row'[r] = row[r]
      BY <2>1, RowWritten DEF RowHeld
    <3> QED
      BY <3>1 DEF Verdict
  <2>2. CASE UNCHANGED row
    BY <2>2 DEF Verdict
  <2> QED
    BY <2>1, <2>2
<1>3. Settled(k)' => Settled(k)
  BY <1>2 DEF Settled
<1>4. ASSUME NEW v \in AtWork(k), Spent(v, k) PROVE Spent(v, k)'
  <2>1. /\ v \in Workers \ {w} /\ pc'[v] = pc[v]
        /\ held'[v] = held[v] /\ outcome'[v] = outcome[v]
    BY <1>1, <1>4 DEF TypeOK, AtWork, Goto
  <2>2. Polling(v) => Polling(v)'
    BY <2>1 DEF Polling
  <2> QED
    BY <1>2, <1>4, <2>1, <2>2, SpentStays
<1> QED
  BY <1>1, <1>3, <1>4, OnceStays DEF InQueue, InHand

(* The goroutine of a key that was sent once and has a row to write in.     *)
LEMMA OnceAlone ==
  ASSUME TypeOK, RowHeld, NEW w \in Workers, HasRow(w), Key(w) \in Keys,
         SentOnce(Key(w)), sent[Key(w)] # 2
  PROVE  /\ sent[Key(w)] # 0
         /\ InQueue(Key(w)) = {} /\ InHand(Key(w)) = {} /\ AtWork(Key(w)) = {w}
         /\ \A r \in Rows : Verdict(r, Key(w)) => row[r].status = "SUCCESS" /\ Doubts(w, r)
<1>1. w \in AtWork(Key(w)) /\ pc[w] # "report"
  BY DEF AtWork, HasRow, Polling
<1>2. /\ sent[Key(w)] # 0
      /\ InQueue(Key(w)) = {} /\ InHand(Key(w)) = {} /\ AtWork(Key(w)) = {w}
      /\ Settled(Key(w)) => Spent(w, Key(w))
  BY <1>1, OnceParts
<1> QED
  BY <1>1, <1>2 DEF Settled, Spent, Retries

(* Whoever writes a status writes in the one row of its key that can have a *)
(* verdict, and then has only to report, or to write SUCCESS again.         *)
LEMMA OnceSettles ==
  ASSUME TypeOK, RowHeld, NEW k \in Keys, SentOnce(k), NEW w \in Workers, HasRow(w),
         NEW l \in {"report", "select"}, Goto(w, l),
         NEW status \in Verdicts, WriteStatus(w, status) \/ UNCHANGED row,
         l = "select" => status = "SUCCESS" /\ outcome'[w] = "unsure",
         \A v \in Workers \ {w} : outcome'[v] = outcome[v],
         UNCHANGED <<queue, hand, job, held, sent>>
  PROVE  SentOnce(k)'
<1>1. /\ InQueue(k)' = InQueue(k) /\ InHand(k)' = InHand(k)
      /\ AtWork(k)' = AtWork(k)
  BY DEF TypeOK, InQueue, InHand, AtWork, Key, HasRow, Polling, Goto
<1>2. CASE k = Key(w) /\ sent[k] # 2
  <2>1. /\ sent[k] # 0
        /\ InQueue(k) = {} /\ InHand(k) = {} /\ AtWork(k) = {w}
        /\ \A r \in Rows : Verdict(r, k) => row[r].status = "SUCCESS" /\ Doubts(w, r)
    BY <1>2, OnceAlone
  <2>2. OneToken(k)'
    BY <1>1, <1>2 DEF SentOnce, OneToken
  <2>3. pc'[w] = l
    BY DEF TypeOK, Goto
  <2>4. ASSUME l = "select", NEW r \in Rows, Verdict(r, k)'
        PROVE  row'[r].status = "SUCCESS" /\ Doubts(w, r)'
    <3>1. CASE WriteStatus(w, status)
      <4>1. /\ row'[held[w]].status = "SUCCESS"
            /\ \A q \in Rows \ {held[w]} : row'[q] = row[q]
        BY <2>4, <3>1, RowWritten
      <4>2. r # held[w] => Verdict(r, k)
        BY <2>4, <4>1 DEF Verdict
      <4>3. r = held[w]
        BY <2>1, <4>2 DEF Doubts
      <4> QED
        BY <2>4, <4>1, <4>3 DEF Doubts
    <3>2. CASE UNCHANGED row
      <4>1. Verdict(r, k)
        BY <2>4, <3>2 DEF Verdict
      <4> QED
        BY <2>1, <2>4, <3>2, <4>1 DEF Doubts
    <3> QED
      BY <3>1, <3>2
  <2>5. Spent(w, k)'
    <3>1. CASE l = "report"
      BY <2>3, <3>1 DEF Spent
    <3>2. CASE l = "select"
      BY <2>3, <2>4, <3>2 DEF Spent, Retries, Polling
    <3> QED
      BY <3>1, <3>2
  <2> QED
    BY <1>1, <2>1, <2>2, <2>5 DEF SentOnce
<1>3. CASE sent[k] = 2
  BY <1>3 DEF SentOnce
<1>4. CASE k # Key(w)
  BY <1>4, OnceOthers
<1> QED
  BY <1>2, <1>3, <1>4

(* A send of another key leaves the queue's tokens of k alone.              *)
LEMMA OnceEnqueued ==
  ASSUME TypeOK, NEW k \in Keys, SentOnce(k), NEW t \in Tasks, Enqueue(t)
  PROVE  SentOnce(k)'
<1>1. /\ queue \in Seq(Tasks) /\ Len(queue) \in Nat
      /\ DOMAIN queue = 1..Len(queue)
  <2>1. queue \in Seq(Tasks)
    BY DEF TypeOK
  <2> QED
    BY <2>1
<1>2. /\ DOMAIN queue' = 1..(Len(queue) + 1)
      /\ queue'[Len(queue) + 1] = t
      /\ \A i \in 1..Len(queue) : queue'[i] = queue[i]
  BY <1>1 DEF Enqueue
<1>3. InHand(k)' = InHand(k) /\ AtWork(k)' = AtWork(k) /\ Settled(k)' = Settled(k)
  BY DEF Enqueue, InHand, AtWork, Key, Settled, Verdict, store
<1>4. CASE SpecKey[t] # k
  <2>1. InQueue(k)' \subseteq InQueue(k)
    <3>1. SUFFICES ASSUME NEW i \in 1..(Len(queue) + 1), SpecKey[queue'[i]] = k
                   PROVE  i \in 1..Len(queue) /\ SpecKey[queue[i]] = k
      BY <1>1, <1>2 DEF InQueue
    <3>2. i # Len(queue) + 1
      BY <1>2, <1>4, <3>1
    <3>3. i \in 1..Len(queue)
      BY <1>1, <3>2
    <3> QED
      BY <1>2, <3>1, <3>3
  <2>2. sent'[k] = sent[k] /\ UNCHANGED <<pc, held, outcome, row>>
    BY <1>4 DEF TypeOK, Enqueue, store
  <2>3. \A w \in AtWork(k) : Spent(w, k) => Spent(w, k)'
    BY <2>2 DEF Spent, Retries, Verdict, Doubts, Polling
  <2> QED
    BY <1>3, <2>1, <2>2, <2>3, OnceStays
<1>5. CASE SpecKey[t] = k
  <2>1. sent[k] \in 0..2 /\ sent'[k] = IF sent[k] < 2 THEN sent[k] + 1 ELSE sent[k]
    BY <1>5 DEF TypeOK, Enqueue
  <2>2. ASSUME sent'[k] # 2 PROVE sent[k] = 0 /\ sent'[k] = 1
    BY <2>1, <2>2
  <2>3. ASSUME sent'[k] # 2
        PROVE  OneToken(k)' /\ sent'[k] # 0 /\ ~Settled(k)'
    <3>1. /\ InQueue(k) = {} /\ InHand(k)' = {} /\ AtWork(k)' = {}
          /\ ~Settled(k)' /\ sent'[k] = 1
      BY <1>3, <2>2, <2>3, OnceParts
    <3>2. ASSUME NEW i \in InQueue(k)' PROVE i = Len(queue) + 1
      <4>1. i \in 1..(Len(queue) + 1) /\ SpecKey[queue'[i]] = k
        BY <1>2, <3>2 DEF InQueue
      <4>2. i \notin 1..Len(queue)
        BY <1>1, <1>2, <3>1, <4>1 DEF InQueue
      <4> QED
        BY <1>1, <4>1, <4>2
    <3> QED
      BY <3>1, <3>2 DEF OneToken, AtMostOne
  <2> QED
    BY <2>3 DEF SentOnce
<1> QED
  BY <1>4, <1>5

(* A dispatcher takes the first token out of the queue.                     *)
LEMMA OnceReceived ==
  ASSUME TypeOK, NEW k \in Keys, SentOnce(k), NEW d \in Dispatchers, Receive(d)
  PROVE  SentOnce(k)'
<1>1. /\ queue \in Seq(Tasks) /\ queue # <<>> /\ Len(queue) \in Nat
      /\ DOMAIN queue = 1..Len(queue)
  <2>1. queue \in Seq(Tasks) /\ queue # <<>>
    BY DEF TypeOK, Receive
  <2> QED
    BY <2>1
<1>2. /\ Len(queue) >= 1 /\ DOMAIN queue' = 1..(Len(queue) - 1)
      /\ \A i \in 1..(Len(queue) - 1) : queue'[i] = queue[i + 1]
      /\ Head(queue) = queue[1] /\ queue[1] \in Tasks
  BY <1>1 DEF Receive
<1>3. /\ AtWork(k)' = AtWork(k) /\ Settled(k)' = Settled(k) /\ UNCHANGED sent
      /\ \A w \in Workers : Spent(w, k) => Spent(w, k)'
  BY DEF Receive, AtWork, Key, Settled, Spent, Retries, Verdict, Doubts, Polling, store
<1>4. ASSUME NEW i \in InQueue(k)' PROVE i + 1 \in InQueue(k) /\ i + 1 # 1 /\ i \in Nat
  <2>1. i \in 1..(Len(queue) - 1) /\ SpecKey[queue'[i]] = k
    BY <1>2, <1>4 DEF InQueue
  <2>2. i + 1 \in 1..Len(queue) /\ i + 1 # 1 /\ i \in Nat
    BY <1>1, <2>1
  <2> QED
    BY <1>1, <1>2, <2>1, <2>2 DEF InQueue
<1>5. hand'[d] = queue[1] /\ \A e \in Dispatchers \ {d} : hand'[e] = hand[e]
  BY <1>2 DEF TypeOK, Receive
<1>6. hand[d] = NoTask /\ queue[1] # NoTask
  BY <1>2, ConstantsAssumption DEF Receive
<1>7. CASE sent[k] = 2
  BY <1>3, <1>7 DEF SentOnce
<1>8. CASE sent[k] # 2 /\ SpecKey[queue[1]] = k
  <2>1. 1 \in InQueue(k)
    BY <1>1, <1>2, <1>8 DEF InQueue
  <2>2. /\ \A i \in InQueue(k) : i = 1
        /\ InHand(k) = {} /\ AtWork(k) = {} /\ sent[k] # 0 /\ ~Settled(k)
    BY <1>8, <2>1, OnceParts
  <2>3. InQueue(k)' = {}
    BY <1>4, <2>2
  <2>4. \A e \in InHand(k)' : e = d
    BY <1>5, <2>2 DEF InHand
  <2>5. OneToken(k)'
    BY <1>3, <2>2, <2>3, <2>4 DEF OneToken, AtMostOne
  <2> QED
    BY <1>3, <1>8, <2>2, <2>5, OnceMoves
<1>9. CASE sent[k] # 2 /\ SpecKey[queue[1]] # k
  <2>1. InHand(k)' = InHand(k)
    BY <1>5, <1>6, <1>9 DEF InHand
  <2>2. InQueue(k) = {} => InQueue(k)' = {}
    BY <1>4
  <2>3. \A i, j \in InQueue(k)' : i = j
    <3>1. SUFFICES ASSUME NEW i \in InQueue(k)', NEW j \in InQueue(k)' PROVE i = j
      OBVIOUS
    <3>2. i + 1 = j + 1
      BY <1>4, <1>9, OnceParts
    <3> QED
      BY <1>4, <3>2
  <2>4. OneToken(k)'
    BY <1>3, <1>9, <2>1, <2>2, <2>3, OnceParts DEF OneToken, AtMostOne
  <2>5. /\ sent[k] = 0 => /\ InQueue(k)' = {} /\ InHand(k)' = {} /\ AtWork(k)' = {}
                          /\ ~Settled(k)'
        /\ Settled(k)' => /\ InQueue(k)' = {} /\ InHand(k)' = {}
                          /\ \A w \in AtWork(k)' : Spent(w, k)'
    BY <1>3, <1>9, <2>1, <2>2, OnceParts DEF AtWork
  <2> QED
    BY <1>3, <2>4, <2>5 DEF SentOnce
<1> QED
  BY <1>7, <1>8, <1>9

(* A dispatcher hands its token to the goroutine it starts.                 *)
LEMMA OnceStarted ==
  ASSUME TypeOK, NEW k \in Keys, SentOnce(k),
         NEW d \in Dispatchers, NEW w \in Workers, Start(d, w)
  PROVE  SentOnce(k)'
<1>1. /\ hand[d] # NoTask /\ pc[w] = "none" /\ hand'[d] = NoTask
      /\ pc'[w] = "query" /\ job'[w] = hand[d]
      /\ \A e \in Dispatchers \ {d} : hand'[e] = hand[e]
      /\ \A v \in Workers \ {w} : pc'[v] = pc[v] /\ job'[v] = job[v]
  BY DEF TypeOK, Start
<1>2. InQueue(k)' = InQueue(k) /\ Settled(k)' = Settled(k) /\ UNCHANGED sent
  BY DEF Start, InQueue, Settled, Verdict, store
<1>3. InHand(k)' = InHand(k) \ {d}
  BY <1>1 DEF InHand
<1>4. CASE sent[k] = 2
  BY <1>2, <1>4 DEF SentOnce
<1>5. CASE sent[k] # 2 /\ SpecKey[hand[d]] = k
  <2>1. d \in InHand(k)
    BY <1>1, <1>5 DEF InHand
  <2>2. /\ \A e \in InHand(k) : e = d
        /\ InQueue(k) = {} /\ AtWork(k) = {} /\ sent[k] # 0 /\ ~Settled(k)
    BY <1>5, <2>1, OnceParts
  <2>3. \A v \in AtWork(k)' : v = w
    BY <1>1, <2>2 DEF AtWork, Key
  <2>4. OneToken(k)'
    BY <1>2, <1>3, <2>2, <2>3 DEF OneToken, AtMostOne
  <2> QED
    BY <1>2, <1>5, <2>2, <2>4, OnceMoves
<1>6. CASE sent[k] # 2 /\ SpecKey[hand[d]] # k
  <2>1. AtWork(k)' \subseteq AtWork(k)
    BY <1>1, <1>6 DEF AtWork, Key
  <2>2. \A v \in AtWork(k) : Spent(v, k) => Spent(v, k)'
    <3>1. \A v \in AtWork(k) : v \in Workers \ {w}
      BY <1>1 DEF AtWork
    <3> QED
      BY <1>1, <3>1 DEF Spent, Retries, Verdict, Doubts, Polling, Start, store
  <2> QED
    BY <1>2, <1>3, <2>1, <2>2, OnceStays
<1> QED
  BY <1>4, <1>5, <1>6

(* A goroutine goes on: its token stays with it.                            *)
LEMMA OnceGoesOn ==
  ASSUME TypeOK, NEW k \in Keys, SentOnce(k),
         NEW w \in Workers, pc[w] \notin {"none", "report"},
         \E l \in ProgramCounter \ {"none"} : Goto(w, l),
         Polling(w) => Polling(w)' /\ held'[w] = held[w] /\ outcome'[w] = outcome[w],
         \A v \in Workers \ {w} : held'[v] = held[v] /\ outcome'[v] = outcome[v],
         UNCHANGED <<queue, hand, job, row, sent>>
  PROVE  SentOnce(k)'
<1>1. AtWork(k)' = AtWork(k)
  BY DEF TypeOK, AtWork, Key, Goto
<1>2. ASSUME NEW v \in AtWork(k), Spent(v, k) PROVE Spent(v, k)'
  <2>1. v \in Workers /\ (pc[v] = "report" => pc'[v] = "report")
    BY DEF TypeOK, AtWork, Goto
  <2>2. Polling(v) => Polling(v)' /\ held'[v] = held[v] /\ outcome'[v] = outcome[v]
    BY <2>1 DEF TypeOK, Goto, Polling
  <2>3. \A r \in Rows : Verdict(r, k)' => Verdict(r, k) /\ row'[r] = row[r]
    BY DEF Verdict
  <2> QED
    BY <1>2, <2>1, <2>2, <2>3, SpentStays
<1> QED
  BY <1>1, <1>2, OnceStays DEF InQueue, InHand, Settled, Verdict

(* Every step keeps the tokens of a key that was sent once in one place.    *)
LEMMA OnceStep ==
  ASSUME TypeOK, RowHeld, AllSentOnce, [Next]_vars
  PROVE  AllSentOnce'
<1> SUFFICES ASSUME NEW k \in Keys PROVE SentOnce(k)'
  BY DEF AllSentOnce
<1>0. SentOnce(k)
  BY DEF AllSentOnce
<1>1. ASSUME NEW t \in Tasks, Enqueue(t) PROVE SentOnce(k)'
  BY <1>1, <1>0, OnceEnqueued
<1>2. ASSUME NEW r \in Rows, NEW j \in Keys, InsertRow(r, j) PROVE SentOnce(k)'
  <2>1. \A q \in Rows : Verdict(q, k)' => Verdict(q, k) /\ row'[q] = row[q]
    BY <1>2 DEF TypeOK, Verdict, InsertRow
  <2>2. \A w \in Workers : Spent(w, k) => Spent(w, k)'
    BY <1>2, <2>1 DEF Spent, Retries, Doubts, Polling, InsertRow, memory
  <2>3. Settled(k)' => Settled(k)
    BY <2>1 DEF Settled
  <2> QED
    BY <1>2, <2>2, <2>3, <1>0, OnceStays DEF InQueue, InHand, AtWork, Key, InsertRow, memory
<1>3. ASSUME StartCtxExpires PROVE SentOnce(k)'
  BY <1>3, <1>0, OnceStays DEF InQueue, InHand, AtWork, Key, Settled, Spent, Retries, Verdict, Doubts, Polling, StartCtxExpires, store
<1>4. ASSUME DispatcherReturns PROVE SentOnce(k)'
  BY <1>4, <1>0, OnceStays DEF InQueue, InHand, AtWork, Key, Settled, Spent, Retries, Verdict, Doubts, Polling, DispatcherReturns, store
<1>5. ASSUME NEW d \in Dispatchers, Receive(d) PROVE SentOnce(k)'
  BY <1>5, <1>0, OnceReceived
<1>6. ASSUME NEW d \in Dispatchers, NEW w \in Workers, Start(d, w) PROVE SentOnce(k)'
  BY <1>6, <1>0, OnceStarted
<1>7. ASSUME NEW w \in Workers, QueryFails(w) PROVE SentOnce(k)'
  <2>1. pc[w] \notin {"none", "report"} /\ \E l \in ProgramCounter \ {"none"} : Goto(w, l)
    BY <1>7 DEF QueryFails, ReturnWith
  <2>2. Polling(w) => Polling(w)' /\ held'[w] = held[w] /\ outcome'[w] = outcome[w]
    BY <1>7 DEF TypeOK, QueryFails, Polling, Goto
  <2>3. \A v \in Workers \ {w} : held'[v] = held[v] /\ outcome'[v] = outcome[v]
    BY <1>7 DEF TypeOK, QueryFails, ReturnWith
  <2> QED
    BY <1>7, <2>1, <2>2, <2>3, <1>0, OnceGoesOn DEF QueryFails, store
<1>8. ASSUME NEW w \in Workers, QueryFindsNotOne(w) PROVE SentOnce(k)'
  <2>1. pc[w] \notin {"none", "report"} /\ \E l \in ProgramCounter \ {"none"} : Goto(w, l)
    BY <1>8 DEF QueryFindsNotOne, ReturnWith
  <2>2. Polling(w) => Polling(w)' /\ held'[w] = held[w] /\ outcome'[w] = outcome[w]
    BY <1>8 DEF TypeOK, QueryFindsNotOne, Polling, Goto
  <2>3. \A v \in Workers \ {w} : held'[v] = held[v] /\ outcome'[v] = outcome[v]
    BY <1>8 DEF TypeOK, QueryFindsNotOne, ReturnWith
  <2> QED
    BY <1>8, <2>1, <2>2, <2>3, <1>0, OnceGoesOn DEF QueryFindsNotOne, store
<1>9. ASSUME NEW w \in Workers, QueryFindsRow(w) PROVE SentOnce(k)'
  <2>1. pc[w] \notin {"none", "report"} /\ \E l \in ProgramCounter \ {"none"} : Goto(w, l)
    BY <1>9 DEF QueryFindsRow
  <2>2. Polling(w) => Polling(w)' /\ held'[w] = held[w] /\ outcome'[w] = outcome[w]
    BY <1>9 DEF TypeOK, QueryFindsRow, Polling, Goto
  <2>3. \A v \in Workers \ {w} : held'[v] = held[v] /\ outcome'[v] = outcome[v]
    BY <1>9 DEF TypeOK, QueryFindsRow
  <2> QED
    BY <1>9, <2>1, <2>2, <2>3, <1>0, OnceGoesOn DEF QueryFindsRow, store
<1>10. ASSUME NEW w \in Workers, RestoreAccepted(w) PROVE SentOnce(k)'
  <2>1. pc[w] \notin {"none", "report"} /\ \E l \in ProgramCounter \ {"none"} : Goto(w, l)
    BY <1>10 DEF RestoreAccepted
  <2>2. Polling(w) => Polling(w)' /\ held'[w] = held[w] /\ outcome'[w] = outcome[w]
    BY <1>10 DEF TypeOK, RestoreAccepted, Polling, Goto
  <2>3. \A v \in Workers \ {w} : held'[v] = held[v] /\ outcome'[v] = outcome[v]
    BY <1>10 DEF TypeOK, RestoreAccepted
  <2> QED
    BY <1>10, <2>1, <2>2, <2>3, <1>0, OnceGoesOn DEF RestoreAccepted
<1>11. ASSUME NEW w \in Workers, RestoreRefused(w) PROVE SentOnce(k)'
  <2>1. pc[w] \notin {"none", "report"} /\ \E l \in ProgramCounter \ {"none"} : Goto(w, l)
    BY <1>11 DEF RestoreRefused
  <2>2. Polling(w) => Polling(w)' /\ held'[w] = held[w] /\ outcome'[w] = outcome[w]
    BY <1>11 DEF TypeOK, RestoreRefused, Polling, Goto
  <2>3. \A v \in Workers \ {w} : held'[v] = held[v] /\ outcome'[v] = outcome[v]
    BY <1>11 DEF TypeOK, RestoreRefused
  <2> QED
    BY <1>11, <2>1, <2>2, <2>3, <1>0, OnceGoesOn DEF RestoreRefused, store
<1>12. ASSUME NEW w \in Workers, MarkFailed(w) PROVE SentOnce(k)'
  <2>1. HasRow(w) /\ Goto(w, "report") /\ (WriteStatus(w, "FAILED") \/ UNCHANGED row)
    BY <1>12 DEF MarkFailed, HasRow, Polling, ReturnWith
  <2>2. \A v \in Workers \ {w} : outcome'[v] = outcome[v]
    BY <1>12 DEF TypeOK, MarkFailed, ReturnWith
  <2> QED
    BY <1>12, <2>1, <2>2, <1>0, OnceSettles DEF MarkFailed
<1>13. ASSUME NEW w \in Workers, PollSaysComplete(w) PROVE SentOnce(k)'
  <2>1. pc[w] \notin {"none", "report"} /\ \E l \in ProgramCounter \ {"none"} : Goto(w, l)
    BY <1>13 DEF PollSaysComplete
  <2>2. Polling(w) => Polling(w)' /\ held'[w] = held[w] /\ outcome'[w] = outcome[w]
    BY <1>13 DEF TypeOK, PollSaysComplete, Polling, Goto
  <2>3. \A v \in Workers \ {w} : held'[v] = held[v] /\ outcome'[v] = outcome[v]
    BY <1>13 DEF TypeOK, PollSaysComplete
  <2> QED
    BY <1>13, <2>1, <2>2, <2>3, <1>0, OnceGoesOn DEF PollSaysComplete, store
<1>14. ASSUME NEW w \in Workers, MarkSuccess(w) PROVE SentOnce(k)'
  <2>1. HasRow(w) /\ Goto(w, "report") /\ (WriteStatus(w, "SUCCESS") \/ UNCHANGED row)
    BY <1>14 DEF MarkSuccess, HasRow, Polling, ReturnWith
  <2>2. \A v \in Workers \ {w} : outcome'[v] = outcome[v]
    BY <1>14 DEF TypeOK, MarkSuccess, ReturnWith
  <2> QED
    BY <1>14, <2>1, <2>2, <1>0, OnceSettles DEF MarkSuccess
<1>15. ASSUME NEW w \in Workers, MarkSuccessFails(w) PROVE SentOnce(k)'
  <2>1. HasRow(w) /\ Goto(w, "select") /\ (WriteStatus(w, "SUCCESS") \/ UNCHANGED row)
    BY <1>15 DEF MarkSuccessFails, HasRow, Polling
  <2>2. \A v \in Workers \ {w} : outcome'[v] = outcome[v]
    BY <1>15 DEF TypeOK, MarkSuccessFails
  <2>3. outcome'[w] = "unsure"
    BY <1>15 DEF TypeOK, MarkSuccessFails
  <2> QED
    BY <1>15, <2>1, <2>2, <2>3, <1>0, OnceSettles DEF MarkSuccessFails
<1>16. ASSUME NEW w \in Workers, Timeout(w) PROVE SentOnce(k)'
  <2>1. pc[w] \notin {"none", "report"} /\ \E l \in ProgramCounter \ {"none"} : Goto(w, l)
    BY <1>16 DEF Timeout
  <2>2. Polling(w) => Polling(w)' /\ held'[w] = held[w] /\ outcome'[w] = outcome[w]
    BY <1>16 DEF TypeOK, Timeout, Polling, Goto
  <2>3. \A v \in Workers \ {w} : held'[v] = held[v] /\ outcome'[v] = outcome[v]
    BY <1>16 DEF TypeOK, Timeout
  <2> QED
    BY <1>16, <2>1, <2>2, <2>3, <1>0, OnceGoesOn DEF Timeout, store
<1>17. ASSUME NEW w \in Workers, MarkTimeout(w) PROVE SentOnce(k)'
  <2>1. HasRow(w) /\ Goto(w, "report") /\ (WriteStatus(w, "TIMEOUT") \/ UNCHANGED row)
    BY <1>17 DEF MarkTimeout, HasRow, Polling, ReturnWith
  <2>2. \A v \in Workers \ {w} : outcome'[v] = outcome[v]
    BY <1>17 DEF TypeOK, MarkTimeout, ReturnWith
  <2> QED
    BY <1>17, <2>1, <2>2, <1>0, OnceSettles DEF MarkTimeout
<1>18. ASSUME NEW w \in Workers, Report(w) PROVE SentOnce(k)'
  <2>1. AtWork(k)' \subseteq AtWork(k)
    BY <1>18 DEF TypeOK, AtWork, Key, Report, Goto
  <2>2. \A v \in AtWork(k) : Spent(v, k) /\ v \in AtWork(k)' => Spent(v, k)'
    <3>1. \A v \in AtWork(k) :
            v \in AtWork(k)' => /\ v \in Workers /\ pc'[v] = pc[v]
                                /\ held'[v] = held[v] /\ outcome'[v] = outcome[v]
      BY <1>18 DEF TypeOK, AtWork, Report, Goto
    <3> QED
      BY <1>18, <3>1 DEF Spent, Retries, Verdict, Doubts, Polling, Report
  <2> QED
    BY <1>18, <2>1, <2>2, <1>0, OnceStays DEF InQueue, InHand, Settled, Spent, Retries, Verdict, Doubts, Polling, Report
<1>19. ASSUME NEW i \in Indices, RecoveryCompletes(i) PROVE SentOnce(k)'
  BY <1>19, <1>0, OnceStays DEF InQueue, InHand, AtWork, Key, Settled, Spent, Retries, Verdict, Doubts, Polling, RecoveryCompletes, memory
<1>20. ASSUME Restart PROVE SentOnce(k)'
  <2>1. InQueue(k)' = {} /\ InHand(k)' = {} /\ AtWork(k)' = {}
    BY <1>20 DEF Restart, InQueue, InHand, AtWork, NoHand, NoGoroutine
  <2> QED
    BY <1>20, <2>1, <1>0, OnceStays DEF Settled, Spent, Retries, Verdict, Doubts, Polling, Restart, store
<1>21. ASSUME UNCHANGED vars PROVE SentOnce(k)'
  BY <1>21, <1>0, OnceStays DEF InQueue, InHand, AtWork, Key, Settled, Spent, Retries, Verdict, Doubts, Polling, vars
<1> QED
  BY <1>1, <1>2, <1>3, <1>4, <1>5, <1>6, <1>7, <1>8, <1>9, <1>10, <1>11, <1>12, <1>13, <1>14, <1>15, <1>16, <1>17, <1>18, <1>19, <1>20, <1>21
     DEF Next, Environment, DispatcherStep, WorkerStep, IndexPanic

(* Nothing is sent and nothing decided in the beginning.                    *)
LEMMA OnceInit == Init => AllSentOnce
<1> SUFFICES ASSUME Init, NEW k \in Keys PROVE SentOnce(k)
  BY DEF AllSentOnce
<1>1. InQueue(k) = {}
  <2>1. queue = <<>>
    BY DEF Init
  <2>2. DOMAIN queue = {}
    BY <2>1
  <2> QED
    BY <2>2 DEF InQueue
<1>2. InHand(k) = {} /\ AtWork(k) = {} /\ ~Settled(k)
  BY DEF Init, InHand, AtWork, Settled, Verdict, NoHand, NoGoroutine
<1> QED
  BY <1>1, <1>2 DEF SentOnce, OneToken, AtMostOne

(* A verdict is written by a goroutine at work, which is not the one that   *)
(* wrote an earlier verdict in that row unless the key was sent again or    *)
(* the UPDATE of the earlier one, SUCCESS, returned an error.               *)
LEMMA FinalStep ==
  ASSUME IInv, AllSentOnce, [Next]_vars,
         NEW r \in Rows, row[r] # NoRow, row[r].status \in Verdicts, row'[r] # row[r]
  PROVE  \/ sent[row[r].key] = 2
         \/ /\ row[r].status = "SUCCESS" /\ row'[r].status = "TIMEOUT"
            /\ \E w \in Workers : Doubts(w, r)
<1>1. TypeOK /\ RowHeld
  BY DEF IInv
<1>2. row[r].key \in Keys
  BY <1>1 DEF TypeOK
<1>3. ASSUME NEW w \in Workers, HasRow(w), NEW status \in Verdicts, WriteStatus(w, status)
      PROVE  \/ sent[row[r].key] = 2
             \/ /\ row[r].status = "SUCCESS" /\ Doubts(w, r)
                /\ row'[r].status = status /\ row'[r] = [row[r] EXCEPT !.status = status]
  <2>1. /\ row[held[w]] # NoRow /\ row[held[w]].key = Key(w)
        /\ \A q \in Rows \ {held[w]} : row'[q] = row[q]
        /\ row'[held[w]].status = status
    BY <1>1, <1>3, RowWritten DEF RowHeld
  <2>2. r = held[w]
    BY <2>1
  <2>3. Verdict(r, Key(w)) /\ Key(w) \in Keys /\ SentOnce(Key(w))
    BY <1>2, <2>1, <2>2 DEF Verdict, AllSentOnce
  <2>4. row'[r] = [row[r] EXCEPT !.status = status]
    BY <1>1, <1>3, <2>2 DEF WriteStatus, TypeOK
  <2> QED
    BY <1>1, <1>3, <2>1, <2>2, <2>3, <2>4, OnceAlone
<1>4. CASE UNCHANGED row
  BY <1>4
<1>5. ASSUME NEW q \in Rows, NEW j \in Keys, InsertRow(q, j) PROVE FALSE
  BY <1>1, <1>5 DEF TypeOK, InsertRow
<1>6. CASE UNCHANGED vars
  BY <1>6 DEF vars
<1>7. ASSUME NEW w \in Workers, HasRow(w), WriteStatus(w, "SUCCESS")
      PROVE  sent[row[r].key] = 2
  <2>1. CASE sent[row[r].key] # 2
    <3>1. row[r].status = "SUCCESS" /\ row'[r] = [row[r] EXCEPT !.status = "SUCCESS"]
      BY <1>3, <1>7, <2>1
    <3>2. row[r] \in RowValue
      BY <1>1 DEF TypeOK
    <3>3. row'[r] = row[r]
      BY <3>1, <3>2
    <3> QED
      BY <3>3
  <2> QED
    BY <2>1
<1>8. ASSUME NEW w \in Workers, MarkFailed(w), WriteStatus(w, "FAILED")
      PROVE  sent[row[r].key] = 2
  <2>1. HasRow(w) /\ ~Polling(w)
    BY <1>8 DEF MarkFailed, HasRow, Polling
  <2>2. r = held[w]
    BY <1>1, <1>8, <2>1, RowWritten
  <2>3. w \in AtWork(row[r].key) /\ pc[w] # "report" /\ Settled(row[r].key)
    <3>1. row[r].key = Key(w)
      BY <1>1, <2>1, <2>2 DEF RowHeld
    <3>2. w \in AtWork(row[r].key) /\ pc[w] # "report"
      BY <1>8, <3>1 DEF AtWork, MarkFailed
    <3> QED
      BY <3>2 DEF Settled, Verdict
  <2> QED
    BY <1>2, <2>1, <2>3, OnceParts DEF AllSentOnce, Spent, Retries
<1>9. ASSUME NEW w \in Workers, WorkerStep(w)
      PROVE  \/ sent[row[r].key] = 2
             \/ /\ row[r].status = "SUCCESS" /\ row'[r].status = "TIMEOUT"
                /\ Doubts(w, r)
  <2>1. CASE MarkFailed(w)
    BY <1>4, <1>8, <2>1 DEF MarkFailed
  <2>2. CASE MarkSuccess(w)
    BY <1>7, <2>2 DEF MarkSuccess, HasRow, Polling
  <2>3. CASE MarkSuccessFails(w)
    BY <1>4, <1>7, <2>3 DEF MarkSuccessFails, HasRow, Polling
  <2>4. CASE MarkTimeout(w)
    <3>1. HasRow(w) /\ (WriteStatus(w, "TIMEOUT") \/ UNCHANGED row)
      BY <2>4 DEF MarkTimeout, HasRow, Polling
    <3> QED
      BY <1>3, <1>4, <3>1
  <2>5. CASE UNCHANGED row
    BY <1>4, <2>5
  <2> QED
    BY <1>9, <2>1, <2>2, <2>3, <2>4, <2>5
       DEF WorkerStep, QueryFails, QueryFindsNotOne, QueryFindsRow, IndexPanic, Restart,
           RestoreAccepted, RestoreRefused, PollSaysComplete, Timeout, Report, store
<1>10. ASSUME Environment \/ DispatcherReturns \/ \E d \in Dispatchers : DispatcherStep(d)
       PROVE  FALSE
  BY <1>5, <1>10
     DEF Environment, DispatcherReturns, DispatcherStep, Enqueue, RecoveryCompletes,
         StartCtxExpires, Restart, Receive, Start, store
<1> QED
  BY <1>6, <1>9, <1>10 DEF Next

(* A verdict stays in its row unless the key of the row was sent again, or  *)
(* it is the SUCCESS of an UPDATE that returned an error.                   *)
THEOREM VerdictsAreFinal == Spec => VerdictIsFinal
<1>1. Init => IInv /\ AllSentOnce
  BY IInvInit, OnceInit
<1>2. IInv /\ AllSentOnce /\ [Next]_vars => (IInv /\ AllSentOnce)'
  BY IInvStep, OnceStep DEF IInv
<1>3. IInv /\ AllSentOnce /\ [Next]_vars
        => [\A r \in Rows :
              /\ row[r] # NoRow
              /\ row[r].status \in Verdicts
              /\ row'[r] # row[r]
              => \/ sent[row[r].key] = 2
                 \/ /\ row[r].status = "SUCCESS" /\ row'[r].status = "TIMEOUT"
                    /\ \E w \in Workers : Doubts(w, r)]_vars
  BY FinalStep
<1> QED
  BY <1>1, <1>2, <1>3, PTL DEF Spec, VerdictIsFinal
=============================================================================
