-------------------- MODULE RestorePoolRefinement_proofs --------------------
(***************************************************************************)
(* RestoreWorkers implements RestorePool, for every set of tasks, rows and *)
(* goroutines and every capacity of the two channels.                      *)
(***************************************************************************)
EXTENDS RestorePoolRefinement, RestoreWorkers_proofs, SequenceTheorems

(* Where the sends of task t are, and the dispatchers that carry one.       *)
Places(t) == {i \in DOMAIN queue : queue[i] = t}
Hands(t) == {d \in Dispatchers : hand[d] = t}
Busy == {d \in Dispatchers : hand[d] # NoTask}
Jobs(t) == {w \in Active : job[w] = t}

(* The values of the variables of RestorePool.                              *)
AllWaiting == [t \in Tasks |-> Waiting(t)]
AllRunning == [t \in Tasks |-> Running(t)]

(* What makes the guards of RestorePool, which count sends per task, follow *)
(* from the capacities of the channels, which count them all.               *)
Counted ==
  /\ IsFiniteSet(Pool!Sends(AllWaiting))
  /\ Cardinality(Pool!Sends(AllWaiting)) = Len(queue) + Cardinality(Busy)
  /\ IsFiniteSet(Pool!Sends(AllRunning))
  /\ Cardinality(Pool!Sends(AllRunning)) = sem

-----------------------------------------------------------------------------
(* Counting sends.                                                          *)

(* A send is a task and its number.                                         *)
LEMMA SendsOf ==
  ASSUME NEW f, NEW p
  PROVE  p \in Pool!Sends(f) <=> \E t \in Tasks : \E i \in 1..f[t] : p = <<t, i>>
BY DEF Pool!Sends

(* One send more of one task is one send more of all tasks together.        *)
LEMMA SendsGrow ==
  ASSUME NEW f \in [Tasks -> Nat], NEW t \in Tasks, IsFiniteSet(Pool!Sends(f))
  PROVE  LET g == [f EXCEPT ![t] = @ + 1]
         IN  /\ IsFiniteSet(Pool!Sends(g))
             /\ Cardinality(Pool!Sends(g)) = Cardinality(Pool!Sends(f)) + 1
<1> DEFINE g == [f EXCEPT ![t] = @ + 1]
           x == <<t, f[t] + 1>>
<1>1. /\ f[t] \in Nat /\ g[t] = f[t] + 1
      /\ \A u \in Tasks \ {t} : g[u] = f[u]
  OBVIOUS
<1> HIDE DEF g
<1>2. x \notin Pool!Sends(f)
  <2>1. ASSUME NEW u \in Tasks, NEW i \in 1..f[u], x = <<u, i>> PROVE FALSE
    <3>1. u = t /\ i = f[t] + 1
      BY <2>1
    <3> QED
      BY <1>1, <2>1, <3>1
  <2> QED
    BY <2>1, SendsOf
<1>3. Pool!Sends(g) = Pool!Sends(f) \cup {x}
  <2>1. ASSUME NEW p \in Pool!Sends(g) PROVE p \in Pool!Sends(f) \cup {x}
    <3>1. PICK u \in Tasks : \E i \in 1..g[u] : p = <<u, i>>
      BY <2>1, SendsOf
    <3>2. PICK i \in 1..g[u] : p = <<u, i>>
      BY <3>1
    <3>3. CASE i \in 1..f[u]
      BY <3>2, <3>3, SendsOf
    <3>4. CASE i \notin 1..f[u]
      <4>1. u = t
        BY <1>1, <3>2, <3>4
      <4>2. i = f[t] + 1
        BY <1>1, <3>2, <3>4, <4>1
      <4> QED
        BY <3>2, <4>1, <4>2
    <3> QED
      BY <3>3, <3>4
  <2>2. ASSUME NEW p \in Pool!Sends(f) PROVE p \in Pool!Sends(g)
    <3>1. PICK u \in Tasks : \E i \in 1..f[u] : p = <<u, i>>
      BY <2>2, SendsOf
    <3>2. PICK i \in 1..f[u] : p = <<u, i>>
      BY <3>1
    <3>3. i \in 1..g[u]
      <4>1. CASE u = t
        BY <1>1, <3>2, <4>1
      <4>2. CASE u # t
        BY <1>1, <3>2, <4>2
      <4> QED
        BY <4>1, <4>2
    <3> QED
      BY <3>2, <3>3, SendsOf
  <2>3. x \in Pool!Sends(g)
    <3>1. f[t] + 1 \in 1..g[t]
      BY <1>1
    <3> QED
      BY <3>1, SendsOf
  <2> QED
    BY <2>1, <2>2, <2>3
<1> HIDE DEF x
<1>4. /\ IsFiniteSet(Pool!Sends(f) \cup {x})
      /\ Cardinality(Pool!Sends(f) \cup {x}) = Cardinality(Pool!Sends(f)) + 1
  BY <1>2, FS_AddElement
<1>5. /\ IsFiniteSet(Pool!Sends(g))
      /\ Cardinality(Pool!Sends(g)) = Cardinality(Pool!Sends(f)) + 1
  BY <1>3, <1>4
<1> QED
  BY <1>5 DEF g

(* One send less of one task is one send less of all tasks together.        *)
LEMMA SendsShrink ==
  ASSUME NEW f \in [Tasks -> Nat], NEW t \in Tasks, f[t] > 0, IsFiniteSet(Pool!Sends(f))
  PROVE  LET g == [f EXCEPT ![t] = @ - 1]
         IN  /\ IsFiniteSet(Pool!Sends(g))
             /\ Cardinality(Pool!Sends(g)) = Cardinality(Pool!Sends(f)) - 1
<1> DEFINE g == [f EXCEPT ![t] = @ - 1]
<1>1. g \in [Tasks -> Nat] /\ f = [g EXCEPT ![t] = @ + 1]
  <2>1. f[t] - 1 \in Nat /\ (f[t] - 1) + 1 = f[t]
    OBVIOUS
  <2>2. g[t] = f[t] - 1 /\ g[t] + 1 = f[t]
    BY <2>1
  <2> QED
    BY <2>1, <2>2
<1>2. IsFiniteSet(Pool!Sends(g))
  <2>1. Pool!Sends(g) \subseteq Pool!Sends(f)
    <3>1. ASSUME NEW u \in Tasks, NEW i \in 1..g[u] PROVE i \in 1..f[u]
      <4>1. CASE u = t
        BY <4>1
      <4>2. CASE u # t
        BY <4>2
      <4> QED
        BY <4>1, <4>2
    <3> HIDE DEF g
    <3> QED
      BY <3>1, SendsOf
  <2> QED
    BY <2>1, FS_Subset
<1> HIDE DEF g
<1>3. Cardinality(Pool!Sends(f)) = Cardinality(Pool!Sends(g)) + 1
  BY <1>1, <1>2, SendsGrow
<1>4. Cardinality(Pool!Sends(g)) \in Nat
  BY <1>2, FS_CardinalityType
<1>5. Cardinality(Pool!Sends(g)) = Cardinality(Pool!Sends(f)) - 1
  BY <1>3, <1>4
<1> QED
  BY <1>2, <1>5 DEF g

(* Nothing is sent, nothing is counted.                                     *)
LEMMA SendsOfIdle ==
  /\ IsFiniteSet(Pool!Sends(Pool!Idle))
  /\ Cardinality(Pool!Sends(Pool!Idle)) = 0
<1>1. Pool!Sends(Pool!Idle) = {}
  BY SendsOf DEF Pool!Idle
<1> QED
  BY <1>1, FS_EmptySet

-----------------------------------------------------------------------------
(* The sends of one task.                                                   *)

(* There are two dispatchers.                                               *)
LEMMA DispatchersAreFinite == IsFiniteSet(Dispatchers)
<1>1. Dispatchers = ({} \cup {"background"}) \cup {"onStart"}
  BY DEF Dispatchers
<1> QED
  BY <1>1, FS_EmptySet, FS_AddElement

(* The queue is a sequence of tasks.                                        *)
LEMMA QueueTyped ==
  ASSUME TypeOK
  PROVE  queue \in Seq(Tasks) /\ Len(queue) \in Nat /\ DOMAIN queue = 1..Len(queue)
<1>1. queue \in Seq(Tasks)
  BY DEF TypeOK
<1> QED
  BY <1>1

(* A task has finitely many sends in each place.                            *)
LEMMA FinitelyMany ==
  ASSUME TypeOK, NEW t
  PROVE  /\ IsFiniteSet(Places(t)) /\ Cardinality(Places(t)) \in Nat
         /\ IsFiniteSet(Hands(t)) /\ Cardinality(Hands(t)) \in Nat
         /\ IsFiniteSet(Jobs(t)) /\ Cardinality(Jobs(t)) \in Nat
         /\ IsFiniteSet(Busy) /\ Cardinality(Busy) \in Nat
         /\ Cardinality(Busy) <= Cardinality(Dispatchers)
         /\ Cardinality(Dispatchers) \in Nat
<1>1. IsFiniteSet(Places(t))
  <2>1. IsFiniteSet(1..Len(queue))
    BY QueueTyped, FS_Interval
  <2>2. Places(t) \subseteq 1..Len(queue)
    BY QueueTyped DEF Places
  <2> QED
    BY <2>1, <2>2, FS_Subset
<1>2. Hands(t) \subseteq Dispatchers /\ Busy \subseteq Dispatchers /\ Jobs(t) \subseteq Workers
  BY DEF Hands, Busy, Jobs, Active
<1>3. IsFiniteSet(Hands(t)) /\ IsFiniteSet(Busy) /\ Cardinality(Busy) <= Cardinality(Dispatchers)
  BY <1>2, DispatchersAreFinite, FS_Subset
<1>4. IsFiniteSet(Jobs(t))
  BY <1>2, ConstantsAssumption, FS_Subset
<1> QED
  BY <1>1, <1>3, <1>4, DispatchersAreFinite, FS_CardinalityType

(* The refinement mapping counts places, hands and goroutines.              *)
LEMMA CountsOf ==
  ASSUME NEW t
  PROVE  /\ Waiting(t) = Cardinality(Places(t)) + Cardinality(Hands(t))
         /\ Running(t) = Cardinality(Jobs(t))
BY DEF Waiting, Running, Places, Hands, Jobs

(* It gives RestorePool numbers.                                            *)
LEMMA CountsTyped ==
  ASSUME TypeOK
  PROVE  /\ AllWaiting \in [Tasks -> Nat] /\ AllRunning \in [Tasks -> Nat]
         /\ \A t \in Tasks : AllWaiting[t] = Waiting(t) /\ AllRunning[t] = Running(t)
<1>1. ASSUME NEW t \in Tasks PROVE Waiting(t) \in Nat /\ Running(t) \in Nat
  BY FinitelyMany, CountsOf
<1> QED
  BY <1>1 DEF AllWaiting, AllRunning

-----------------------------------------------------------------------------
(* What each step does to the counts.                                       *)

(* A task is sent: it has a place more in the queue.                        *)
LEMMA EnqueueSubmits ==
  ASSUME TypeOK, Counted, NEW t \in Tasks, Enqueue(t)
  PROVE  Pool!Submit(t) /\ Counted'
<1>1. /\ DOMAIN queue' = 1..(Len(queue) + 1) /\ Len(queue') = Len(queue) + 1
      /\ queue'[Len(queue) + 1] = t
      /\ \A i \in 1..Len(queue) : queue'[i] = queue[i]
  BY QueueTyped, AppendProperties DEF Enqueue
<1>2. Len(queue) + 1 \notin Places(t)
  BY QueueTyped DEF Places
<1>3. Places(t)' = Places(t) \cup {Len(queue) + 1}
  <2>1. ASSUME NEW i \in Places(t)' PROVE i \in Places(t) \cup {Len(queue) + 1}
    <3>1. i \in 1..(Len(queue) + 1) /\ queue'[i] = t
      BY <1>1, <2>1 DEF Places
    <3>2. i \in 1..Len(queue) \/ i = Len(queue) + 1
      BY <3>1, QueueTyped
    <3> QED
      BY <1>1, <3>1, <3>2, QueueTyped DEF Places
  <2>2. ASSUME NEW i \in Places(t) PROVE i \in Places(t)'
    <3>1. i \in 1..Len(queue) /\ queue[i] = t
      BY <2>2, QueueTyped DEF Places
    <3>2. i \in 1..(Len(queue) + 1)
      BY <3>1, QueueTyped
    <3> QED
      BY <1>1, <3>1, <3>2 DEF Places
  <2>3. Len(queue) + 1 \in Places(t)'
    <3>1. Len(queue) + 1 \in 1..(Len(queue) + 1)
      BY QueueTyped
    <3> QED
      BY <1>1, <3>1 DEF Places
  <2> QED
    BY <2>1, <2>2, <2>3
<1>4. ASSUME NEW u \in Tasks \ {t} PROVE Places(u)' = Places(u)
  <2>1. ASSUME NEW i \in Places(u)' PROVE i \in Places(u)
    <3>1. i \in 1..(Len(queue) + 1) /\ queue'[i] = u
      BY <1>1, <2>1 DEF Places
    <3>2. i \in 1..Len(queue)
      <4>1. i # Len(queue) + 1
        BY <1>1, <3>1
      <4> QED
        BY <3>1, <4>1, QueueTyped
    <3> QED
      BY <1>1, <3>1, <3>2, QueueTyped DEF Places
  <2>2. ASSUME NEW i \in Places(u) PROVE i \in Places(u)'
    <3>1. i \in 1..Len(queue) /\ queue[i] = u
      BY <2>2, QueueTyped DEF Places
    <3>2. i \in 1..(Len(queue) + 1)
      BY <3>1, QueueTyped
    <3> QED
      BY <1>1, <3>1, <3>2 DEF Places
  <2> QED
    BY <2>1, <2>2
<1>5. \A u : Hands(u)' = Hands(u) /\ Jobs(u)' = Jobs(u)
  BY DEF Enqueue, Hands, Jobs, Active
<1>6. Waiting(t)' = Waiting(t) + 1
  <2>1. Cardinality(Places(t)') = Cardinality(Places(t)) + 1
    BY <1>2, <1>3, FinitelyMany, FS_AddElement
  <2>2. Waiting(t)' = Cardinality(Places(t)') + Cardinality(Hands(t))
    BY <1>5 DEF Waiting, Places, Hands
  <2> QED
    BY <2>1, <2>2, FinitelyMany, CountsOf
<1>7. \A u \in Tasks \ {t} : Waiting(u)' = Waiting(u)
  BY <1>4, <1>5 DEF Waiting, Places, Hands
<1>8. AllWaiting' = [AllWaiting EXCEPT ![t] = @ + 1]
  BY <1>6, <1>7 DEF AllWaiting
<1>9. AllRunning' = AllRunning
  BY <1>5 DEF AllRunning, Running, Jobs
<1>10. Busy' = Busy
  BY DEF Enqueue, Busy
<1>11. Cardinality(Pool!Sends(AllWaiting)) < MaxTasks + Cardinality(Dispatchers)
  <2>1. Len(queue) < MaxTasks /\ MaxTasks \in Nat
    BY ConstantsAssumption DEF Enqueue
  <2>2. /\ Cardinality(Busy) \in Nat /\ Cardinality(Dispatchers) \in Nat
        /\ Cardinality(Busy) <= Cardinality(Dispatchers) /\ Len(queue) \in Nat
    BY FinitelyMany, QueueTyped
  <2>3. Cardinality(Pool!Sends(AllWaiting)) = Len(queue) + Cardinality(Busy)
    BY DEF Counted
  <2> QED
    BY <2>1, <2>2, <2>3
<1>12. Pool!Submit(t)
  BY <1>8, <1>9, <1>11 DEF Pool!Submit, Pool!Cardinality, Cardinality, AllWaiting, AllRunning
<1>13. Counted'
  <2>1. /\ IsFiniteSet(Pool!Sends(AllWaiting'))
        /\ Cardinality(Pool!Sends(AllWaiting')) = Cardinality(Pool!Sends(AllWaiting)) + 1
    BY <1>8, CountsTyped, SendsGrow DEF Counted
  <2>2. Cardinality(Pool!Sends(AllWaiting')) = Len(queue') + Cardinality(Busy')
    <3>1. Cardinality(Pool!Sends(AllWaiting)) = Len(queue) + Cardinality(Busy)
      BY DEF Counted
    <3>2. Len(queue) \in Nat /\ Cardinality(Busy) \in Nat
      BY QueueTyped, FinitelyMany
    <3> QED
      BY <1>1, <1>10, <2>1, <3>1, <3>2
  <2>3. sem' = sem
    BY DEF Enqueue
  <2> QED
    BY <1>9, <2>1, <2>2, <2>3 DEF Counted, Pool!Sends
<1> QED
  BY <1>12, <1>13

(* What is behind the head of the queue moves up by one.                    *)
LEMMA PlacesMoveUp ==
  ASSUME TypeOK, NEW d \in Dispatchers, Receive(d), NEW t
  PROVE  Cardinality(Places(t)') = Cardinality(Places(t) \ {1})
<1>1. /\ Len(queue) >= 1 /\ DOMAIN queue' = 1..(Len(queue) - 1)
      /\ \A i \in 1..(Len(queue) - 1) : queue'[i] = queue[i + 1]
  BY QueueTyped DEF Receive
<1> DEFINE S == Places(t)'
           T == Places(t) \ {1}
           up == [i \in S |-> i + 1]
<1>2. ASSUME NEW i \in S PROVE i \in Nat /\ i + 1 \in T
  <2>1. i \in 1..(Len(queue) - 1) /\ queue'[i] = t
    BY <1>1, <1>2 DEF Places
  <2>2. i \in Nat /\ i + 1 \in 1..Len(queue) /\ i + 1 # 1
    BY <2>1, QueueTyped
  <2> QED
    BY <1>1, <2>1, <2>2, QueueTyped DEF Places
<1>3. ASSUME NEW j \in T PROVE j \in Nat /\ j - 1 \in S
  <2>1. j \in 1..Len(queue) /\ j # 1 /\ queue[j] = t
    BY <1>3, QueueTyped DEF Places
  <2>2. j \in Nat /\ j - 1 \in 1..(Len(queue) - 1) /\ (j - 1) + 1 = j
    BY <2>1, QueueTyped
  <2> QED
    BY <1>1, <2>1, <2>2 DEF Places
<1> HIDE DEF S, T
<1>4. up \in [S -> T]
  BY <1>2
<1>5. \A a, b \in S : up[a] = up[b] => a = b
  BY <1>2
<1>6. \A j \in T : \E i \in S : up[i] = j
  <2> SUFFICES ASSUME NEW j \in T PROVE up[j - 1] = j /\ j - 1 \in S
    OBVIOUS
  <2> QED
    BY <1>3
<1>7. ExistsBijection(S, T)
  <2> HIDE DEF up
  <2>1. up \in Bijection(S, T)
    BY <1>4, <1>5, <1>6 DEF Bijection, Injection, IsInjective, Surjection
  <2> QED
    BY <2>1 DEF ExistsBijection
<1>8. IsFiniteSet(S)
  <2>1. S \subseteq 1..(Len(queue) - 1)
    BY <1>1 DEF S, Places
  <2>2. IsFiniteSet(1..(Len(queue) - 1))
    BY <1>1, QueueTyped, FS_Interval
  <2> QED
    BY <2>1, <2>2, FS_Subset
<1>9. Cardinality(S) = Cardinality(T)
  BY <1>7, <1>8, FS_Bijection
<1> QED
  BY <1>9 DEF S, T

(* A send that a dispatcher receives goes on waiting, in its hand.          *)
LEMMA ReceiveStutters ==
  ASSUME TypeOK, Counted, NEW d \in Dispatchers, Receive(d)
  PROVE  UNCHANGED <<AllWaiting, AllRunning>> /\ Counted'
<1>0. PICK t \in Tasks : t = Head(queue)
  <2>1. queue # <<>>
    BY DEF Receive
  <2> QED
    BY <2>1, QueueTyped
<1>1. /\ t = queue[1] /\ t \in Tasks /\ t # NoTask
      /\ 1 \in DOMAIN queue /\ Len(queue') = Len(queue) - 1
  <2>1. queue # <<>>
    BY DEF Receive
  <2>2. t = queue[1] /\ t \in Tasks /\ 1 \in DOMAIN queue
    BY <1>0, <2>1, QueueTyped
  <2>3. Len(queue') = Len(queue) - 1
    BY <2>1, QueueTyped, HeadTailProperties DEF Receive
  <2> QED
    BY <2>2, <2>3, ConstantsAssumption
<1>2. hand[d] = NoTask /\ hand' = [hand EXCEPT ![d] = t]
  BY <1>0 DEF Receive
<1>3. hand \in [Dispatchers -> Tasks \cup {NoTask}]
  BY DEF TypeOK
<1>4. Places(t) = Places(t) \cup {1} /\ \A u : u # t => Places(u) = Places(u) \ {1}
  BY <1>1 DEF Places
<1>5. d \notin Hands(t) /\ Hands(t)' = Hands(t) \cup {d}
  BY <1>1, <1>2, <1>3 DEF Hands
<1>6. \A u \in Tasks : u # t => Hands(u)' = Hands(u)
  BY <1>1, <1>2, <1>3, ConstantsAssumption DEF Hands
<1>7. ASSUME NEW u \in Tasks PROVE Waiting(u)' = Waiting(u)
  <2>1. Waiting(u)' = Cardinality(Places(u) \ {1}) + Cardinality(Hands(u)')
    BY PlacesMoveUp DEF Waiting, Places, Hands
  <2>2. CASE u = t
    <3>1. Cardinality(Places(u) \ {1}) = Cardinality(Places(u)) - 1
      BY <1>4, <2>2, FinitelyMany, FS_RemoveElement
    <3>2. Cardinality(Hands(u)') = Cardinality(Hands(u)) + 1
      BY <1>5, <2>2, FinitelyMany, FS_AddElement
    <3> QED
      BY <2>1, <3>1, <3>2, FinitelyMany, CountsOf
  <2>3. CASE u # t
    BY <1>4, <1>6, <2>1, <2>3, CountsOf
  <2> QED
    BY <2>2, <2>3
<1>8. \A u : Running(u)' = Running(u)
  BY DEF Receive, Running, Active
<1>9. UNCHANGED <<AllWaiting, AllRunning>>
  BY <1>7, <1>8 DEF AllWaiting, AllRunning
<1>10. Cardinality(Busy') = Cardinality(Busy) + 1
  <2>1. d \notin Busy /\ Busy' = Busy \cup {d}
    BY <1>1, <1>2, <1>3 DEF Busy
  <2> QED
    BY <2>1, FinitelyMany, FS_AddElement
<1>11. Len(queue) + Cardinality(Busy) = Len(queue') + Cardinality(Busy')
  <2>1. Len(queue) \in Nat /\ Cardinality(Busy) \in Nat
    BY QueueTyped, FinitelyMany
  <2> QED
    BY <1>1, <1>10, <2>1
<1>12. sem' = sem
  BY DEF Receive
<1>13. Counted'
  BY <1>9, <1>11, <1>12 DEF Counted, Pool!Sends
<1> QED
  BY <1>9, <1>13

(* A goroutine is started with a send that waited in a dispatcher's hand.   *)
LEMMA StartRuns ==
  ASSUME TypeOK, Counted, NEW d \in Dispatchers, NEW w \in Workers, Start(d, w)
  PROVE  (\E t \in Tasks : Pool!Run(t)) /\ Counted'
<1>0. PICK t \in Tasks : t = hand[d]
  BY DEF TypeOK, Start
<1>1. /\ t \in Tasks /\ t # NoTask /\ pc[w] = "none"
      /\ hand' = [hand EXCEPT ![d] = NoTask]
      /\ sem < Concurrency /\ sem' = sem + 1 /\ queue' = queue
  BY <1>0 DEF TypeOK, Start
<1>2. hand \in [Dispatchers -> Tasks \cup {NoTask}]
  BY DEF TypeOK
<1>3. /\ pc' = [pc EXCEPT ![w] = "query"] /\ job' = [job EXCEPT ![w] = t]
      /\ w \in DOMAIN pc /\ w \in DOMAIN job
      /\ pc'[w] = "query" /\ job'[w] = t
      /\ \A v \in Workers \ {w} : pc'[v] = pc[v] /\ job'[v] = job[v]
  BY <1>0 DEF TypeOK, Start
<1>4. d \in Hands(t) /\ Hands(t)' = Hands(t) \ {d}
  BY <1>0, <1>1, <1>2 DEF Hands
<1>5. d \in Busy /\ Busy' = Busy \ {d}
  BY <1>0, <1>1, <1>2 DEF Busy
<1>6. \A u \in Tasks : u # t => Hands(u)' = Hands(u)
  BY <1>0, <1>1, <1>2, ConstantsAssumption DEF Hands
<1>7. \A u : Places(u)' = Places(u)
  BY <1>1 DEF Places
<1>8. w \notin Jobs(t) /\ Jobs(t)' = Jobs(t) \cup {w}
  BY <1>1, <1>3 DEF Jobs, Active
<1>9. \A u \in Tasks : u # t => Jobs(u)' = Jobs(u)
  BY <1>1, <1>3 DEF Jobs, Active
<1>10. Waiting(t) > 0 /\ Waiting(t)' = Waiting(t) - 1 /\ Running(t)' = Running(t) + 1
  <2>1. Cardinality(Hands(t)') = Cardinality(Hands(t)) - 1
    BY <1>4, FinitelyMany, FS_RemoveElement
  <2>5. Cardinality(Jobs(t)') = Cardinality(Jobs(t)) + 1
    BY <1>8, FinitelyMany, FS_AddElement
  <2>2. Cardinality(Hands(t)) > 0
    <3>1. Hands(t) # {}
      BY <1>4
    <3>2. Cardinality(Hands(t)) # 0
      BY <3>1, FinitelyMany, FS_EmptySet
    <3> QED
      BY <3>2, FinitelyMany
  <2>3. Waiting(t)' = Cardinality(Places(t)) + Cardinality(Hands(t)')
    BY <1>7 DEF Waiting, Places, Hands
  <2>4. Running(t)' = Cardinality(Jobs(t)')
    BY DEF Running, Jobs
  <2> QED
    BY <2>1, <2>2, <2>3, <2>4, <2>5, FinitelyMany, CountsOf
<1>11. \A u \in Tasks \ {t} : Waiting(u)' = Waiting(u) /\ Running(u)' = Running(u)
  BY <1>6, <1>7, <1>9 DEF Waiting, Running, Places, Hands, Jobs
<1>12. /\ AllWaiting' = [AllWaiting EXCEPT ![t] = @ - 1]
       /\ AllRunning' = [AllRunning EXCEPT ![t] = @ + 1]
       /\ AllWaiting[t] > 0
  BY <1>1, <1>10, <1>11 DEF AllWaiting, AllRunning
<1>13. Pool!Run(t)
  <2>1. Cardinality(Pool!Sends(AllRunning)) < Concurrency
    BY <1>1 DEF Counted
  <2> QED
    BY <1>12, <2>1 DEF Pool!Run, Pool!Cardinality, Cardinality, AllWaiting, AllRunning
<1>14. Counted'
  <2>1. /\ IsFiniteSet(Pool!Sends(AllWaiting'))
        /\ Cardinality(Pool!Sends(AllWaiting')) = Cardinality(Pool!Sends(AllWaiting)) - 1
    BY <1>1, <1>12, CountsTyped, SendsShrink DEF Counted
  <2>2. /\ IsFiniteSet(Pool!Sends(AllRunning'))
        /\ Cardinality(Pool!Sends(AllRunning')) = Cardinality(Pool!Sends(AllRunning)) + 1
    BY <1>1, <1>12, CountsTyped, SendsGrow DEF Counted
  <2>3. Cardinality(Busy') = Cardinality(Busy) - 1
    BY <1>5, FinitelyMany, FS_RemoveElement
  <2>4. Cardinality(Pool!Sends(AllWaiting')) = Len(queue') + Cardinality(Busy')
    <3>1. Cardinality(Pool!Sends(AllWaiting)) = Len(queue) + Cardinality(Busy)
      BY DEF Counted
    <3>2. Len(queue) \in Nat /\ Cardinality(Busy) \in Nat
      BY QueueTyped, FinitelyMany
    <3> QED
      BY <1>1, <2>1, <2>3, <3>1, <3>2
  <2>5. Cardinality(Pool!Sends(AllRunning')) = sem'
    BY <1>1, <2>2 DEF Counted
  <2> QED
    BY <2>1, <2>2, <2>4, <2>5 DEF Counted, Pool!Sends
<1> QED
  BY <1>1, <1>13, <1>14

(* A goroutine that returns ends the send it was started with.              *)
LEMMA ReportFinishes ==
  ASSUME TypeOK, RowHeld, Counted, NEW w \in Workers, Report(w)
  PROVE  (\E t \in Tasks : Pool!Finish(t)) /\ Counted'
<1>0. PICK t \in Tasks : t = job[w]
  BY DEF RowHeld, Report
<1>1. /\ pc[w] # "none" /\ t \in Tasks /\ sem' = sem - 1 /\ UNCHANGED <<queue, hand>>
      /\ pc'[w] = "none"
      /\ \A v \in Workers \ {w} : pc'[v] = pc[v] /\ job'[v] = job[v]
  BY <1>0 DEF TypeOK, Report, Goto
<1>2. w \in Jobs(t) /\ Jobs(t)' = Jobs(t) \ {w}
  BY <1>0, <1>1 DEF Jobs, Active
<1>3. \A u \in Tasks : u # t => Jobs(u)' = Jobs(u)
  BY <1>0, <1>1 DEF Jobs, Active
<1>4. \A u : Waiting(u)' = Waiting(u)
  BY <1>1 DEF Waiting
<1>5. Running(t) > 0 /\ Running(t)' = Running(t) - 1
  <2>1. Cardinality(Jobs(t)') = Cardinality(Jobs(t)) - 1
    BY <1>2, FinitelyMany, FS_RemoveElement
  <2>2. Cardinality(Jobs(t)) # 0
    BY <1>2, FinitelyMany, FS_EmptySet
  <2>3. Running(t)' = Cardinality(Jobs(t)')
    BY DEF Running, Jobs
  <2> QED
    BY <2>1, <2>2, <2>3, FinitelyMany, CountsOf
<1>6. \A u \in Tasks \ {t} : Running(u)' = Running(u)
  BY <1>3 DEF Running, Jobs
<1>7. /\ AllWaiting' = AllWaiting
      /\ AllRunning' = [AllRunning EXCEPT ![t] = @ - 1]
      /\ AllRunning[t] > 0
  BY <1>1, <1>4, <1>5, <1>6 DEF AllWaiting, AllRunning
<1>8. Pool!Finish(t)
  BY <1>7 DEF Pool!Finish, AllWaiting, AllRunning
<1>9. Counted'
  <2>1. /\ IsFiniteSet(Pool!Sends(AllRunning'))
        /\ Cardinality(Pool!Sends(AllRunning')) = Cardinality(Pool!Sends(AllRunning)) - 1
    BY <1>1, <1>7, CountsTyped, SendsShrink DEF Counted
  <2>2. Cardinality(Pool!Sends(AllRunning')) = sem'
    BY <1>1, <2>1 DEF Counted
  <2>3. Busy' = Busy
    BY <1>1 DEF Busy
  <2> QED
    BY <1>1, <1>7, <2>1, <2>2, <2>3 DEF Counted, Pool!Sends
<1> QED
  BY <1>1, <1>8, <1>9

(* Without queue, hands and goroutines there is nothing to count.           *)
LEMMA NothingCounted ==
  ASSUME queue = <<>>, hand = NoHand, pc = NoGoroutine, sem = 0
  PROVE  AllWaiting = Pool!Idle /\ AllRunning = Pool!Idle /\ Counted
<1>1. DOMAIN queue = {} /\ Len(queue) = 0
  OBVIOUS
<1>2. \A t : Places(t) = {}
  BY <1>1 DEF Places
<1>3. Busy = {} /\ \A t \in Tasks : Hands(t) = {} /\ Jobs(t) = {}
  BY ConstantsAssumption DEF Busy, Hands, Jobs, Active, NoHand, NoGoroutine
<1>4. \A t \in Tasks : Waiting(t) = 0 /\ Running(t) = 0
  BY <1>2, <1>3, CountsOf, FS_EmptySet
<1>5. AllWaiting = Pool!Idle /\ AllRunning = Pool!Idle
  BY <1>4 DEF AllWaiting, AllRunning, Pool!Idle
<1>6. Cardinality(Busy) = 0
  BY <1>3, FS_EmptySet
<1> QED
  BY <1>1, <1>5, <1>6, SendsOfIdle DEF Counted

(* A crash forgets everything at once.                                      *)
LEMMA RestartCrashes ==
  ASSUME Restart PROVE Pool!Crash /\ Counted'
<1>1. (queue = <<>> /\ hand = NoHand /\ pc = NoGoroutine /\ sem = 0)'
  BY DEF Restart, NoHand, NoGoroutine
<1>2. (queue = <<>> /\ hand = NoHand /\ pc = NoGoroutine /\ sem = 0
        => AllWaiting = Pool!Idle /\ AllRunning = Pool!Idle /\ Counted)'
  BY NothingCounted, PTL
<1>3. AllWaiting' = Pool!Idle /\ AllRunning' = Pool!Idle /\ Counted'
  BY <1>1, <1>2 DEF Pool!Idle
<1> QED
  BY <1>3 DEF Pool!Crash, AllWaiting, AllRunning

(* Any other step leaves the counts alone: no goroutine starts or returns.  *)
LEMMA OtherwiseNothing ==
  ASSUME Counted, UNCHANGED <<queue, hand, job, sem>>, Active' = Active
  PROVE  UNCHANGED <<AllWaiting, AllRunning>> /\ Counted'
<1>1. \A t : Waiting(t)' = Waiting(t) /\ Running(t)' = Running(t)
  BY DEF Waiting, Running
<1>2. UNCHANGED <<AllWaiting, AllRunning>> /\ Busy' = Busy
  BY <1>1 DEF AllWaiting, AllRunning, Busy
<1> QED
  BY <1>2 DEF Counted, Pool!Sends

-----------------------------------------------------------------------------
(* The simulation.                                                          *)

(* RestoreWorkers begins where RestorePool begins.                          *)
LEMMA PoolInit == Init => Pool!Init /\ Counted
BY NothingCounted DEF Init, Pool!Init, AllWaiting, AllRunning

(* Every step is a step of RestorePool or changes nothing it sees.          *)
LEMMA PoolStep ==
  ASSUME IInv, Counted, [Next]_vars
  PROVE  [Pool!Next]_(Pool!vars) /\ Counted'
<1> DEFINE Simulated == [Pool!Next]_(Pool!vars) /\ Counted'
<1>0. TypeOK /\ RowHeld
  BY DEF IInv
<1> SUFFICES Simulated
  OBVIOUS
<1>1. ASSUME NEW t \in Tasks, Enqueue(t) PROVE Simulated
  BY <1>0, <1>1, EnqueueSubmits DEF Pool!Next
<1>2. ASSUME NEW r \in Rows, NEW k \in Keys, InsertRow(r, k) PROVE Simulated
  BY <1>0, <1>2, OtherwiseNothing DEF Pool!vars, AllWaiting, AllRunning, Active, InsertRow, memory
<1>3. ASSUME StartCtxExpires PROVE Simulated
  BY <1>0, <1>3, OtherwiseNothing DEF Pool!vars, AllWaiting, AllRunning, Active, StartCtxExpires
<1>4. ASSUME DispatcherReturns PROVE Simulated
  BY <1>0, <1>4, OtherwiseNothing DEF Pool!vars, AllWaiting, AllRunning, Active, DispatcherReturns
<1>5. ASSUME NEW d \in Dispatchers, Receive(d) PROVE Simulated
  BY <1>0, <1>5, ReceiveStutters DEF Pool!vars, AllWaiting, AllRunning
<1>6. ASSUME NEW d \in Dispatchers, NEW w \in Workers, Start(d, w) PROVE Simulated
  BY <1>0, <1>6, StartRuns DEF Pool!Next
<1>7. ASSUME NEW w \in Workers, QueryFails(w) PROVE Simulated
  <2>1. Active' = Active
    BY <1>0, <1>7, ActiveStays DEF QueryFails, ReturnWith
  <2> QED
    BY <1>0, <1>7, <2>1, OtherwiseNothing DEF Pool!vars, AllWaiting, AllRunning, QueryFails
<1>8. ASSUME NEW w \in Workers, QueryFindsNotOne(w) PROVE Simulated
  <2>1. Active' = Active
    BY <1>0, <1>8, ActiveStays DEF QueryFindsNotOne, ReturnWith
  <2> QED
    BY <1>0, <1>8, <2>1, OtherwiseNothing DEF Pool!vars, AllWaiting, AllRunning, QueryFindsNotOne
<1>9. ASSUME NEW w \in Workers, QueryFindsRow(w) PROVE Simulated
  <2>1. Active' = Active
    BY <1>0, <1>9, ActiveStays DEF QueryFindsRow
  <2> QED
    BY <1>0, <1>9, <2>1, OtherwiseNothing DEF Pool!vars, AllWaiting, AllRunning, QueryFindsRow
<1>10. ASSUME NEW w \in Workers, RestoreAccepted(w) PROVE Simulated
  <2>1. Active' = Active
    BY <1>0, <1>10, ActiveStays DEF RestoreAccepted
  <2> QED
    BY <1>0, <1>10, <2>1, OtherwiseNothing DEF Pool!vars, AllWaiting, AllRunning, RestoreAccepted
<1>11. ASSUME NEW w \in Workers, RestoreRefused(w) PROVE Simulated
  <2>1. Active' = Active
    BY <1>0, <1>11, ActiveStays DEF RestoreRefused
  <2> QED
    BY <1>0, <1>11, <2>1, OtherwiseNothing DEF Pool!vars, AllWaiting, AllRunning, RestoreRefused
<1>12. ASSUME NEW w \in Workers, MarkFailed(w) PROVE Simulated
  <2>1. Active' = Active
    BY <1>0, <1>12, ActiveStays DEF MarkFailed, ReturnWith
  <2> QED
    BY <1>0, <1>12, <2>1, OtherwiseNothing DEF Pool!vars, AllWaiting, AllRunning, MarkFailed
<1>13. ASSUME NEW w \in Workers, PollSaysComplete(w) PROVE Simulated
  <2>1. Active' = Active
    BY <1>0, <1>13, ActiveStays DEF PollSaysComplete
  <2> QED
    BY <1>0, <1>13, <2>1, OtherwiseNothing DEF Pool!vars, AllWaiting, AllRunning, PollSaysComplete
<1>14. ASSUME NEW w \in Workers, MarkSuccess(w) PROVE Simulated
  <2>1. Active' = Active
    BY <1>0, <1>14, ActiveStays DEF MarkSuccess, ReturnWith
  <2> QED
    BY <1>0, <1>14, <2>1, OtherwiseNothing DEF Pool!vars, AllWaiting, AllRunning, MarkSuccess
<1>15. ASSUME NEW w \in Workers, MarkSuccessFails(w) PROVE Simulated
  <2>1. Active' = Active
    BY <1>0, <1>15, ActiveStays DEF MarkSuccessFails
  <2> QED
    BY <1>0, <1>15, <2>1, OtherwiseNothing DEF Pool!vars, AllWaiting, AllRunning, MarkSuccessFails
<1>16. ASSUME NEW w \in Workers, Timeout(w) PROVE Simulated
  <2>1. Active' = Active
    BY <1>0, <1>16, ActiveStays DEF Timeout
  <2> QED
    BY <1>0, <1>16, <2>1, OtherwiseNothing DEF Pool!vars, AllWaiting, AllRunning, Timeout
<1>17. ASSUME NEW w \in Workers, MarkTimeout(w) PROVE Simulated
  <2>1. Active' = Active
    BY <1>0, <1>17, ActiveStays DEF MarkTimeout, ReturnWith
  <2> QED
    BY <1>0, <1>17, <2>1, OtherwiseNothing DEF Pool!vars, AllWaiting, AllRunning, MarkTimeout
<1>18. ASSUME NEW w \in Workers, Report(w) PROVE Simulated
  BY <1>0, <1>18, ReportFinishes DEF Pool!Next
<1>19. ASSUME NEW i \in Indices, RecoveryCompletes(i) PROVE Simulated
  BY <1>0, <1>19, OtherwiseNothing DEF Pool!vars, AllWaiting, AllRunning, Active, RecoveryCompletes, memory
<1>20. CASE Restart
  BY <1>0, <1>20, RestartCrashes DEF Pool!Next
<1>21. ASSUME UNCHANGED vars PROVE Simulated
  BY <1>0, <1>21, OtherwiseNothing DEF Pool!vars, AllWaiting, AllRunning, Active, vars
<1> QED
  BY <1>1, <1>2, <1>3, <1>4, <1>5, <1>6, <1>7, <1>8, <1>9, <1>10, <1>11, <1>12, <1>13, <1>14, <1>15, <1>16, <1>17, <1>18, <1>19, <1>20, <1>21
     DEF Next, Environment, DispatcherStep, WorkerStep, IndexPanic

(* RestoreWorkers implements RestorePool: sends are run once each, within   *)
(* the two bounds, and only a crash makes one disappear.                    *)
THEOREM PoolImplemented == Spec => PoolSpec
<1>1. Init => Pool!Init /\ Counted
  BY PoolInit
<1>2. IInv /\ Counted /\ [Next]_vars => [Pool!Next]_(Pool!vars) /\ Counted'
  BY PoolStep
<1> QED
  BY <1>1, <1>2, IInvHolds, PTL DEF Spec, PoolSpec, Pool!Spec
=============================================================================
