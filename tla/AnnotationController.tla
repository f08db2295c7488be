------------------------ MODULE AnnotationController ------------------------
(***************************************************************************)
(* The controller of annotated StatefulSets (internal/controller).         *)
(*                                                                         *)
(* A user asks for a restore by two annotations of a StatefulSet: the id   *)
(* of a task, and the state "pending".  Reconcile marks the StatefulSet    *)
(* "running" and sends the task on taskQueue; a dispatcher takes it,       *)
(* restores, and marks the StatefulSet "done".  The annotations are the    *)
(* only record of a task.                                                  *)
(*                                                                         *)
(* Reconcile and the dispatchers read through the informer's cache, which  *)
(* lags behind the API server, and write merge patches that hold the state *)
(* alone and no resourceVersion: whatever the id is by then, it gets the   *)
(* new state.  The informer shows the versions of an object one by one,    *)
(* and its filters decide which of them make Reconcile run.                *)
(***************************************************************************)
EXTENDS Naturals, Sequences

CONSTANTS
  Sets,       \* the StatefulSets, by name
  Matching,   \* those with the restore key in their name and the right owner
  Bare,       \* those that carry no annotations of anybody else
  Ids,        \* the values of the annotation task-id
  MaxQueue,   \* capacity of taskQueue
  ApiFaults,  \* may a call to the API server fail?
  MaxAsks,    \* bound on the restores a user asks of one StatefulSet
  MaxLag,     \* bound on the versions of one object that others write unseen
  MaxCrashes, \* bound on the crashes of the process
  NoId,       \* there is no annotation task-id
  NoSet       \* no StatefulSet

ASSUME ConstantsAssumption ==
  /\ Matching \subseteq Sets /\ Bare \subseteq Sets
  /\ MaxQueue \in Nat \ {0}
  /\ ApiFaults \in BOOLEAN
  /\ {MaxAsks, MaxLag, MaxCrashes} \subseteq Nat
  /\ NoId \notin Ids
  /\ NoSet \notin Sets

VARIABLES
  cached,       \* cached[s]: the version of s that the informer shows
  feed,         \* feed[s]: the versions written since, oldest first
  work,         \* the StatefulSets in the workqueue
  current,      \* the one being reconciled
  at,           \* where its Reconcile is
  taskID,       \* the id it has read
  queue,        \* taskQueue
  stage,        \* stage[d]: what dispatcher d does next
  task,         \* task[d]: the task it executes
  base,         \* base[d]: the copy its patch is computed from
  startCtxDone, \* has the context of the OnStart hook expired?
  returned,     \* the dispatchers whose loop has returned
  crashes,      \* history: the crashes of the process
  asked,        \* history: how often a restore of s was asked for
  sent,         \* history: how often Reconcile sent s to taskQueue
  ran,          \* history: the tasks whose restoreIndices has returned
  unready       \* history: the StatefulSets Reconcile met when not ready

informer == <<cached, feed>>
reconcileVars == <<work, current, at, taskID>>
dispatcherVars == <<queue, stage, task, base, startCtxDone, returned>>
history == <<crashes, asked, sent, ran, unready>>
vars == <<cached, feed, work, current, at, taskID, queue, stage, task, base,
          startCtxDone, returned, crashes, asked, sent, ran, unready>>

Dispatchers == {"background", "onStart"}

(* A version of a StatefulSet; Gone once it is deleted.                     *)
Version == [ready : BOOLEAN, id : Ids \cup {NoId},
            state : {"", "pending", "running", "done"}]
Gone == [ready |-> FALSE, id |-> NoId, state |-> "gone"]
New == [ready |-> FALSE, id |-> NoId, state |-> ""]

Task == [set : Sets, id : Ids]
NoTask == [set |-> NoSet, id |-> NoId]

TypeOK ==
  /\ cached \in [Sets -> Version \cup {Gone}]
  /\ feed \in [Sets -> Seq(Version \cup {Gone})]
  /\ work \in SUBSET Sets
  /\ current \in Sets \cup {NoSet}
  /\ at \in {"none", "get", "patch", "send"}
  /\ taskID \in Ids \cup {NoId}
  /\ queue \in Seq(Task) /\ Len(queue) <= MaxQueue
  /\ stage \in [Dispatchers -> {"idle", "restore", "get", "patch"}]
  /\ task \in [Dispatchers -> Task \cup {NoTask}]
  /\ base \in [Dispatchers -> Version \cup {Gone}]
  /\ startCtxDone \in BOOLEAN
  /\ returned \in SUBSET Dispatchers
  /\ crashes \in 0..MaxCrashes
  /\ asked \in [Sets -> 0..MaxAsks]
  /\ sent \in [Sets -> Nat]
  /\ ran \in SUBSET Task
  /\ unready \in SUBSET Sets

(* What the API server holds.                                               *)
Server(s) == IF feed[s] = <<>> THEN cached[s] ELSE feed[s][Len(feed[s])]

(* A write that changes nothing makes no version.                           *)
Write(s, version) ==
  feed' = IF version = Server(s) THEN feed
                                 ELSE [feed EXCEPT ![s] = Append(@, version)]

(* NewRestoreReconciler, and the two calls of StartWorker.                  *)
NothingInMemory ==
  /\ current' = NoSet /\ at' = "none" /\ taskID' = NoId
  /\ queue' = <<>>
  /\ stage' = [d \in Dispatchers |-> "idle"]
  /\ task' = [d \in Dispatchers |-> NoTask]
  /\ base' = [d \in Dispatchers |-> Gone]
  /\ startCtxDone' = FALSE /\ returned' = {}

Init ==
  /\ cached = [s \in Sets |-> New] /\ feed = [s \in Sets |-> <<>>]
  /\ work = {} /\ current = NoSet /\ at = "none" /\ taskID = NoId
  /\ queue = <<>>
  /\ stage = [d \in Dispatchers |-> "idle"]
  /\ task = [d \in Dispatchers |-> NoTask]
  /\ base = [d \in Dispatchers |-> Gone]
  /\ startCtxDone = FALSE /\ returned = {}
  /\ crashes = 0
  /\ asked = [s \in Sets |-> 0] /\ sent = [s \in Sets |-> 0]
  /\ ran = {} /\ unready = {}

-----------------------------------------------------------------------------
(* The user and the Elasticsearch operator write to the API server.         *)
Outside(s, version) ==
  /\ Len(feed[s]) < MaxLag
  /\ version # Server(s)
  /\ Write(s, version)
  /\ UNCHANGED <<cached, reconcileVars, dispatcherVars, crashes, sent, ran, unready>>

Ask(s, id) ==
  /\ Server(s) # Gone
  /\ asked[s] < MaxAsks
  /\ asked' = [asked EXCEPT ![s] = @ + 1]
  /\ Outside(s, [Server(s) EXCEPT !.id = id, !.state = "pending"])

ReadinessChanges(s) ==
  /\ Server(s) # Gone
  /\ Outside(s, [Server(s) EXCEPT !.ready = ~@])
  /\ UNCHANGED asked

Deleted(s) == Outside(s, Gone) /\ UNCHANGED asked

CreatedAgain(s) == Server(s) = Gone /\ Outside(s, New) /\ UNCHANGED asked

-----------------------------------------------------------------------------
(* match                                                                    *)
Match(s, version) ==
  /\ s \in Matching
  /\ version.id # NoId
  /\ version.state # ""

(* filterCreate and filterUpdate; deletions are dropped.  An update of an   *)
(* object that had no annotations at all is dropped as well.                *)
Passes(s, old, new) ==
  /\ new # Gone
  /\ Match(s, new)
  /\ \/ old = Gone
     \/ /\ s \in Bare => old.id # NoId
        /\ old.id # new.id \/ old.state # new.state

CacheSees(s) ==
  /\ feed[s] # <<>>
  /\ cached' = [cached EXCEPT ![s] = Head(feed[s])]
  /\ feed' = [feed EXCEPT ![s] = Tail(@)]
  /\ work' = IF Passes(s, cached[s], Head(feed[s])) THEN work \cup {s} ELSE work
  /\ UNCHANGED <<current, at, taskID, dispatcherVars, history>>

-----------------------------------------------------------------------------
(* Reconcile of s = current; MaxConcurrentReconciles is 1.                  *)
Begin(s) ==
  /\ current = NoSet
  /\ s \in work
  /\ work' = work \ {s}
  /\ current' = s
  /\ at' = "get"
  /\ UNCHANGED <<informer, taskID, dispatcherVars, history>>

Return == current' = NoSet /\ at' = "none" /\ taskID' = NoId
Forget == Return /\ UNCHANGED work
Requeue == Return /\ work' = work \cup {current}

(* A StatefulSet that is gone, not ready or in another state is dropped.    *)
Skip ==
  /\ at = "get"
  /\ cached[current].state # "pending" \/ ~cached[current].ready
  /\ unready' = IF cached[current] # Gone /\ ~cached[current].ready
                THEN unready \cup {current} ELSE unready
  /\ Forget
  /\ UNCHANGED <<informer, dispatcherVars, crashes, asked, sent, ran>>

(* Mutant: the state is not looked at.                                      *)
TakeAnyState ==
  /\ at = "get"
  /\ cached[current].ready /\ cached[current].id # NoId
  /\ taskID' = cached[current].id
  /\ at' = "patch"
  /\ UNCHANGED <<informer, work, current, dispatcherVars, history>>

Take ==
  /\ at = "get"
  /\ cached[current].ready /\ cached[current].state = "pending"
  /\ taskID' = cached[current].id
  /\ at' = "patch"
  /\ UNCHANGED <<informer, work, current, dispatcherVars, history>>

(* The patch sets the state of whatever is there.  When it fails, it may    *)
(* have been applied.                                                       *)
Patched(s, state) == Server(s) # Gone /\ Write(s, [Server(s) EXCEPT !.state = state])

(* Mutant: the error of the patch is not returned.                          *)
MarkRunningGivesUp ==
  /\ at = "patch"
  /\ \/ Patched(current, "running") /\ at' = "send" /\ UNCHANGED <<work, current, taskID>>
     \/ ApiFaults /\ Patched(current, "running") /\ Forget
     \/ (ApiFaults \/ Server(current) = Gone) /\ Forget /\ UNCHANGED feed
  /\ UNCHANGED <<cached, dispatcherVars, history>>

MarkRunning ==
  /\ at = "patch"
  /\ \/ Patched(current, "running") /\ at' = "send" /\ UNCHANGED <<work, current, taskID>>
     \/ ApiFaults /\ Patched(current, "running") /\ Requeue
     \/ (ApiFaults \/ Server(current) = Gone) /\ Requeue /\ UNCHANGED feed
  /\ UNCHANGED <<cached, dispatcherVars, history>>

(* Mutant: the queue has no capacity. *)
SendAtOnce ==
  /\ at = "send"
  /\ queue' = Append(queue, [set |-> current, id |-> taskID])
  /\ sent' = [sent EXCEPT ![current] = @ + 1]
  /\ Forget
  /\ UNCHANGED <<informer, stage, task, base, startCtxDone, returned,
                 crashes, asked, ran, unready>>

(* The send blocks while the buffer is full.                                *)
Send ==
  /\ at = "send"
  /\ Len(queue) < MaxQueue
  /\ queue' = Append(queue, [set |-> current, id |-> taskID])
  /\ sent' = [sent EXCEPT ![current] = @ + 1]
  /\ Forget
  /\ UNCHANGED <<informer, stage, task, base, startCtxDone, returned,
                 crashes, asked, ran, unready>>

Reconcile == Skip \/ Take \/ MarkRunning \/ Send

-----------------------------------------------------------------------------
(* StartWorker: a dispatcher executes one task after another.               *)
Idle(d) ==
  /\ stage' = [stage EXCEPT ![d] = "idle"]
  /\ task' = [task EXCEPT ![d] = NoTask]
  /\ base' = [base EXCEPT ![d] = Gone]

Receive(d) ==
  /\ d \notin returned
  /\ stage[d] = "idle"
  /\ queue # <<>>
  /\ task' = [task EXCEPT ![d] = Head(queue)]
  /\ queue' = Tail(queue)
  /\ stage' = [stage EXCEPT ![d] = "restore"]
  /\ UNCHANGED <<informer, reconcileVars, base, startCtxDone, returned, history>>

(* restoreIndices sleeps and returns nil: no task fails.                    *)
RestoreIndices(d) ==
  /\ stage[d] = "restore"
  /\ stage' = [stage EXCEPT ![d] = "get"]
  /\ ran' = ran \cup {task[d]}
  /\ UNCHANGED <<informer, reconcileVars, queue, task, base, startCtxDone, returned,
                 crashes, asked, sent, unready>>

(* updateTaskStatus: the copy in the cache must have the id of the task.    *)
(* Of a copy that says "done" the patch is empty.                           *)
StatusSkipped(d) ==
  /\ stage[d] = "get"
  /\ LET copy == cached[task[d].set] IN copy.id # task[d].id \/ copy.state = "done"
  /\ Idle(d)
  /\ UNCHANGED <<informer, reconcileVars, queue, startCtxDone, returned, history>>

(* Mutant: the id is not compared.                                          *)
StatusOfAnyId(d) ==
  /\ stage[d] = "get"
  /\ LET copy == cached[task[d].set]
     IN  copy # Gone /\ copy.state # "done" /\ base' = [base EXCEPT ![d] = copy]
  /\ stage' = [stage EXCEPT ![d] = "patch"]
  /\ UNCHANGED <<informer, reconcileVars, queue, task, startCtxDone, returned, history>>

StatusComputed(d) ==
  /\ stage[d] = "get"
  /\ LET copy == cached[task[d].set]
     IN  copy.id = task[d].id /\ copy.state # "done" /\ base' = [base EXCEPT ![d] = copy]
  /\ stage' = [stage EXCEPT ![d] = "patch"]
  /\ UNCHANGED <<informer, reconcileVars, queue, task, startCtxDone, returned, history>>

(* The second dispatcher writes with the start context: once it has         *)
(* expired, every call with it fails.  An error is logged and dropped.      *)
Expired(d) == d = "onStart" /\ startCtxDone

MarkDone(d) ==
  /\ stage[d] = "patch"
  /\ \/ ~Expired(d) /\ Patched(task[d].set, "done")
     \/ /\ ApiFaults \/ Expired(d) \/ Server(task[d].set) = Gone
        /\ UNCHANGED feed
  /\ Idle(d)
  /\ UNCHANGED <<cached, reconcileVars, queue, startCtxDone, returned, history>>

StartCtxExpires ==
  /\ ~startCtxDone
  /\ startCtxDone' = TRUE
  /\ UNCHANGED <<informer, reconcileVars, queue, stage, task, base, returned, history>>

DispatcherReturns ==
  /\ startCtxDone
  /\ stage["onStart"] = "idle" /\ "onStart" \notin returned
  /\ returned' = returned \cup {"onStart"}
  /\ UNCHANGED <<informer, reconcileVars, queue, stage, task, base, startCtxDone, history>>

DispatcherStep(d) ==
  \/ Receive(d) \/ RestoreIndices(d) \/ StatusSkipped(d) \/ StatusComputed(d)
  \/ MarkDone(d)

-----------------------------------------------------------------------------
(* A new process lists every StatefulSet, and each that matches counts as   *)
(* created.                                                                 *)
Restart ==
  /\ crashes < MaxCrashes
  /\ crashes' = crashes + 1
  /\ cached' = [s \in Sets |-> Server(s)]
  /\ feed' = [s \in Sets |-> <<>>]
  /\ work' = {s \in Sets : Passes(s, Gone, Server(s))}
  /\ NothingInMemory
  /\ UNCHANGED <<asked, sent, ran, unready>>

Environment(s) ==
  \/ \E id \in Ids : Ask(s, id)
  \/ ReadinessChanges(s) \/ Deleted(s) \/ CreatedAgain(s)

Next ==
  \/ \E s \in Sets : Environment(s) \/ CacheSees(s) \/ Begin(s)
  \/ Reconcile
  \/ \E d \in Dispatchers : DispatcherStep(d)
  \/ StartCtxExpires \/ DispatcherReturns
  \/ Restart

Spec == Init /\ [][Next]_vars

-----------------------------------------------------------------------------
(* How often a StatefulSet is restored is bounded by how often its user     *)
(* asks: the writes of the controller itself, its retries and its restarts  *)
(* start no restore.  An ask may be served twice, though: a Reconcile that  *)
(* an earlier version called for sees the new one, and so does its own,     *)
(* before the cache shows "running".                                        *)
RestoresAreAsked ==
  \A s \in Sets : sent[s] > 0 => sent[s] < 2 * asked[s]

(* "done" is written over an id that has not been restored only when the    *)
(* patch was computed from an old copy of the StatefulSet.                  *)
DoneWithoutRestoreOnlyFromOldCopies ==
  [][\A d \in Dispatchers :
       LET s == task[d].set
       IN  /\ stage[d] = "patch" /\ stage'[d] = "idle"
           /\ feed' # feed /\ crashes' = crashes
           => \/ [set |-> s, id |-> Server(s).id] \in ran
              \/ base[d] # Server(s)]_vars

(* No wake-up is lost: while a StatefulSet says "pending", it is in the     *)
(* workqueue, or its Reconcile has not yet patched it, or the informer has  *)
(* a version to show that passes the filters, although calls fail and the   *)
(* process dies.  Except when Reconcile met it unready, since its becoming  *)
(* ready is filtered out, or when it had no annotations before, since       *)
(* filterUpdate drops their coming: it may then stay pending for ever.      *)
Versions(s) == <<cached[s]>> \o feed[s]

PendingIsNotForgotten ==
  \A s \in Matching \ (Bare \cup unready) :
    Server(s).state = "pending"
      => \/ s \in work
         \/ current = s /\ at \in {"get", "patch"}
         \/ \E i \in DOMAIN feed[s] : Passes(s, Versions(s)[i], Versions(s)[i + 1])
=============================================================================
