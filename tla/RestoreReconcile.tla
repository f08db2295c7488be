-------------------------- MODULE RestoreReconcile --------------------------
(***************************************************************************)
(* RestoreTaskReconciler.Reconcile and the HTTP handlers that add and      *)
(* remove node sets (internal/http/utils.go).                              *)
(*                                                                         *)
(* Both change the list spec.nodeSets of the one Elasticsearch object by   *)
(* reading it, editing the copy and sending a JSON merge patch.  A merge   *)
(* patch replaces a list as a whole and carries no resourceVersion, so     *)
(* whatever was written since the copy was taken is written over.          *)
(* Reconcile reads through the informer cache, which lags behind the API   *)
(* server; the handlers read the server itself.                            *)
(*                                                                         *)
(* One goroutine takes RestoreTasks from the workqueue and reconciles them *)
(* one after another; handlers run beside it, each in its own goroutine.   *)
(* Every call to the API server or the cache is a step.                    *)
(***************************************************************************)
EXTENDS Naturals, Sequences

CONSTANTS
  Tasks,        \* the RestoreTask objects, by name
  NodeName,     \* NodeName[t]: spec.nodeName of t
  StoreSize,    \* StoreSize[t]: spec.storeSize of t as utils.ToGB reads it
  Storage,      \* Storage[t]: the same as Kubernetes reads it; 1G is less than 1Gi
  Quantities,   \* tasks and requests whose size is a Kubernetes quantity
  GigaBytes,    \* tasks whose size utils.ToGB can read
  Requests,     \* HTTP requests that edit the node sets
  RequestName,  \* RequestName[q]: the node they are about
  RequestSize,  \* RequestSize[q]: the size they ask for; 0: delete the node
  Owned,        \* nodes whose StatefulSet has an Elasticsearch owner
  Flapping,     \* may a ready StatefulSet become unready?
  ApiFaults,    \* may a call to the API server fail?
  Original,     \* the node sets before any request
  MaxEvents,    \* MaxEvents[t]: bound on the watch events of t
  NoTask

TaskNodes == {NodeName[t] : t \in Tasks}

Nodes == TaskNodes \cup {RequestName[q] : q \in Requests}
           \cup {Original[i].name : i \in DOMAIN Original}

NodeSet == [name : Nodes, size : Nat \ {0}]

ASSUME ConstantsAssumption ==
  /\ StoreSize \in [Tasks -> Nat \ {0}] /\ Storage \in [Tasks -> Nat \ {0}]
  /\ RequestSize \in [Requests -> Nat]
  /\ DOMAIN NodeName = Tasks /\ DOMAIN RequestName = Requests
  /\ Quantities \subseteq Tasks \cup Requests
  /\ GigaBytes \subseteq Tasks
  /\ Original \in Seq(NodeSet)
  /\ {Flapping, ApiFaults} \subseteq BOOLEAN
  /\ MaxEvents \in [Tasks -> Nat]
  /\ NoTask \notin Tasks

(* The operator names the StatefulSet of a node set after it, so the node   *)
(* sets of the cluster have different names before anyone adds to them.     *)
ASSUME OriginalAssumption ==
  \A i, j \in DOMAIN Original : Original[i].name = Original[j].name => i = j

VARIABLES
  nodeSets,  \* spec.nodeSets of the Elasticsearch object on the API server
  cached,    \* the informer's copy of it
  sts,       \* sts[n]: the StatefulSet of node n, as the informer shows it,
             \* for the nodes that RestoreTasks name: no other is looked at
  exists,    \* the RestoreTasks that exist
  work,      \* the RestoreTasks in the workqueue, waiting or backing off
  current,   \* the RestoreTask being reconciled
  at,        \* where its Reconcile is
  edited,    \* es.Spec.NodeSets in the memory of Reconcile
  base,      \* the copy of it that the patch is computed from
  request,   \* request[q]: where the handler of q is, with its two lists
  events,    \* history: watch events of t, and restarts while t existed
  sent       \* history: how often Reconcile sent t to taskQueue

queueVars == <<exists, work, events>>
reconcileVars == <<current, at, edited, base>>
vars == <<nodeSets, cached, sts, exists, work, current, at, edited, base,
          request, events, sent>>

Lists == Seq(NodeSet)
Step == {"none", "getTask", "updateTask", "getES", "patch", "getSts", "send"}
Stage == {"none", "get", "patch", "ok", "failed"}

TypeOK ==
  /\ nodeSets \in Lists
  /\ cached \in Lists
  /\ sts \in [TaskNodes -> {"absent", "starting", "ready"}]
  /\ exists \in SUBSET Tasks
  /\ work \in SUBSET Tasks
  /\ current \in Tasks \cup {NoTask}
  /\ at \in Step
  /\ edited \in Lists
  /\ base \in Lists
  /\ request \in [Requests -> [stage : Stage, edited : Lists, base : Lists]]
  /\ events \in [Tasks -> Nat]
  /\ sent \in [Tasks -> Nat]

Named(list, n) == {i \in DOMAIN list : list[i].name = n}
Names(list) == {list[i].name : i \in DOMAIN list}

Arrives == [stage |-> "none", edited |-> <<>>, base |-> <<>>]

Init ==
  /\ nodeSets = Original /\ cached = Original
  /\ sts = [n \in TaskNodes |-> IF n \in Names(Original) THEN "ready" ELSE "absent"]
  /\ exists = {} /\ work = {} /\ current = NoTask /\ at = "none"
  /\ edited = <<>> /\ base = <<>>
  /\ request = [q \in Requests |-> Arrives]
  /\ events = [t \in Tasks |-> 0]
  /\ sent = [t \in Tasks |-> 0]

-----------------------------------------------------------------------------
(* The workqueue.  GenerationChangedPredicate lets creations, deletions and *)
(* changes of the spec through and drops all other updates.  (A change of    *)
(* the spec is one that keeps the node and its size.)                       *)
Event(t) ==
  /\ events[t] < MaxEvents[t]
  /\ events' = [events EXCEPT ![t] = @ + 1]
  /\ work' = work \cup {t}
  /\ UNCHANGED <<nodeSets, cached, sts, reconcileVars, request, sent>>

Created(t) == t \notin exists /\ exists' = exists \cup {t} /\ Event(t)
Deleted(t) == t \in exists /\ exists' = exists \ {t} /\ Event(t)
SpecChanged(t) == t \in exists /\ UNCHANGED exists /\ Event(t)

(* MaxConcurrentReconciles is 1.                                            *)
Begin(t) ==
  /\ current = NoTask
  /\ t \in work
  /\ work' = work \ {t}
  /\ current' = t
  /\ at' = "getTask"
  /\ UNCHANGED <<nodeSets, cached, sts, exists, edited, base, request, events, sent>>

-----------------------------------------------------------------------------
(* Reconcile of t = current.                                                *)
Continue(step) == at' = step /\ UNCHANGED <<current, work>>

(* The local variables of Reconcile go with its frame.                      *)
Return ==
  /\ current' = NoTask /\ at' = "none" /\ edited' = <<>> /\ base' = <<>>

Forget == Return /\ UNCHANGED work

(* Mutant: the key is read after the frame is gone. *)
RequeueAfterReturn == Return /\ work' = work \cup {current'}

(* An error, a panic, which controller-runtime recovers, or RequeueAfter.   *)
Requeue == Return /\ work' = work \cup {current}

outside == <<nodeSets, cached, sts, exists, request, events, sent>>

GetTask ==
  /\ at = "getTask"
  /\ IF current \in exists THEN Continue("updateTask") /\ UNCHANGED <<edited, base>>
                           ELSE Forget
  /\ UNCHANGED outside

(* Status.StartAt is always nil: Update of the main resource drops it, and  *)
(* leaves the generation alone.                                             *)
UpdateTask ==
  /\ at = "updateTask"
  /\ \/ current \in exists /\ Continue("getES") /\ UNCHANGED <<edited, base>>
     \/ (ApiFaults \/ current \notin exists) /\ Requeue
  /\ UNCHANGED outside

(* Mutant: a retry adds the node again. *)
NodeAddedAgain ==
  /\ at = "getES"
  /\ base' = cached
  /\ edited' = Append(cached, [name |-> NodeName[current], size |-> Storage[current]])
  /\ Continue("patch")
  /\ UNCHANGED outside

(* r.Get fills es from the cache; then the node is looked for.              *)
NodeMissing ==
  /\ at = "getES"
  /\ Named(cached, NodeName[current]) = {}
  /\ IF current \in Quantities
     THEN /\ base' = cached
          /\ edited' = Append(cached, [name |-> NodeName[current],
                                       size |-> Storage[current]])
          /\ Continue("patch")
     ELSE Requeue
  /\ UNCHANGED outside

(* The last node set of that name is compared.  A task that needs more      *)
(* never gets it: fmt.Sprintf("%sGi", store_size) of a float64 is not a     *)
(* quantity and resource.MustParse panics.                                  *)
NodeFound ==
  /\ at = "getES"
  /\ \E last \in Named(cached, NodeName[current]) :
       /\ \A i \in Named(cached, NodeName[current]) : i <= last
       /\ IF current \in GigaBytes /\ StoreSize[current] <= cached[last].size
          THEN Continue("getSts") /\ UNCHANGED <<edited, base>>
          ELSE Requeue
  /\ UNCHANGED outside

(* client.MergeFrom: the patch holds the whole list, or nothing when it was *)
(* not edited.                                                              *)
Merged(new, old) == IF new = old THEN nodeSets ELSE new

(* A patch that returns an error may have been applied.                     *)
PatchES ==
  /\ at = "patch"
  /\ \/ nodeSets' = Merged(edited, base) /\ Continue("getSts") /\ UNCHANGED <<edited, base>>
     \/ ApiFaults /\ Requeue /\ nodeSets' \in {nodeSets, Merged(edited, base)}
  /\ UNCHANGED <<cached, sts, exists, request, events, sent>>

(* Mutant: a StatefulSet that is not ready ends the matter. *)
StsAwaitedOnce ==
  /\ at = "getSts"
  /\ IF sts[NodeName[current]] = "ready" /\ NodeName[current] \notin Owned
     THEN Continue("send") /\ UNCHANGED <<edited, base>>
     ELSE Forget
  /\ UNCHANGED outside

(* The owner check returns an error when the StatefulSet does have an       *)
(* Elasticsearch owner, as every one has that the operator makes: then      *)
(* Owned is TaskNodes and nothing is sent.                                  *)
GetSts ==
  /\ at = "getSts"
  /\ IF sts[NodeName[current]] = "ready" /\ NodeName[current] \notin Owned
     THEN Continue("send") /\ UNCHANGED <<edited, base>>
     ELSE Requeue
  /\ UNCHANGED outside

(* Mutant: a RestoreTask that was sent comes back. *)
SendAndRequeue ==
  /\ at = "send"
  /\ sent' = [sent EXCEPT ![current] = @ + 1]
  /\ Requeue
  /\ UNCHANGED <<nodeSets, cached, sts, exists, request, events>>

(* r.taskQueue <- &RestoreTask{...}: the room in the queue is the matter of *)
(* RestoreWorkers.                                                          *)
Send ==
  /\ at = "send"
  /\ sent' = [sent EXCEPT ![current] = @ + 1]
  /\ Forget
  /\ UNCHANGED <<nodeSets, cached, sts, exists, request, events>>

-----------------------------------------------------------------------------
(* The handlers of PUT /node and DELETE /node.                              *)
Handler(q, stage) == request' = [request EXCEPT ![q].stage = stage]
besideRequests == <<cached, sts, queueVars, reconcileVars, sent>>

(* NewRestoreESNode builds the node set first: MustParse of a size that is  *)
(* no quantity panics, and gin.Recovery answers 500.                        *)
RequestArrives(q) ==
  /\ request[q].stage = "none"
  /\ Handler(q, IF RequestSize[q] = 0 \/ q \in Quantities THEN "get" ELSE "failed")
  /\ UNCHANGED <<nodeSets, besideRequests>>

(* Mutant: the deletion keeps what it should drop. *)
EditInverted(q, list) ==
  IF RequestSize[q] = 0
  THEN SelectSeq(list, LAMBDA s : s.name = RequestName[q])
  ELSE Append(list, [name |-> RequestName[q], size |-> RequestSize[q]])

(* The loop of DeleteRestoreESNode: kept[i] is node_sets after i rounds.    *)
Without(list, n) ==
  LET kept[i \in 0..Len(list)] ==
        IF i = 0 THEN <<>>
        ELSE IF list[i].name # n THEN Append(kept[i - 1], list[i]) ELSE kept[i - 1]
  IN  kept[Len(list)]

Edit(q, list) ==
  IF RequestSize[q] = 0
  THEN Without(list, RequestName[q])
  ELSE Append(list, [name |-> RequestName[q], size |-> RequestSize[q]])

RequestGets(q) ==
  /\ request[q].stage = "get"
  /\ \/ request' = [request EXCEPT ![q] = [stage |-> "patch", base |-> nodeSets,
                                           edited |-> Edit(q, nodeSets)]]
     \/ ApiFaults /\ Handler(q, "failed")
  /\ UNCHANGED <<nodeSets, besideRequests>>

(* The API server wants at least one node set; its answer may be lost.      *)
Finish(q, stage) == request' = [request EXCEPT ![q] = [Arrives EXCEPT !.stage = stage]]

RequestPatches(q) ==
  /\ request[q].stage = "patch"
  /\ \/ /\ request[q].edited # <<>>
        /\ nodeSets' = Merged(request[q].edited, request[q].base)
        /\ Finish(q, "ok") \/ (ApiFaults /\ Finish(q, "failed"))
     \/ /\ (ApiFaults \/ request[q].edited = <<>>)
        /\ UNCHANGED nodeSets
        /\ Finish(q, "failed")
  /\ UNCHANGED besideRequests

-----------------------------------------------------------------------------
(* The informer, the Elasticsearch operator and the process.                *)
CacheSyncs ==
  /\ cached # nodeSets
  /\ cached' = nodeSets
  /\ UNCHANGED <<nodeSets, sts, queueVars, reconcileVars, request, sent>>

StsBecomes(n, status) ==
  /\ sts' = [sts EXCEPT ![n] = status]
  /\ UNCHANGED <<nodeSets, cached, queueVars, reconcileVars, request, sent>>

StsAppears(n) == n \in Names(nodeSets) /\ sts[n] = "absent" /\ StsBecomes(n, "starting")
StsReady(n) == sts[n] = "starting" /\ StsBecomes(n, "ready")
StsUnready(n) == Flapping /\ sts[n] = "ready" /\ StsBecomes(n, "starting")
StsRemoved(n) == n \notin Names(nodeSets) /\ sts[n] # "absent" /\ StsBecomes(n, "absent")

(* Mutant: the informers report changes only. *)
RestartWithoutList ==
  /\ \A t \in exists : events[t] < MaxEvents[t]
  /\ events' = [t \in Tasks |-> IF t \in exists THEN events[t] + 1 ELSE events[t]]
  /\ work' = {}
  /\ Return
  /\ cached' = nodeSets
  /\ request' = [q \in Requests |->
                   IF request[q].stage \in {"get", "patch"}
                   THEN [Arrives EXCEPT !.stage = "failed"] ELSE request[q]]
  /\ UNCHANGED <<nodeSets, sts, exists, sent>>

(* A new process: the informers list every object, each RestoreTask counts  *)
(* as created, and requests in flight are gone.                             *)
Restart ==
  /\ \A t \in exists : events[t] < MaxEvents[t]
  /\ events' = [t \in Tasks |-> IF t \in exists THEN events[t] + 1 ELSE events[t]]
  /\ work' = exists
  /\ Return
  /\ cached' = nodeSets
  /\ request' = [q \in Requests |->
                   IF request[q].stage \in {"get", "patch"}
                   THEN [Arrives EXCEPT !.stage = "failed"] ELSE request[q]]
  /\ UNCHANGED <<nodeSets, sts, exists, sent>>

Reconcile ==
  \/ GetTask \/ UpdateTask \/ NodeMissing \/ NodeFound \/ PatchES \/ GetSts \/ Send

HandlerStep(q) == RequestArrives(q) \/ RequestGets(q) \/ RequestPatches(q)

Operator(n) == StsAppears(n) \/ StsReady(n) \/ StsUnready(n) \/ StsRemoved(n)

Next ==
  \/ \E t \in Tasks : Created(t) \/ Deleted(t) \/ SpecChanged(t) \/ Begin(t)
  \/ Reconcile
  \/ \E q \in Requests : HandlerStep(q)
  \/ \E n \in TaskNodes : Operator(n)
  \/ CacheSyncs
  \/ Restart

Spec == Init /\ [][Next]_vars

(* The one worker of the workqueue serves its keys in turn; every call      *)
(* returns, the API server does not refuse one RestoreTask for ever, the    *)
(* informer follows the server and the Elasticsearch operator makes what    *)
(* the list asks for.                                                       *)
Fairness ==
  /\ WF_vars(Reconcile)
  /\ \A t \in Tasks :
       /\ SF_vars(Begin(t))
       /\ SF_vars(UpdateTask /\ current = t /\ at' = "getES")
       /\ SF_vars(PatchES /\ current = t /\ at' = "getSts")
  /\ WF_vars(CacheSyncs)
  /\ \A n \in TaskNodes : WF_vars(StsAppears(n)) /\ WF_vars(StsReady(n))

FairSpec == Spec /\ Fairness

-----------------------------------------------------------------------------
(* Reconcile never adds a second node set of a name, however old the copy   *)
(* it looks at: its patch puts that copy back together with the one it      *)
(* adds.  Only PUT /node, which does not look, makes duplicates.            *)
OneNodeSetPerName ==
  \A n \in Nodes :
    \/ \A i, j \in Named(nodeSets, n) : i = j
    \/ \E q \in Requests : RequestName[q] = n /\ RequestSize[q] > 0

(* A node set comes and goes by a request or a RestoreTask that names it,   *)
(* or because a patch was computed from a list that has changed since.      *)
OthersChangeOnlyFromOldCopies ==
  [][\A n \in Nodes :
       ~(n \in Names(nodeSets) <=> n \in Names(nodeSets'))
         => \/ /\ at = "patch" /\ at' # "patch"
               /\ NodeName[current] = n \/ base # nodeSets
            \/ \E q \in Requests :
                 /\ request[q].stage = "patch" /\ request'[q].stage \in {"ok", "failed"}
                 /\ RequestName[q] = n \/ request[q].base # nodeSets]_vars

(* A RestoreTask is sent to the workers at most once for each event that    *)
(* asks for it: requeues and the writes of Reconcile itself add nothing.    *)
Claim(t) == (IF t \in work THEN 1 ELSE 0) + (IF current = t THEN 1 ELSE 0)

SendsPaidByEvents == \A t \in Tasks : sent[t] + Claim(t) <= events[t]

(* Both readers of its size understand it, and nothing makes the node       *)
(* smaller than it asks for.                                                *)
Fits(t) ==
  /\ t \in Quantities \cap GigaBytes
  /\ \A u \in Tasks : NodeName[u] = NodeName[t] => Storage[u] >= StoreSize[t]
  /\ \A q \in Requests :
       RequestName[q] = NodeName[t] /\ RequestSize[q] > 0 => RequestSize[q] >= StoreSize[t]
  /\ \A i \in DOMAIN Original :
       Original[i].name = NodeName[t] => Original[i].size >= StoreSize[t]

(* A RestoreTask in the workqueue whose size fits meets its StatefulSet     *)
(* ready in the end, or is deleted, although requests and other patches may *)
(* take its node set away again, patches fail and the process die, unless   *)
(* the StatefulSet becomes unready again and again.  Whether it is sent     *)
(* then is the matter of the owner check.                                   *)
MeetsItsNode(t) == at = "getSts" /\ current = t /\ sts[NodeName[t]] = "ready"

EveryNodeMade ==
  \A t \in Tasks :
    \/ []<><<StsUnready(NodeName[t])>>_vars
    \/ Fits(t) /\ t \in work ~> MeetsItsNode(t) \/ t \notin exists

-----------------------------------------------------------------------------
(* What comments and messages of the code say and its steps do not do.      *)

(* "ensure the sts owned by Elasticsearch": a RestoreTask that fits and     *)
(* whose StatefulSet is owned by Elasticsearch is sent in the end.          *)
OwnedAreSent ==
  \A t \in Tasks :
    \/ []<><<StsUnready(NodeName[t])>>_vars
    \/ /\ Fits(t) /\ NodeName[t] \in Owned
       /\ t \in work /\ sent[t] = 0
       ~> sent[t] > 0 \/ t \notin exists

(* "success to create restore node %s": the node is there until someone     *)
(* asks for its deletion.                                                   *)
CreatedNodeStays ==
  \A q \in Requests :
    /\ request[q].stage = "ok"
    /\ RequestSize[q] > 0
    /\ \A p \in Requests : RequestName[p] = RequestName[q] => RequestSize[p] > 0
    => RequestName[q] \in Names(nodeSets)
=============================================================================
