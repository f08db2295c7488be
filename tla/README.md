# A verification project for es-snapshot-restore

es-snapshot-restore restores Elasticsearch indices from snapshots onto nodes
that it adds to the cluster for the purpose. This directory holds TLA+ models of
the service, the TLC configurations that check them on small instances, and
TLAPS proofs for every value of the constants. File and line numbers below are
those of the repository under `src/`.

## 1. The system

| component | state it keeps | operations | talks to |
|---|---|---|---|
| restore workers (`internal/controller/controller/restoretask_controller.go:54-182`) | channel `taskQueue`, semaphore `sem`, goroutines with a held row | `StartWorker`, `restoreIndices`, `updateTaskStatus` | task table, Elasticsearch, API server |
| RestoreTask reconciler (same file, `:197-335`) | workqueue, informer cache, the object it edits | `Reconcile` | API server, `taskQueue` |
| node set requests (`internal/http/handler.go:123-220,243-269`, `utils.go:178-253`, `k8s/client.go`) | a copy of the Elasticsearch object | `CreateRestoreNode`, `DeleteRestoreNode`, `DebugHandler` | task table, API server |
| task requests (`handler.go:222-241,316-415`) | loop position, `success_taskes`, `failed_taskes` | `NewTask`, `RestoreViaCR` | task table, API server |
| task table (`internal/db/db.go`) | rows of `Task` | `CreateRecords`, `QueryAll`, updates | workers, handlers |
| Elasticsearch client (`internal/elastic/es.go`) | none | `Restore`, `GetRestoreIndexProcess`, catalogue requests | Elasticsearch |
| catalogue (`internal/cron/job.go`, `http/utils.go:17-176`, `db/*.go`) | tables of indices and snapshots | `AllIndex.Run`, `AllSnapshot.Run`, `GET /indices`, `POST /restore` | Elasticsearch, database |
| process lifecycle (`cmd/server.go`, fx hooks of `http/server.go`, `db/db.go`, `cron/cron.go` and the controller) | which hooks are started | `OnStart`, `OnStop` | everything |
| annotation controller (`internal/controller/controller.go`) | `taskQueue`, annotations of StatefulSets | `Reconcile`, `filterCreate`, `filterUpdate`, `StartWorker`, `updateTaskStatus` | API server; not started by the server |
| sizes and times (`utils.ToGB`, `db.TimeString`) | none | pure functions | catalogue, reconciler |
| cache, configuration, API types, kubebuilder scaffold under `controller/` | none that changes | | |

How a restore goes: `PUT /task` makes a row; `PUT /node` marks it RUNNING and
patches a node set into the one Elasticsearch object. A RestoreTask object
(`RestoreViaCR`, which has no route yet, or kubectl) makes `Reconcile` see to
the node set, wait for its StatefulSet and send a task on `taskQueue`. Two
dispatchers receive from it; each takes a slot of `sem` and starts a goroutine
that looks the row up, asks Elasticsearch for the restore, polls, writes its
verdict in the row and reports on the RestoreTask.

What is hard here:

- the goroutines, the dispatchers, Reconcile and the handlers share the queue,
  the semaphore, the task table and one Kubernetes object, with a network call
  between any two steps;
- JSON merge patches of a whole list, computed from a cache that lags;
- everything in memory goes with the process, and on a restart every
  RestoreTask counts as created again;
- retries: the workqueue's, the ticker's and the client's;
- the parts start and stop one by one, and nothing tells a request, a job or a
  restore that the process ends;
- errors that are returned as nil, panics that are recovered, writes that are
  not retried.

What makes each component correct: the workers run each sent task once, within
`es-concurrency`, give every slot back, and write a verdict only for a restore
that took place; Reconcile adds a node once, disturbs no other and sends a task
once per reason and in the end; the handlers leave rows and objects that fit
together; the catalogue offers what Elasticsearch has; the annotation controller
restores what was asked for and forgets no ask; the process starts and stops its
parts in an order that suits them and does end.

## 2. Modules

| module | models | of |
|---|---|---|
| `RestoreWorkers` | `StartWorker`, `restoreIndices`, `updateTaskStatus`, the send of Reconcile, the insert of a row, crashes | the code, call by call |
| `RestorePool` | what the workers promise: sends wait, run once, end; two bounds; a crash forgets | abstract specification |
| `RestorePoolRefinement` | the mapping from `RestoreWorkers` to `RestorePool` | |
| `RestoreWorkers_proofs` | lemmas and theorems about `RestoreWorkers` | |
| `RestorePoolRefinement_proofs` | that `RestoreWorkers` implements `RestorePool` | |
| `RestoreReconcile` | `Reconcile`, workqueue, cache, the list edits of `PUT /node` and `DELETE /node`, the operator | the code, call by call |
| `RestoreReconcile_proofs` | theorems about the sends and the lists of `RestoreReconcile` | |
| `RestoreHandlers` | `NewTask`, `CreateRestoreNode`, `RestoreViaCR` and what they do to the task table | the code, statement by statement |
| `RestoreHandlers_proofs` | lemmas and theorems about `RestoreHandlers` | |
| `SnapshotCatalog` | the cron jobs, their upserts, the queries of `GET /indices` and `POST /restore` | the code, call by call and statement by statement |
| `SnapshotCatalog_proofs` | lemmas and theorems about `SnapshotCatalog` | |
| `RestoreService` | `RestoreReconcile` and `RestoreWorkers` as one process: the send is one step of both, and so is a crash | composition |
| `RestoreService_proofs` | that the process implements both parts, and what follows | |
| `AnnotationController` | the controller of annotated StatefulSets, with its informer and filters | the code, call by call |
| `AnnotationController_proofs` | lemmas and theorems about `AnnotationController` | |
| `Lifecycle` | the fx hooks in their order, beside requests, jobs and restores | the code, hook by hook |
| `Lifecycle_proofs` | lemmas and theorems about `Lifecycle` | |
| `MC...` | the small instances | |

Definitions keep the names of the functions and fields they stand for. Those
called mutants (`StartWithoutSlot`, `NodeAddedAgain`, ...) are not part of any
specification: each is a definition with a plausible bug, kept beside the
original to show that a property notices it.

### RestoreWorkers

`queue` is `taskQueue`; `hand[d]` the task that dispatcher `d` has received and
not yet started; `sem` the number of tokens in the channel of that name; `pc`,
`job`, `held` and `outcome` are the program counter and the local variables of
the goroutines; `row`, `restored` and `taskStatus` are the database,
Elasticsearch and the RestoreTask objects and survive `Restart`. `sent` is
history: how often (up to "more than once") a key was sent.

A step is one call to the database, Elasticsearch or the API server. `QueryFails`,
`QueryFindsNotOne` and `QueryFindsRow` are the three ways out of `QueryAll`;
`RestoreAccepted` and `RestoreRefused` those of `ES.Restore`, where the second
may hide that Elasticsearch accepted (a lost answer); `PollSaysComplete`,
`MarkSuccess`, `MarkSuccessFails`, `Timeout` and `MarkTimeout` the loop. An
UPDATE that returns an error may have been committed (`WriteStatus`); a goroutine
whose UPDATE to SUCCESS returned one is "unsure" until it reports. A
goroutine that does not start a call for ever is a goroutine blocked in it: the
clients have no timeout. `IndexPanic` is `task.Index[0]` of a task without
indices, which kills the process.

Two constants say which branches the code at hand can take. `IndexColumnParses`:
does the dialect accept the bare column name `index` (`:105`)? MySQL and SQLite do
not, so with both of them every task takes `QueryFails`. `LiveSources`: for which
source indices (the loop asks about those, `:149`, not about the restored ones)
does the recovery read `"100%"` (`:162`)? Elasticsearch prints `"100.0%"`, so the
set is empty and the loop ends by its timeout alone. The configurations let both
succeed, since otherwise nothing after the query, or no SUCCESS, would be
examined. In them statements may also fail (`DbFaults`), so every behaviour
without the two is among those of the safety runs; the theorems hold for every
value of the constants, and the liveness properties hold with neither as well. The `require` attribute of the restored index is the
repository name, which no node has (nodes carry their own name), so its
shards would stay unassigned; `restored` may therefore stay "recovering" for ever.
Restored indices are assumed not to be deleted while the service runs.
`es-maxtasks` 0 (an unbuffered channel) is not modelled.

### RestoreReconcile

`nodeSets` is `spec.nodeSets` on the server and `cached` the informer's copy,
which `CacheSyncs` brings up to date at any later time. `current` is the one
RestoreTask being reconciled (MaxConcurrentReconciles is 1) and `at` its place in
the function; `base` and `edited` are the two objects the merge patch is
computed from. A task in `work` is queued, backing off or waiting for
RequeueAfter; an error, a panic (recovered by controller-runtime) and
RequeueAfter all put it back. `request[q]` is a handler between its Get and its
Patch. A patch that is answered with an error may have been applied, that of
Reconcile as well as that of a handler. `Owned` are the nodes whose StatefulSet
names an Elasticsearch owner: `GetSts` turns those down, and they are all that the
operator makes. What the model shows of the way to the owner check
(`EveryNodeMade` and the safety properties) holds for any `Owned`; a send takes place
only outside it. The size of a volume is a number of GB; a storeSize has two readers, and
`StoreSize` is what `utils.ToGB` makes of it, `Storage` what Kubernetes does.
`Quantities` and `GigaBytes` say which of them can read it at all: `10gb` is no
quantity, `10` has no unit for ToGB. The Elasticsearch object exists throughout;
a node set always has its volume claim template. `sts[n]` is what the operator
makes of the list, for the nodes a RestoreTask names (Reconcile looks at no other).

### RestoreService

An instance of each component. `Send` is Reconcile's last statement, which adds
to `queue` and returns in one step; until there is room, Reconcile stays where it
is, and no other RestoreTask is looked at. `Restart` is the one crash that both
suffer. `enqueued` is the workers' own count of sends, which stops at "more than
once". `Created` wants the row first, as `RestoreViaCR` does (`handler.go:359`,
`:395`). Every task names an index, since one that names none ends each new
process as soon as it is sent again. `Owned` is empty in the run: with the owner
check as it is nothing is sent (`OwnedAreSent`), and there would be no composition
to look at; `EveryTaskRun` says so in its formula. It promises the end of a
goroutine and not a verdict, because a query or an UPDATE that fails is not tried
again.

### RestoreHandlers

`tasks` is the table in the order of primary keys, `crs` the RestoreTask objects.
`held[q]` is the row a handler has read; a request never reads it again. Every
statement and every call may be carried out and be answered with an error. The
patch of the node set has three outcomes here: done, an error (which may hide
that it was done), and the panic of `MustParse`. `Verdict` is the end of a
worker. A request ends "answered" (200), "refused" (4xx or 5xx), "panicked",
"unmarked" (an UPDATE of the status returned an error, done or not) or "crashed".

### SnapshotCatalog

`live` and `stored` are what Elasticsearch has, and each of its changes is an
instant of `now`; `indexTable` and `snapshotTable` are the two tables, by their
unique columns. `indexJob` and `snapshotJob` are the runs in progress: `fetched`
is what they will write, of each snapshot name the first in the batch, since a
second one only meets the row of the first. A listing that fails, an error body
that decodes to nothing and a repository that is passed over are alternatives
of the steps. `request` is one request between its statements; it writes
nothing, so one at an arbitrary time stands for any number of them. A name
pattern is the set of indices it matches; 0 is an empty `start_at` or `end_at`.
`Selected` ties the time to the last name only, as the SQL does.

The statements are those of MySQL: SQLite, which the service takes when no host
is configured, refuses `VALUES()` in an upsert and `JSON_QUOTE`, and the tables
stay empty. `start_at` is taken to be in the time zone of the database session.
The restart of the process is not modelled: a run that dies is a run that fails.

### AnnotationController

`cached[s]` is the version of a StatefulSet the informer shows and `feed[s]` the
versions written since; `CacheSees` shows the next one and decides by the filters
whether `Reconcile` is called. `Skip`, `Take`, `MarkRunning` and `Send` are
Reconcile; `Receive`, `RestoreIndices`, `StatusSkipped` or `StatusComputed`, and
`MarkDone` a turn of a dispatcher. Both patches hold the state alone. A patch
that fails may have been applied. `Bare` are StatefulSets without any other
annotation: `filterUpdate` drops the update that brings the first ones (`:146`).
`restoreIndices` is a stub that sleeps and succeeds, so nothing is ever "failed".

What the model shows beside its properties: one ask may be restored twice, since
Reconcile reads the state from a cache that does not show its own patch yet
(`RestoresAreAsked` bounds it); a StatefulSet met unready stays "pending" for
ever, since its becoming ready is filtered out (`:88`, `:155`); a crash after the
patch, or a patch whose answer was lost, leaves it "running" for ever; the
dispatcher of OnStart writes with the start context of fx, so once that has
expired its "done" is refused (`:52`, `:223`).

### Lifecycle

`phase` is the main goroutine in `app.Run()`, `started` how many hooks have been
started and not stopped. The order of `Hooks` follows from the parameters of the
three invoked functions, each of which is built when it is first wanted. One
action per hook and direction; those that wait (`StopCron`, `StopHttp`) are two
steps, with the wait between them. `Statement(x)` is a statement on the database
by a request, a job or a restore in flight, and `met[x]` what it has met there
instead of the tables. `Exit` takes everything in flight with it. A signal has
three effects (`Signal`): before `ctrl.SetupSignalHandler` (`:395`, in the last
OnStart) it kills; from then on controller-runtime ends the manager at the first
one and the process at the second; and fx, which listens only in `Wait`, after
the start, begins to stop (`signalled`).

What the model shows beside its properties: a request that comes early meets no
tables, and one that is in flight on stop meets a closed database, because the
HTTP server starts first and stops last; restores are never awaited and go on
against the closed database; a second signal, or a hook that outlasts its 15
seconds, ends the process on the spot. A signal between the last OnStart and
`Wait` ends the manager alone: the process then serves requests and never
reconciles, until it gets a second one. After a failed migration only the HTTP
server is stopped.

## 3. Runs

| run | question | instance |
|---|---|---|
| `workers_safety` | slots, verdicts, restores, the inductive invariant, the refinement of `RestorePool` | 2 tasks for one index, 2 rows, 3 goroutines, 2 slots, queue of 1, failing statements, lost answers |
| `workers_liveness` | every slot comes back, a full queue drains | 2 tasks, one without indices; 1 slot, 2 dispatchers |
| `reconcile_requests` | who may change whose node set; no second node set; sends only for a reason; every task meets its node | 1 RestoreTask with 3 events, one request that creates another node, one that deletes its own; failing calls, lost answers, a flapping StatefulSet, restarts |
| `handlers_safety` | rows, nodes, objects and answers fit together | a request with 2 tasks, 2 requests for a node for its first task, `PUT /task` and a request with an unreadable size; the workers |
| `catalog_windows` | is the answer the window, and its size that of its indices | 2 indices, lists of 1 and 2 names, every start and end; 2 changes in Elasticsearch |
| `catalog_snapshots` | is an offer a snapshot there was; do the tables catch up | 1 index, 2 repositories that share a snapshot name; 3 changes |
| `service_crashes` | does the send return, is every task run to its end, when is a verdict replaced | 1 RestoreTask with up to 3 events (changes, deletions, crashes), 1 goroutine, 1 slot, queue of 1; failing calls and statements, lost answers, a flapping StatefulSet |
| `annotation_asks` | are restores asked for, is an ask forgotten, whose id gets "done" | 1 StatefulSet, 2 ids, 2 asks, 2 versions the cache has not seen, failing calls, 1 crash |
| `lifecycle_hooks` | who meets missing tables or a closed database, who is cut off, do start and stop end | 5 hooks, 2 requests, 2 jobs, 1 restore; everything in any order |

The bounds: two tasks for one index and three goroutines are the least with
which two goroutines compete for a restored index while a third is started for a
slot; a queue of one is full with one task, and the two dispatchers then hold
two more. One key sent twice and one restart is what `sent` can tell apart. For
the lists, two requests and Reconcile suffice for lost updates of one another and
of a bystander's node; three events let a RestoreTask be created, deleted or
changed, and created again or met by a restart. (A second RestoreTask would add
what `reconcile_lost_node` and `reconcile_owned_unsent` have, two that reconcile in
turn.) Three events send a RestoreTask often enough to fill goroutine, queue and
the one dispatcher that is left once the start context has expired. Two asks with two ids, of
which the cache has seen neither, are what a dispatcher can confuse. In the catalogue
two changes delete an index and create it again between two queries, and three
make a snapshot of one repository while that of another starts and ends.
`MaxEvents`, `MaxRows`, `MaxTime`, `RequestTimes`, `MaxAsks`, `MaxLag` and
`MaxCrashes` bound the environment, never the code. `SYMMETRY` is used only in runs without liveness, for constants that the
configuration does not tell apart: goroutines, rows, a task with its key and the
other with its own (`Swap`), ids, and the two requests for one node (`Alike`). Deadlock checking is off for
`RestoreReconcile`, `RestoreHandlers`, `RestoreService` and
`AnnotationController`, which are idle when the bounded events, asks and
requests are used up and nothing is in the workqueue, and for `Lifecycle`, whose
process ends; it is on for `RestoreWorkers` and `SnapshotCatalog`.

Three more runs expect a violation; each shows that the code does not do what a
message or comment of it says:

| run | the code says | what it does |
|---|---|---|

| `reconcile_lost_node` | success to create restore node | Reconcile patches it away from its cache (`:240`) |
| `reconcile_owned_unsent` | ensure the sts owned by Elasticsearch | turns exactly the owned ones down, so no RestoreTask on a node of the operator is ever sent (`:277`) |
| `catalog_stale_state` | create all snaphosts records success | leaves the state of rows that are there (`db.go:124`): a snapshot first seen IN_PROGRESS is never offered |

Other disagreements are in the models as they are in the code, without a run of
their own, because a single step shows them: `index = ?` is a syntax error in
MySQL and SQLite (`:105`; the constant `IndexColumnParses` lets the checks go past
it); the recovery polled is that of the source index (`:149`), and it is compared
with `"100%"` while Elasticsearch prints `"100.0%"` (`:162`; `LiveSources`); a task that has not exactly one row is logged as an error and
reported as done (`:113`; `QueryFindsNotOne`); an index created exactly at `start_at` counts twice in the size
(`http/utils.go:62`; `SizeCountsOnce` excepts it), and with several names the
answer has indices of any time (`:42`; `WindowIsComplete` says what remains
true); the status of a RestoreTask is written by a lookup of the empty name
and an Update that drops the status (`:91`, `:98`, `:286`; `Report`,
`StatusSubresource`); `2G` is 2 for ToGB and 1.86 for Kubernetes (`:252`), so a
node made from it is found too small for its own task (`Fits`); a node that is
too small is never grown and its task retried for ever, since
`fmt.Sprintf("%sGi", store_size)` of a float64 is `%!s(float64=2)Gi` and
`MustParse` panics (`:256`; `NodeFound`), which also hits tasks of one request, who
share a node but not a size; a task whose
RestoreTask could not be created is in both lists of the answer
(`handler.go:395-402`; `CreateCR`) and the answer is written twice (`:405-412`);
a row of `RestoreViaCR` starts with the status "" (`:352`), which is none of
those `db.go:40` lists; the random part of a RestoreTask's name has capital
letters, which Kubernetes refuses (`utils.go:19`), so that most creations fail.

## 4. Fairness

`RestoreWorkers`: weak fairness for the background dispatcher's receive and for
every step of a goroutine, since the Go scheduler runs what is runnable and the
model lets every call return; strong fairness for taking a slot, since blocked
senders on a channel are served in turn, and for `Timeout`, since select picks
at random among ready cases. None for the second dispatcher's receive, which
stops when fx's start context expires.

`RestoreReconcile`: weak fairness for Reconcile, the cache and the operator's
making and readying StatefulSets; strong fairness for `Begin(t)`, because the
workqueue serves its keys in turn, and, for each RestoreTask, for `UpdateTask` and
`PatchES` succeeding, because the API server does not refuse the same task for
ever. `Send` is fair because
a full queue drains, which is what `SendReturns` shows of the composition.
`EveryNodeMade` is stated for tasks whose size both readers understand and whose
node is made large enough; for the others it is false (`NodeFound` requeues them for ever). It excepts a
StatefulSet that becomes unready again and again, which may be unready whenever
Reconcile looks. It promises that the task meets its node ready at the owner
check; `OwnedAreSent` is what the comment there promises beyond it, and is false.

`RestoreService`: the fairness of its two components, but `Send` is only weakly
fair, so that Reconcile returns when there is room and not before. No statement of
the database is taken to succeed in the end.

`Lifecycle`: weak fairness for the main goroutine and for the deadlines of fx;
none for signals, requests, jobs, restores and the migration, which may take for
ever. (`StartAndStopEnd` speaks of a start and of a signal that fx gets; a signal
before that promises nothing.)

`SnapshotCatalog`: weak fairness for the two jobs, because the scheduler starts
them again and again; strong fairness for a successful listing of each
repository and for a write after it, because calls and statements do not fail
for ever. The schedule keeps no run waiting for the other job.

`RestoreHandlers` has no liveness property: its handlers are straight lines and
one bounded loop. `AnnotationController` has none either: a StatefulSet may stay
pending or running for ever, and `PendingIsNotForgotten` says when.

## 5. Proofs

Every safety property that a passing run checks is also a theorem, for every
value of the constants that the module's assumptions admit. Each rests on an
inductive invariant, which holds initially, is kept by every step and implies
the property; below is what each invariant adds and why it is needed.

**`RestoreWorkers_proofs`**, for any number of tasks, rows and indices, any
finite set of goroutines and any capacities. `IInvHolds` (`Spec => []IInv`)
gives `TypeCorrect`, `SlotsAreAccounted`, `VerdictsHaveRestores` and
`OneRowTakesCredit`. `OneRowPerRestore` is not inductive: a row says nothing of
a goroutine about to write SUCCESS in another. `IInv` adds `RowHeld` (a
goroutine past its query holds a row of its task's key) and `ClaimsAreUnique`,
which counts a polling goroutine as a claim on the restored index beside the
rows with a verdict. A claim is born only in `RestoreAccepted`, where the
restored index was absent, so no other claim on it exists; it passes from the
goroutine to its row in `MarkSuccess` and `MarkTimeout` (lemma `ClaimPasses`);
every other step only drops claims (`ClaimsPersist`); a crash drops those of the
goroutines. The slots need only that `Active` grows or shrinks by one element
(`ActiveGrows`, `ActiveShrinks`).

`VerdictsAreFinal` proves the action property `VerdictIsFinal`. A key that was
sent once is in one place: a place of the queue, a dispatcher's hand or one
goroutine (`OneToken`), and once a row of it has a verdict the goroutine has
nothing left but its report (`SentOnce`). So whoever writes a row that already
has a verdict works for a key that was sent twice. The exception, in the property
and in the proof, is the goroutine that is "unsure": its UPDATE to SUCCESS may have
been committed though it returned an error, it polls on, and its timer puts
TIMEOUT there. `Doubts` names it, and `ClaimsAreUnique` allows it alone a claim
beside that of its own row.

**`RestorePoolRefinement_proofs`** proves `PoolImplemented`, `Spec => PoolSpec`:
each step of the workers is a step of `RestorePool` or a stutter. The pool bounds
all sends of all tasks together, while the workers bound a queue and a counter;
`Counted` says that the two agree: the sends waiting, summed over the tasks, are
as many as the places of the queue and the busy dispatchers, and those running
as many as the tokens of `sem`. The lemmas `SendsGrow` and `SendsShrink` say that
one send more or less of one task is one more or less of all.

**`RestoreReconcile_proofs`**, for any number of RestoreTasks and requests.
`SendsArePaid`: `SendsPaidByEvents` counts what is sent together with the claims
on a further send (a place in the workqueue, a Reconcile under way), and so is
inductive with the types of what it counts (`CountInv`): a claim is born only
with an event or a restart, which pays for it; a requeue passes the claim of the
Reconcile to the workqueue, and the send uses it up. `ReconcileTypes`,
`NamesStaySingle` and `OthersChangeFromOldCopies` are about the lists.
`OneNodeSetPerName` is not inductive, since a patch puts a list from memory on
the server: `SingleInv` says of every list there is (on the server, in the
cache, in Reconcile, in each handler) that it names no node twice for which
nobody asks `PUT /node`. `PatchInv` says that a list to be written differs from
its base in the one name it is about; while the base is what the server has,
the patch then changes no other. The loop of `DeleteRestoreESNode` is a
recursive function (`Without`); what it keeps is shown round by round
(`RoundKeeps`, `WithoutKeeps`) by induction, which `SetInduction` states for a set of
naturals: one that holds 0 and the successor of each member is all of them. Besides the assumptions on
the types of the constants, the original node sets are assumed to have
different names (`OriginalAssumption`), as the StatefulSets named after them
must.

**`RestoreService_proofs`** shows that the process implements both of its parts
(`ReconcilerImplemented`, `WorkersImplemented`): their joint steps, the send and
the crash, are steps of each, and every other step of one leaves the variables of
the other alone. What is proved of a part therefore holds in the process
(`PartsKeepTheirPromises`), and `VerdictsRewrittenOnlyIfAsked` combines the two:
the workers rewrite a verdict only of a key sent twice, but for the goroutine in
doubt (`VerdictIsFinal`), the
reconciler sends only for events (`SendsPaidByEvents`), and `SendsAgree`, the one
new invariant, ties the workers' count of sends by key to the reconciler's
count by RestoreTask. `ServiceAssumption` repeats the assumptions of the parts
and that every task names an index.

**`RestoreHandlers_proofs`** proves all five invariants of `RestoreHandlers` for
any number of requests, items and rows. Two things carry the proof: what a
handler has done by the time it is at a step (`HoldsRow`, `RowFirst`, `Listed`),
and that rows are never removed, never change their task and index and never take
back that the node is being made (`RowsKept`). `RunningIsExplained` holds though
requests and workers write the status without looking at it, because whoever writes RUNNING stays its explanation until it has written FAILED over it,
or for good when an UPDATE of it was answered by an error.
The assumption is that the three kinds of requests have no request in common.

**`SnapshotCatalog_proofs`** proves the four invariants of `SnapshotCatalog` for
any finite sets of indices and repositories, any names and times
(`CatalogTypes`, `OffersReal`, `WindowComplete`, `SizeOnce`). `Reality` says of
everything on the way from Elasticsearch to an offer (a listed snapshot, a
fetched one, a row) that Elasticsearch has reported it, whence an offer is real.
`WindowIsComplete` and `SizeCountsOnce` speak of the end of two queries;
`BetweenQueries` says what is true after the first: what the request is owed is
in the table, and so is the row found first, with the creation time it had,
since no row is ever removed and the upsert keeps that column. So the
second query finds what is owed, and the two find no index twice, except one
created at `start_at` itself. `Absent` is assumed to be no row.

**`AnnotationController_proofs`** proves all three invariants and the action
property of `AnnotationController` for any number of StatefulSets, ids, asks and
crashes and any lag. What an informer will show is a history (`Shown`): the
cached version and those written since. `Paid` counts, for each version of
that history, the asks that made it, so that the restores sent and those still
to come are paid by the asks the cache shows and not only by those the server
has; `RestoresAreAsked` alone is not inductive, because it says nothing of asks
the cache has yet to show. `Announced` says that a pending last version after
one that was not pending has its change still to be shown, which is what brings
the StatefulSet to the workqueue (`PendingIsNotForgotten`). `DispatcherInv` says
that a dispatcher about to write "done" has restored the id of its copy.

**`Lifecycle_proofs`** proves all three invariants of `Lifecycle` for any number
of requests, jobs and restores. The number of started hooks says what is open
(`PartsOpen`: the database from the second hook on, the scheduler from the third
on), and the hook that waits for a request or a job stays started while that is
in flight (`ActorsHeld`).

Only model-checked: the liveness properties (`SlotReturned`, `FullQueueDrains`,
`EveryNodeMade`, `SizesCatchUp`, `NamesAreCatalogued`, `SendReturns`,
`EveryTaskRun`, `StartAndStopEnd`), since fairness and ENABLED are beyond
the prover; and the three properties that are violated.

## 6. Not modelled

The cache is never used, configuration does not change after start, the scaffold
and the deep copies are generated. The label map that `NewESNodeSet` shares
between requests (`k8s/client.go:68`) is left out: the race changes one label or
ends the process, and crashes are modelled.

## 7. Plan

1. Done: `RestoreWorkers` with its abstract pool and proofs, `RestoreReconcile`,
   `RestoreHandlers`, `SnapshotCatalog`, `RestoreService`,
   `AnnotationController`, `Lifecycle`.
2. Done: proofs of every safety property of the runs, of the refinement of
   `RestorePool` and of the projections of `RestoreService` on its parts.
3. Next: a row-by-row account of what `AllSnapshot` writes when two repositories
   share a name; the verdicts seen from `RestoreHandlers`, whose `Verdict` stands
   for the workers.
