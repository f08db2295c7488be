--------------------------- MODULE SnapshotCatalog ---------------------------
(***************************************************************************)
(* The catalogue of indices and snapshots: the cron jobs AllIndex and      *)
(* AllSnapshot (internal/cron/job.go) that copy what Elasticsearch lists   *)
(* into two tables, the upserts they use (internal/db/db.go), and the      *)
(* queries of GET /indices and POST /restore (internal/http/utils.go).     *)
(*                                                                         *)
(* Each call to Elasticsearch and each statement is a step.  A job is not  *)
(* started while its last run goes on (cron.SkipIfStillRunning); the two   *)
(* jobs and a request run side by side, and Elasticsearch changes under    *)
(* all of them.  A request reads and writes nothing, so that one at an     *)
(* arbitrary time stands for any number.  The statements are those of      *)
(* MySQL: SQLite knows neither VALUES() in an upsert nor JSON_QUOTE.       *)
(***************************************************************************)
EXTENDS Naturals, Sequences, FiniteSets

CONSTANTS
  Indices,       \* the names of indices
  Repos,         \* the snapshot repositories
  SnapshotNames, \* the names of snapshots, which repositories may share
  NameLists,     \* the lists of name patterns in requests; a pattern is the
                 \* set of the indices it matches
  RequestTimes,  \* start_at and end_at in requests, 0 for none
  DiskMinSize,   \* es-disk-min-size, in GB
  MaxTime,       \* bound on the clock
  Absent

(* Times as the tables hold them: both listings give RFC 3339, the only     *)
(* layout that NewTimeString gets to try.                                   *)
Time == 1..MaxTime
(* What ToGB makes of store.size; that of a closed index, which it cannot   *)
(* read and StoreSize passes over, is left out.                             *)
Size == {1, 2}
Index == [created : Time, size : Size]
State == {"IN_PROGRESS", "SUCCESS", "FAILED"}
Snapshot == [name : SnapshotNames, repo : Repos, state : State, time : Time,
             indices : SUBSET Indices]
Found == [index : Indices, created : Time, size : Size, query : {1, 2}]

ASSUME ConstantsAssumption ==
  /\ NameLists \subseteq Seq(SUBSET Indices) \ {<<>>}
  /\ DiskMinSize \in Nat /\ MaxTime \in Nat \ {0}
  /\ RequestTimes \subseteq Nat
  /\ IsFiniteSet(Indices) /\ IsFiniteSet(Repos)
  /\ Absent \notin Index \cup Snapshot

VARIABLES
  now,            \* each change of Elasticsearch takes an instant
  live,           \* the indices Elasticsearch has
  stored,         \* the snapshots the repositories have
  reported,       \* history: every state of a snapshot there has been
  indexTable,     \* table es_indices, by name
  snapshotTable,  \* table es_snapshots, by its unique column snapshot
  indexJob,       \* the run of AllIndex: what it has fetched
  snapshotJob,    \* the run of AllSnapshot: repositories to do, names listed,
                  \* and of each name the first snapshot fetched
  request         \* a request: what it asks, what it has found and offers;
                  \* owed is history: what the window held when it arrived

elastic == <<now, live, stored, reported>>
vars == <<elastic, indexTable, snapshotTable, indexJob, snapshotJob, request>>

NoIndices == [i \in Indices |-> Absent]
NoSnapshots == [n \in SnapshotNames |-> Absent]
IdleIndexJob == [at |-> "idle", fetched |-> NoIndices]
IdleSnapshotJob == [at |-> "idle", todo |-> {}, listed |-> {}, fetched |-> NoSnapshots]
NoRequest == [at |-> "none", names |-> <<>>, from |-> 0, until |-> 0,
              owed |-> {}, found |-> {}, todo |-> {}, storeSize |-> 0,
              offer |-> NoIndices]

TypeOK ==
  /\ now \in Time
  /\ live \in [Indices -> Index \cup {Absent}]
  /\ \A s \in Repos \X SnapshotNames : stored[s] \in Snapshot \cup {Absent}
  /\ reported \subseteq Snapshot
  /\ indexTable \in [Indices -> Index \cup {Absent}]
  /\ \A n \in SnapshotNames : snapshotTable[n] \in Snapshot \cup {Absent}
  /\ indexJob.at \in {"idle", "write"}
  /\ indexJob.fetched \in [Indices -> Index \cup {Absent}]
  /\ snapshotJob.at \in {"idle", "names", "details", "write"}
  /\ snapshotJob.at = "write" => snapshotJob.todo = {}
  /\ snapshotJob.at = "details" <=> snapshotJob.listed # {}
  /\ \A n \in SnapshotNames : snapshotJob.fetched[n] \in Snapshot \cup {Absent}
  /\ request.at \in {"none", "second", "snapshots", "done"}
  /\ request.found \subseteq Found /\ request.todo \subseteq request.found
  /\ request.storeSize \in Nat
  /\ \A i \in Indices : request.offer[i] \in Snapshot \cup {Absent}

Init ==
  /\ now = 1
  /\ live \in [Indices -> {Absent, [created |-> 1, size |-> 1]}]
  /\ stored = [s \in Repos \X SnapshotNames |-> Absent]
  /\ reported = {}
  /\ indexTable = NoIndices /\ snapshotTable = NoSnapshots
  /\ indexJob = IdleIndexJob /\ snapshotJob = IdleSnapshotJob
  /\ request = NoRequest

-----------------------------------------------------------------------------
(* Elasticsearch.                                                           *)
Tick == now < MaxTime /\ now' = now + 1
insideService == <<indexTable, snapshotTable, indexJob, snapshotJob, request>>

IndexBecomes(i, value) ==
  /\ Tick /\ live' = [live EXCEPT ![i] = value]
  /\ UNCHANGED <<stored, reported, insideService>>

IndexCreated(i) == live[i] = Absent /\ IndexBecomes(i, [created |-> now', size |-> 1])
IndexGrows(i) == live[i] # Absent /\ live[i].size = 1 /\ IndexBecomes(i, [live[i] EXCEPT !.size = 2])
IndexDeleted(i) == live[i] # Absent /\ IndexBecomes(i, Absent)

SnapshotBecomes(s, value) ==
  /\ Tick /\ stored' = [stored EXCEPT ![s] = value]
  /\ reported' = reported \cup ({value} \ {Absent})
  /\ UNCHANGED <<live, insideService>>

SnapshotStarts(s) ==
  /\ stored[s] = Absent
  /\ \E indices \in SUBSET {i \in Indices : live[i] # Absent} \ {{}} :
       SnapshotBecomes(s, [repo |-> s[1], name |-> s[2], state |-> "IN_PROGRESS",
                           time |-> now', indices |-> indices])

SnapshotEnds(s) ==
  /\ stored[s] # Absent /\ stored[s].state = "IN_PROGRESS"
  /\ \E state \in {"SUCCESS", "FAILED"} :
       SnapshotBecomes(s, [stored[s] EXCEPT !.state = state])

SnapshotDeleted(s) == stored[s] # Absent /\ SnapshotBecomes(s, Absent)

-----------------------------------------------------------------------------
(* AllIndex.  A listing that fails is logged and leaves nothing to write,   *)
(* as does a run that fails to write.                                       *)
besideIndexJob == <<elastic, snapshotTable, snapshotJob, request>>

IndexJobLists ==
  /\ indexJob.at = "idle"
  /\ indexJob' = [at |-> "write", fetched |-> live]
  /\ UNCHANGED <<indexTable, besideIndexJob>>

(* Mutants: the row gets the time of an index created again too; a row that *)
(* is there is left as it is.                                               *)
IndexRowRefreshed(old, new) == IF new = Absent THEN old ELSE new
IndexRowKept(old, new) == IF old = Absent THEN new ELSE old

(* CreateIndexRecords: a row that is there gets the new store_size and      *)
(* keeps its index_create_at.                                               *)
IndexRow(old, new) ==
  CASE new = Absent -> old
    [] old = Absent -> new
    [] OTHER -> [old EXCEPT !.size = new.size]

IndexJobWrites ==
  /\ indexJob.at = "write"
  /\ indexTable' = [i \in Indices |-> IndexRow(indexTable[i], indexJob.fetched[i])]
  /\ indexJob' = IdleIndexJob
  /\ UNCHANGED besideIndexJob

IndexJobFails ==
  /\ indexJob.at = "write"
  /\ indexJob' = IdleIndexJob
  /\ UNCHANGED <<indexTable, besideIndexJob>>

-----------------------------------------------------------------------------
(* AllSnapshot: GetAllSnapshotDetails goes through the repositories; one    *)
(* that cannot be listed is passed over.                                    *)
besideSnapshotJob == <<elastic, indexTable, indexJob, request>>

SnapshotJobStarts ==
  /\ snapshotJob.at = "idle"
  /\ snapshotJob' = [IdleSnapshotJob EXCEPT !.at = "names", !.todo = Repos]
  /\ UNCHANGED <<snapshotTable, besideSnapshotJob>>

(* GetAllSnaphost of the next repository.                                   *)
NamesIn(r) == {n \in SnapshotNames : stored[r, n] # Absent}

SnapshotJobLists(r) ==
  /\ snapshotJob.at = "names" /\ r \in snapshotJob.todo
  /\ \/ /\ NamesIn(r) # {}
        /\ snapshotJob' = [snapshotJob EXCEPT !.at = "details", !.todo = @ \ {r},
                                              !.listed = {r} \X NamesIn(r)]
     \/ snapshotJob' = [snapshotJob EXCEPT !.todo = @ \ {r}]
  /\ UNCHANGED <<snapshotTable, besideSnapshotJob>>

GoOn(fetched) ==
  snapshotJob' = [snapshotJob EXCEPT !.at = "names", !.listed = {}, !.fetched = fetched]

(* GetSnapshotDetail asks for all these names at once.  When one of them is *)
(* gone the answer is an error, which decodes to no snapshots at all.       *)
SnapshotJobDetails ==
  /\ snapshotJob.at = "details"
  /\ \/ /\ \A s \in snapshotJob.listed : stored[s] # Absent
        /\ GoOn([n \in SnapshotNames |->
             IF snapshotJob.fetched[n] = Absent /\ \E s \in snapshotJob.listed : s[2] = n
             THEN stored[CHOOSE s \in snapshotJob.listed : s[2] = n]
             ELSE snapshotJob.fetched[n]])
     \/ GoOn(snapshotJob.fetched)
  /\ UNCHANGED <<snapshotTable, besideSnapshotJob>>

SnapshotJobListed ==
  /\ snapshotJob.at = "names" /\ snapshotJob.todo = {}
  /\ snapshotJob' = [snapshotJob EXCEPT !.at = "write"]
  /\ UNCHANGED <<snapshotTable, besideSnapshotJob>>

(* Mutant: the upsert brings the state up to date. *)
SnapshotRowWithState(old, new) ==
  CASE new = Absent -> old
    [] old = Absent -> new
    [] OTHER -> [old EXCEPT !.state = new.state]

(* CreateSnapshotRecords: the unique column is the name alone.  A row that  *)
(* is there keeps everything but updated_at; of two new snapshots of one    *)
(* name the first in the batch makes the row.                               *)
SnapshotRow(old, new) == IF old = Absent THEN new ELSE old

SnapshotJobWrites ==
  /\ snapshotJob.at = "write"
  /\ snapshotTable' = [n \in SnapshotNames |->
                         SnapshotRow(snapshotTable[n], snapshotJob.fetched[n])]
  /\ snapshotJob' = IdleSnapshotJob
  /\ UNCHANGED besideSnapshotJob

(* Mutant: a run that fails stays marked as running. *)
SnapshotJobFailsForGood ==
  /\ snapshotJob.at = "write"
  /\ snapshotJob' = [IdleSnapshotJob EXCEPT !.at = "running"]
  /\ UNCHANGED <<snapshotTable, besideSnapshotJob>>

SnapshotJobFails ==
  /\ snapshotJob.at = "write"
  /\ snapshotJob' = IdleSnapshotJob
  /\ UNCHANGED <<snapshotTable, besideSnapshotJob>>

-----------------------------------------------------------------------------
(* QueryIndexResultViaTime.  The conditions on the name are joined by OR    *)
(* without parentheses, so that AND ties the time to the last of them.      *)
Selected(names, query, times) ==
  LET matches(i) == \E k \in DOMAIN names :
                      i \in names[k] /\ (k = Len(names) => indexTable[i].created \in times)
  IN  {[index |-> i, created |-> indexTable[i].created, size |-> indexTable[i].size,
        query |-> query] : i \in {j \in Indices : indexTable[j] # Absent /\ matches(j)}}

(* ORDER BY index_create_at DESC LIMIT 1.                                   *)
LatestFound(rows) == {r \in rows : \A s \in rows : s.created <= r.created}

(* Mutant: end_at does not belong to the window. *)
Before(until, created) == until = 0 \/ created < until

(* GetIndexGBSize, which adds up the gigabytes of the rows, here counted    *)
(* one by one, and the floor of es-disk-min-size.                           *)
StoreSize(rows) == Cardinality({p \in rows \X Size : p[2] <= p[1].size})
AtLeast(least, size) == IF size < least THEN least ELSE size
WithRows(q, rows) == [q EXCEPT !.at = "snapshots", !.found = rows, !.todo = rows,
                               !.storeSize = AtLeast(DiskMinSize, StoreSize(rows))]

(* The window of a request; 0 stands for an empty start_at or end_at.       *)
NotAfter(until, created) == until = 0 \/ created <= until
InWindow(q, created) == q.from <= created /\ NotAfter(q.until, created)

(* What a request is owed: the indices of the table in its window.          *)
Owed(names, from, until) ==
  {i \in Indices : /\ indexTable[i] # Absent
                   /\ \E k \in DOMAIN names : i \in names[k]
                   /\ indexTable[i].created >= from
                   /\ until # 0 => ~(indexTable[i].created > until)}

besideRequest == <<elastic, indexTable, snapshotTable, indexJob, snapshotJob>>

(* The first query: with start_at it is for the latest index before; else   *)
(* it is the only one.                                                      *)
RequestArrives(names, from, until) ==
  LET arrived == [NoRequest EXCEPT !.names = names, !.from = from, !.until = until,
                                   !.owed = Owed(names, from, until)]
      before == Selected(names, 1, 1..from)
      only == Selected(names, 1, {t \in Time : NotAfter(until, t)})
  IN
  /\ request.at = "none"
  /\ \/ /\ from = 0
        /\ request' = WithRows(arrived, only)
     \/ /\ from # 0
        /\ \/ before = {} /\ request' = [arrived EXCEPT !.at = "second"]
           \/ \E r \in LatestFound(before) :
                request' = [arrived EXCEPT !.at = "second", !.found = {r}]
  /\ UNCHANGED besideRequest

(* The second query; an error answers with nothing, as if none had arrived. *)
SecondQuery ==
  LET q == request
      rows == Selected(q.names, 2, {t \in Time : InWindow(q, t)})
  IN
  /\ q.at = "second"
  /\ request' = WithRows(q, q.found \cup rows)
  /\ UNCHANGED besideRequest

(* QueryLatestSnapshotsViaIndex for one of the rows; an error is passed over. *)
Restorable(row, i) == row # Absent /\ row.state = "SUCCESS" /\ i \in row.indices
LatestSnapshot(i) ==
  LET rows == {n \in SnapshotNames : Restorable(snapshotTable[n], i)}
  IN  {n \in rows : \A m \in rows : snapshotTable[m].time <= snapshotTable[n].time}

Offer(r) ==
  /\ request.at = "snapshots" /\ r \in request.todo
  /\ \/ \E n \in LatestSnapshot(r.index) :
          request' = [request EXCEPT !.todo = @ \ {r}, !.offer[r.index] = snapshotTable[n]]
     \/ request' = [request EXCEPT !.todo = @ \ {r}]
  /\ UNCHANGED besideRequest

(* The answer is sent; GET /indices sends what it has found before.         *)
Answer ==
  /\ request.at = "snapshots" /\ request.todo = {}
  /\ request' = [request EXCEPT !.at = "done"]
  /\ UNCHANGED besideRequest

-----------------------------------------------------------------------------
Elastic ==
  \/ \E i \in Indices : IndexCreated(i) \/ IndexGrows(i) \/ IndexDeleted(i)
  \/ \E s \in Repos \X SnapshotNames : SnapshotStarts(s) \/ SnapshotEnds(s) \/ SnapshotDeleted(s)

AllIndex == IndexJobLists \/ IndexJobWrites \/ IndexJobFails

AllSnapshot ==
  \/ SnapshotJobStarts \/ SnapshotJobDetails \/ SnapshotJobListed
  \/ SnapshotJobWrites \/ SnapshotJobFails
  \/ \E r \in Repos : SnapshotJobLists(r)

RestoreSnapshot ==
  \/ \E names \in NameLists, from, until \in RequestTimes : RequestArrives(names, from, until)
  \/ SecondQuery \/ Answer
  \/ \E r \in request.todo : Offer(r)

Next == Elastic \/ AllIndex \/ AllSnapshot \/ RestoreSnapshot
Spec == Init /\ [][Next]_vars

(* A repository with snapshots is listed and their details are fetched.     *)
SnapshotJobListsNames(r) == SnapshotJobLists(r) /\ snapshotJob'.at = "details"
SnapshotJobFetches(r) ==
  /\ SnapshotJobDetails
  /\ \E s \in snapshotJob.listed : s[1] = r /\ snapshotJob'.fetched[s[2]] # Absent

(* The scheduler starts the jobs again and again, and calls and statements  *)
(* do not fail for ever, nor always in the runs that have fetched something. *)
Fairness ==
  /\ WF_vars(AllIndex) /\ WF_vars(AllSnapshot)
  /\ SF_vars(IndexJobWrites)
  /\ \A n \in SnapshotNames : SF_vars(SnapshotJobWrites /\ snapshotJob.fetched[n] # Absent)
  /\ \A r \in Repos : SF_vars(SnapshotJobListsNames(r)) /\ SF_vars(SnapshotJobFetches(r))

FairSpec == Spec /\ Fairness

-----------------------------------------------------------------------------
(* What POST /restore offers for an index is a snapshot as Elasticsearch    *)
(* has reported it, ended with success, and with that index in it: the row  *)
(* of a name is never put together from two snapshots of that name, though  *)
(* repositories share it and a deleted snapshot's name is used again.       *)
OffersWereReal ==
  \A i \in Indices : request.offer[i] # Absent =>
    /\ request.offer[i] \in reported
    /\ request.offer[i].state = "SUCCESS" /\ i \in request.offer[i].indices

(* The answer has every index that was in the window when the request       *)
(* arrived, whatever the job writes between the two queries and however     *)
(* many names are asked for; and for one name it has at most one index from *)
(* outside, the one that was being written at start_at.                     *)
WindowIsComplete ==
  request.at \in {"snapshots", "done"} =>
    /\ request.owed \subseteq {r.index : r \in request.found}
    /\ Len(request.names) = 1 =>
         Cardinality({r \in request.found : ~(request.from <= r.created)}) <= 1

(* The size that is answered, of which the node is made, counts an index    *)
(* once although two queries look for it and the job writes in between; the *)
(* exception is one created at the very time of start_at, which both find.  *)
SizeCountsOnce ==
  request.at \in {"snapshots", "done"} /\ Len(request.names) = 1 =>
    LET atStart == {r \in request.found : r.created = request.from}
        rows == request.found \ atStart
        once == {CHOOSE r \in rows : r.index = i : i \in {r.index : r \in rows}}
    IN  request.storeSize = AtLeast(DiskMinSize, StoreSize(once \cup atStart))

(* An index that stays is in the table in the end with the size it has,     *)
(* whichever runs were skipped or failed.                                   *)
SizesCatchUp ==
  \A i \in Indices, size \in Size :
    <>[](live[i] # Absent /\ live[i].size = size)
      => <>[](indexTable[i] # Absent /\ indexTable[i].size = size)

(* A name some repository keeps a snapshot under is in the table in the     *)
(* end: a failure in one repository does not keep the job from the others.  *)
NamesAreCatalogued ==
  \A s \in Repos \X SnapshotNames :
    <>[](stored[s] # Absent) => <>(snapshotTable[s[2]] # Absent)

(* "create all snaphosts records success" (job.go:84): the states that were *)
(* fetched are in the table.                                                *)
SuccessMeansWritten ==
  [][SnapshotJobWrites =>
       \A n \in SnapshotNames : snapshotJob.fetched[n] # Absent =>
         snapshotTable'[n].state = snapshotJob.fetched[n].state]_vars

=============================================================================
