----------------------- MODULE SnapshotCatalog_proofs -----------------------
(***************************************************************************)
(* The safety properties of SnapshotCatalog, for any number of indices,    *)
(* repositories and snapshots, any names and times in a request and any    *)
(* interleaving of the jobs with it.                                       *)
(***************************************************************************)
EXTENDS SnapshotCatalog, SequenceTheorems, FiniteSetTheorems, TLAPS

(* What the variables hold.                                                 *)
SomeSnapshot == Snapshot \cup {Absent}
Requests ==
  [at : {"none", "second", "snapshots", "done"}, names : Seq(SUBSET Indices),
   from : Nat, until : Nat, owed : SUBSET Indices, found : SUBSET Found,
   todo : SUBSET Found, storeSize : Nat, offer : [Indices -> SomeSnapshot]]
SnapshotJobs ==
  [at : {"idle", "names", "details", "write"}, todo : SUBSET Repos,
   listed : SUBSET (Repos \X SnapshotNames), fetched : [SnapshotNames -> SomeSnapshot]]

(* TypeOK with the domains of the functions and the fields of the records.  *)
Shapes ==
  /\ now \in Time
  /\ live \in [Indices -> Index \cup {Absent}]
  /\ stored \in [Repos \X SnapshotNames -> SomeSnapshot]
  /\ reported \subseteq Snapshot
  /\ indexTable \in [Indices -> Index \cup {Absent}]
  /\ snapshotTable \in [SnapshotNames -> SomeSnapshot]
  /\ indexJob \in [at : {"idle", "write"}, fetched : [Indices -> Index \cup {Absent}]]
  /\ snapshotJob \in SnapshotJobs
  /\ request \in Requests
(* The names are all there before they are written; details are asked for   *)
(* while a name is listed.                                                  *)
JobInv ==
  /\ snapshotJob.at = "write" => snapshotJob.todo = {}
  /\ snapshotJob.at = "details" <=> snapshotJob.listed # {}

(* Whatever the tables and the job hold, Elasticsearch has reported.        *)
Real(row) == row \in reported \cup {Absent}
Reality ==
  /\ \A s \in Repos \X SnapshotNames : Real(stored[s])
  /\ \A n \in SnapshotNames : Real(snapshotTable[n]) /\ Real(snapshotJob.fetched[n])
  /\ OffersWereReal

(* Between the two queries: the row of the first, if there is one, and what *)
(* the second is to find, are in the table.                                 *)
InTable(i) == indexTable[i] # Absent
Named(i, names) == \E k \in DOMAIN names : i \in names[k]
OwedInTable(q) ==
  \A i \in q.owed : /\ InTable(i) /\ Named(i, q.names)
                    /\ InWindow(q, indexTable[i].created)
FirstRow(q) ==
  \/ q.found = {}
  \/ \E r \in Found : /\ q.found = {r} /\ InTable(r.index)
                      /\ r.created = indexTable[r.index].created
                      /\ Len(q.names) = 1 => r.created <= q.from
BetweenQueries ==
  request.at = "second" => OwedInTable(request) /\ FirstRow(request)

(* After them: one name brings one row of an index, but for start_at.       *)
RowsDiffer(q) ==
  \A r, s \in q.found :
    r.index = s.index /\ r.created # q.from /\ s.created # q.from => r = s
AfterQueries ==
  request.at \in {"snapshots", "done"} =>
    /\ Len(request.names) = 1 => RowsDiffer(request)
    /\ request.storeSize = AtLeast(DiskMinSize, StoreSize(request.found))

(* The answer is a finite set of rows, looked up one by one.                *)
FoundInv ==
  /\ IsFiniteSet(request.found) /\ request.todo \subseteq request.found

(* The inductive invariant.                                                 *)
SInv ==
  /\ Shapes /\ JobInv /\ FoundInv
  /\ Reality
  /\ BetweenQueries /\ AfterQueries /\ WindowIsComplete

-----------------------------------------------------------------------------
(* The shapes are those of TypeOK.                                          *)
LEMMA ShapesType ==
  ASSUME Shapes, JobInv, FoundInv
  PROVE  TypeOK
<1>1. \A s \in Repos \X SnapshotNames : stored[s] \in SomeSnapshot
  BY DEF Shapes
<1>2. \A n \in SnapshotNames : snapshotTable[n] \in SomeSnapshot
  BY DEF Shapes
<1>3. indexJob.at \in {"idle", "write"} /\ indexJob.fetched \in [Indices -> Index \cup {Absent}]
  BY DEF Shapes
<1>4. /\ snapshotJob.at \in {"idle", "names", "details", "write"}
      /\ \A n \in SnapshotNames : snapshotJob.fetched[n] \in SomeSnapshot
  BY DEF Shapes, SnapshotJobs
<1>5. /\ request.at \in {"none", "second", "snapshots", "done"}
      /\ request.found \subseteq Found /\ request.storeSize \in Nat
      /\ \A i \in Indices : request.offer[i] \in SomeSnapshot
  BY DEF Shapes, Requests
<1> QED
  BY <1>1, <1>2, <1>3, <1>4, <1>5 DEF Shapes, JobInv, FoundInv, TypeOK, SomeSnapshot

(* What a query selects are rows of the table as they are.                  *)
LEMMA SelectedRows ==
  ASSUME Shapes, NEW names \in Seq(SUBSET Indices), NEW query \in {1, 2}, NEW times,
         NEW r \in Selected(names, query, times)
  PROVE  /\ r \in Found /\ r.query = query
         /\ InTable(r.index) /\ r.created = indexTable[r.index].created
         /\ r.size = indexTable[r.index].size
         /\ Len(names) = 1 => r.created \in times
<1>1. PICK i \in Indices :
        /\ InTable(i)
        /\ \E k \in DOMAIN names : /\ i \in names[k]
                                   /\ k = Len(names) => indexTable[i].created \in times
        /\ r = [index |-> i, created |-> indexTable[i].created,
                size |-> indexTable[i].size, query |-> query]
  BY DEF Selected, InTable
<1>2. indexTable[i] \in Index
  BY <1>1 DEF Shapes, InTable
<1>3. r \in Found
  BY <1>1, <1>2 DEF Found, Index
<1>4. Len(names) = 1 => indexTable[i].created \in times
  <2>1. DOMAIN names = 1..Len(names)
    BY LenProperties
  <2> QED
    BY <1>1, <2>1
<1> QED
  BY <1>1, <1>3, <1>4

(* A row of the table that has one of the names and one of the times is     *)
(* selected.                                                                *)
LEMMA SelectedHas ==
  ASSUME NEW names, NEW query, NEW times, NEW i \in Indices,
         InTable(i), Named(i, names), indexTable[i].created \in times
  PROVE  i \in {r.index : r \in Selected(names, query, times)}
<1> DEFINE row == [index |-> i, created |-> indexTable[i].created,
                   size |-> indexTable[i].size, query |-> query]
<1>1. row \in Selected(names, query, times)
  BY DEF Selected, InTable, Named
<1>2. row.index = i
  OBVIOUS
<1> QED
  BY <1>1, <1>2

(* A query selects one row of an index, and finitely many.                  *)
LEMMA SelectedFew ==
  ASSUME NEW names, NEW query, NEW times
  PROVE  /\ IsFiniteSet(Selected(names, query, times))
         /\ \A r, s \in Selected(names, query, times) : r.index = s.index => r = s
<1> DEFINE rows == Selected(names, query, times)
           Row(i) == [index |-> i, created |-> indexTable[i].created,
                      size |-> indexTable[i].size, query |-> query]
           chosen == {r.index : r \in rows}
           f == [i \in chosen |-> Row(i)]
<1>1. \A r \in rows : r.index \in Indices /\ r = Row(r.index)
  BY DEF Selected
<1>2. chosen \in SUBSET Indices
  BY <1>1
<1>3. IsFiniteSet(chosen)
  BY <1>2, FS_Subset, ConstantsAssumption
<1>4. f \in Surjection(chosen, rows)
  <2>1. \A i \in chosen : f[i] \in rows
    BY <1>1
  <2>2. \A r \in rows : \E i \in chosen : f[i] = r
    BY <1>1
  <2> HIDE DEF rows
  <2>3. f \in [chosen -> rows]
    BY <2>1
  <2> HIDE DEF f, chosen
  <2> QED
    BY <2>2, <2>3 DEF Surjection
<1>5. IsFiniteSet(rows)
  <2> HIDE DEF rows, f, chosen
  <2> QED
    BY <1>3, <1>4, FS_Surjection
<1> QED
  BY <1>1, <1>5

(* The gigabytes of finitely many rows are so many.                         *)
LEMMA StoreSizeNat ==
  ASSUME NEW rows, IsFiniteSet(rows)
  PROVE  AtLeast(DiskMinSize, StoreSize(rows)) \in Nat
<1>1. IsFiniteSet(Size)
  <2>1. Size = {1} \cup {2} /\ IsFiniteSet({1})
    BY FS_Singleton DEF Size
  <2> QED
    BY <2>1, FS_AddElement
<1>2. IsFiniteSet(rows \X Size)
  BY <1>1, FS_Product
<1>3. StoreSize(rows) \in Nat
  <2> DEFINE counted == {p \in rows \X Size : p[2] <= p[1].size}
  <2>1. counted \in SUBSET (rows \X Size)
    OBVIOUS
  <2> HIDE DEF counted
  <2>2. IsFiniteSet(counted)
    BY <1>2, <2>1, FS_Subset
  <2>3. Cardinality(counted) \in Nat
    BY <2>2, FS_CardinalityType
  <2> QED
    BY <2>3 DEF StoreSize, counted
<1> QED
  BY <1>3, ConstantsAssumption DEF AtLeast

-----------------------------------------------------------------------------
(* Nothing is there in the beginning.                                       *)
THEOREM SInvInit == Init => SInv
<1> SUFFICES ASSUME Init PROVE SInv
  OBVIOUS
<1>1. Shapes
  <2>1. now \in Time /\ reported \subseteq Snapshot
    BY ConstantsAssumption DEF Init, Time
  <2>2. live \in [Indices -> Index \cup {Absent}]
    <3>1. [created |-> 1, size |-> 1] \in Index
      BY ConstantsAssumption DEF Index, Time, Size
    <3> QED
      BY <3>1 DEF Init
  <2>3. /\ stored \in [Repos \X SnapshotNames -> SomeSnapshot]
        /\ indexTable \in [Indices -> Index \cup {Absent}]
        /\ snapshotTable \in [SnapshotNames -> SomeSnapshot]
    BY DEF Init, NoIndices, NoSnapshots, SomeSnapshot
  <2>4. indexJob \in [at : {"idle", "write"}, fetched : [Indices -> Index \cup {Absent}]]
    BY DEF Init, IdleIndexJob, NoIndices
  <2>5. snapshotJob \in SnapshotJobs
    BY DEF Init, IdleSnapshotJob, NoSnapshots, SnapshotJobs, SomeSnapshot
  <2>6. request \in Requests
    <3>1. <<>> \in Seq(SUBSET Indices)
      BY EmptySeq
    <3> QED
      BY <3>1 DEF Init, NoRequest, NoIndices, Requests, SomeSnapshot
  <2> QED
    BY <2>1, <2>2, <2>3, <2>4, <2>5, <2>6 DEF Shapes
<1>2. JobInv /\ FoundInv
  BY FS_EmptySet DEF Init, IdleSnapshotJob, NoRequest, JobInv, FoundInv
<1>3. Reality
  BY DEF Init, Reality, Real, NoSnapshots, NoRequest, NoIndices, IdleSnapshotJob, OffersWereReal
<1>4. BetweenQueries /\ AfterQueries /\ WindowIsComplete
  BY DEF Init, NoRequest, BetweenQueries, AfterQueries, WindowIsComplete
<1> QED
  BY <1>1, <1>2, <1>3, <1>4 DEF SInv

-----------------------------------------------------------------------------
(* A request is not disturbed by steps that leave it and the rows it relies *)
(* on.                                                                      *)
LEMMA RequestUndisturbed ==
  ASSUME SInv, UNCHANGED request,
         \A i \in Indices : InTable(i) => /\ indexTable'[i] # Absent
                                          /\ indexTable'[i].created = indexTable[i].created
  PROVE  FoundInv' /\ BetweenQueries' /\ AfterQueries' /\ WindowIsComplete'
<1>0. /\ FoundInv /\ BetweenQueries /\ AfterQueries /\ WindowIsComplete
      /\ request.owed \subseteq Indices
  BY DEF SInv, Shapes, Requests
<1>1. FoundInv' /\ AfterQueries' /\ WindowIsComplete'
  BY <1>0 DEF FoundInv, AfterQueries, WindowIsComplete, RowsDiffer
<1>2. OwedInTable(request) => OwedInTable(request)'
  BY <1>0 DEF OwedInTable, InTable, Named, InWindow, NotAfter
<1>3. FirstRow(request) => FirstRow(request)'
  BY DEF FirstRow, InTable, Found
<1> QED
  BY <1>0, <1>1, <1>2, <1>3 DEF BetweenQueries

(* A change of Elasticsearch is reported.                                   *)
LEMMA ElasticStep ==
  ASSUME SInv, Elastic
  PROVE  SInv'
<1>0. Shapes /\ JobInv /\ Reality
  BY DEF SInv
<1>t. Tick => now' \in Time
  BY <1>0, ConstantsAssumption DEF Shapes, Tick, Time
<1>1. ASSUME NEW i \in Indices, NEW value \in Index \cup {Absent}, IndexBecomes(i, value)
      PROVE  SInv'
  <2>1. live' \in [Indices -> Index \cup {Absent}]
    BY <1>0, <1>1 DEF Shapes, IndexBecomes
  <2>2. Shapes'
    BY <1>0, <1>1, <1>t, <2>1 DEF Shapes, IndexBecomes, insideService
  <2>3. JobInv' /\ Reality'
    BY <1>0, <1>1 DEF JobInv, Reality, Real, OffersWereReal, IndexBecomes, insideService
  <2>4. FoundInv' /\ BetweenQueries' /\ AfterQueries' /\ WindowIsComplete'
    BY <1>1, RequestUndisturbed DEF IndexBecomes, insideService, InTable
  <2> QED
    BY <2>2, <2>3, <2>4 DEF SInv
<1>2. ASSUME NEW s \in Repos \X SnapshotNames, NEW value \in SomeSnapshot,
             SnapshotBecomes(s, value)
      PROVE  SInv'
  <2>1. stored' \in [Repos \X SnapshotNames -> SomeSnapshot]
    BY <1>0, <1>2 DEF Shapes, SnapshotBecomes
  <2>2. reported' \subseteq Snapshot /\ reported \subseteq reported'
        /\ value \in reported' \cup {Absent}
    BY <1>0, <1>2 DEF Shapes, SnapshotBecomes, SomeSnapshot
  <2>3. Shapes'
    BY <1>0, <1>2, <1>t, <2>1, <2>2 DEF Shapes, SnapshotBecomes, insideService
  <2>4. JobInv'
    BY <1>0, <1>2 DEF JobInv, SnapshotBecomes, insideService
  <2>5. Reality'
    <3>1. \A row : Real(row) => Real(row)'
      BY <2>2 DEF Real
    <3>2. \A x \in Repos \X SnapshotNames : Real(stored[x])'
      BY <1>0, <1>2, <2>2 DEF Shapes, SnapshotBecomes, Reality, Real
    <3>3. \A n \in SnapshotNames : (Real(snapshotTable[n]) /\ Real(snapshotJob.fetched[n]))'
      BY <1>0, <1>2, <2>2 DEF Reality, Real, SnapshotBecomes, insideService
    <3>4. OffersWereReal'
      BY <1>0, <1>2, <2>2 DEF Reality, OffersWereReal, SnapshotBecomes, insideService
    <3> QED
      BY <3>2, <3>3, <3>4 DEF Reality
  <2>6. FoundInv' /\ BetweenQueries' /\ AfterQueries' /\ WindowIsComplete'
    BY <1>2, RequestUndisturbed DEF SnapshotBecomes, insideService, InTable
  <2> QED
    BY <2>3, <2>4, <2>5, <2>6 DEF SInv
<1>3. ASSUME NEW i \in Indices, IndexCreated(i) \/ IndexGrows(i) \/ IndexDeleted(i)
      PROVE  SInv'
  <2>1. CASE IndexCreated(i)
    <3>1. [created |-> now', size |-> 1] \in Index
      BY <1>t, <2>1 DEF IndexCreated, IndexBecomes, Index, Size
    <3> QED
      BY <1>1, <2>1, <3>1 DEF IndexCreated
  <2>2. CASE IndexGrows(i)
    <3>1. live[i] \in Index
      BY <1>0, <2>2 DEF Shapes, IndexGrows
    <3>2. [live[i] EXCEPT !.size = 2] \in Index
      BY <3>1 DEF Index, Size
    <3> QED
      BY <1>1, <2>2, <3>2 DEF IndexGrows
  <2>3. CASE IndexDeleted(i)
    BY <1>1, <2>3 DEF IndexDeleted
  <2> QED
    BY <1>3, <2>1, <2>2, <2>3
<1>4. ASSUME NEW s \in Repos \X SnapshotNames,
             SnapshotStarts(s) \/ SnapshotEnds(s) \/ SnapshotDeleted(s)
      PROVE  SInv'
  <2>1. CASE SnapshotStarts(s)
    <3>1. PICK indices \in SUBSET {i \in Indices : live[i] # Absent} \ {{}} :
            SnapshotBecomes(s, [repo |-> s[1], name |-> s[2], state |-> "IN_PROGRESS",
                                time |-> now', indices |-> indices])
      BY <2>1 DEF SnapshotStarts
    <3>2. now' \in Time /\ s[1] \in Repos /\ s[2] \in SnapshotNames /\ indices \in SUBSET Indices
      BY <1>t, <3>1 DEF SnapshotBecomes
    <3>3. [repo |-> s[1], name |-> s[2], state |-> "IN_PROGRESS",
           time |-> now', indices |-> indices] \in SomeSnapshot
      BY <3>2 DEF SomeSnapshot, Snapshot, State
    <3> QED
      BY <1>2, <3>1, <3>3
  <2>2. CASE SnapshotEnds(s)
    <3>1. PICK state \in {"SUCCESS", "FAILED"} :
            SnapshotBecomes(s, [stored[s] EXCEPT !.state = state])
      BY <2>2 DEF SnapshotEnds
    <3>2. stored[s] \in Snapshot
      BY <1>0, <2>2 DEF Shapes, SnapshotEnds, SomeSnapshot
    <3>3. [stored[s] EXCEPT !.state = state] \in SomeSnapshot
      BY <3>2 DEF Snapshot, State, SomeSnapshot
    <3> QED
      BY <1>2, <3>1, <3>3
  <2>3. CASE SnapshotDeleted(s)
    BY <1>2, <2>3 DEF SnapshotDeleted, SomeSnapshot
  <2> QED
    BY <1>4, <2>1, <2>2, <2>3
<1> QED
  BY <1>3, <1>4 DEF Elastic

(* AllIndex never takes a row away, nor changes when its index was created. *)
LEMMA AllIndexStep ==
  ASSUME SInv, AllIndex
  PROVE  SInv'
<1>0. Shapes /\ JobInv /\ Reality
  BY DEF SInv
<1>1. UNCHANGED besideIndexJob /\ UNCHANGED request
  BY DEF AllIndex, IndexJobLists, IndexJobWrites, IndexJobFails, besideIndexJob
<1>2. /\ indexTable' \in [Indices -> Index \cup {Absent}]
      /\ \A i \in Indices : InTable(i) => /\ indexTable'[i] # Absent
                                          /\ indexTable'[i].created = indexTable[i].created
  <2>1. CASE UNCHANGED indexTable
    BY <1>0, <2>1 DEF Shapes, InTable
  <2>2. CASE IndexJobWrites
    <3>1. indexJob.fetched \in [Indices -> Index \cup {Absent}]
      BY <1>0 DEF Shapes
    <3>2. \A i \in Indices : indexTable'[i] = IndexRow(indexTable[i], indexJob.fetched[i])
      BY <2>2 DEF IndexJobWrites
    <3>3. ASSUME NEW i \in Indices
          PROVE  /\ IndexRow(indexTable[i], indexJob.fetched[i]) \in Index \cup {Absent}
                 /\ InTable(i) =>
                      /\ IndexRow(indexTable[i], indexJob.fetched[i]) # Absent
                      /\ IndexRow(indexTable[i], indexJob.fetched[i]).created
                           = indexTable[i].created
      <4> DEFINE old == indexTable[i]  new == indexJob.fetched[i]
      <4>1. old \in Index \cup {Absent} /\ new \in Index \cup {Absent}
        BY <1>0, <3>1 DEF Shapes
      <4> HIDE DEF old, new
      <4>2. CASE new = Absent
        BY <4>1, <4>2 DEF IndexRow, InTable, old, new
      <4>3. CASE new # Absent /\ old = Absent
        BY <4>1, <4>3 DEF IndexRow, InTable, old, new
      <4>4. CASE new # Absent /\ old # Absent
        <5>1. old \in Index /\ new \in Index
          BY <4>1, <4>4
        <5>2. IndexRow(old, new) = [old EXCEPT !.size = new.size]
          BY <4>4 DEF IndexRow
        <5>3. IndexRow(old, new) \in Index /\ IndexRow(old, new).created = old.created
          BY <5>1, <5>2 DEF Index
        <5> QED
          BY <5>3, ConstantsAssumption DEF old, new
      <4> QED
        BY <4>2, <4>3, <4>4
    <3>4. indexTable' \in [Indices -> Index \cup {Absent}]
      BY <2>2, <3>3 DEF IndexJobWrites
    <3> QED
      BY <3>2, <3>3, <3>4
  <2> QED
    BY <2>1, <2>2 DEF AllIndex, IndexJobLists, IndexJobFails
<1>3. indexJob' \in [at : {"idle", "write"}, fetched : [Indices -> Index \cup {Absent}]]
  BY <1>0 DEF Shapes, AllIndex, IndexJobLists, IndexJobWrites, IndexJobFails,
              IdleIndexJob, NoIndices
<1>4. Shapes'
  BY <1>0, <1>1, <1>2, <1>3 DEF Shapes, besideIndexJob, elastic
<1>5. JobInv' /\ Reality'
  BY <1>0, <1>1 DEF JobInv, Reality, Real, OffersWereReal, besideIndexJob, elastic
<1>6. FoundInv' /\ BetweenQueries' /\ AfterQueries' /\ WindowIsComplete'
  BY <1>1, <1>2, RequestUndisturbed
<1> QED
  BY <1>4, <1>5, <1>6 DEF SInv
(* AllSnapshot fetches what the repositories have, and keeps it.            *)
LEMMA AllSnapshotStep ==
  ASSUME SInv, AllSnapshot
  PROVE  SInv'
<1>0. Shapes /\ JobInv /\ Reality
  BY DEF SInv
<1>1. UNCHANGED besideSnapshotJob
  BY DEF AllSnapshot, SnapshotJobStarts, SnapshotJobDetails, SnapshotJobListed,
         SnapshotJobWrites, SnapshotJobFails, SnapshotJobLists
<1>2. /\ snapshotJob.at \in {"idle", "names", "details", "write"}
      /\ snapshotJob.todo \in SUBSET Repos
      /\ snapshotJob.listed \in SUBSET (Repos \X SnapshotNames)
      /\ snapshotJob.fetched \in [SnapshotNames -> SomeSnapshot]
      /\ \A n \in SnapshotNames : Real(snapshotJob.fetched[n])
  BY <1>0 DEF Shapes, SnapshotJobs, Reality
<1>i. /\ IdleSnapshotJob.fetched \in [SnapshotNames -> SomeSnapshot]
      /\ \A n \in SnapshotNames : Real(IdleSnapshotJob.fetched[n])
  BY DEF IdleSnapshotJob, NoSnapshots, SomeSnapshot, Real
<1>3. ASSUME NEW at, NEW todo, NEW listed, NEW fetched,
             snapshotJob' = [at |-> at, todo |-> todo, listed |-> listed, fetched |-> fetched],
             at \in {"idle", "names", "details", "write"}, todo \in SUBSET Repos,
             listed \in SUBSET (Repos \X SnapshotNames),
             fetched \in [SnapshotNames -> SomeSnapshot],
             \A n \in SnapshotNames : Real(fetched[n]),
             at = "write" => todo = {}, at = "details" <=> listed # {}
      PROVE  /\ snapshotJob' \in SnapshotJobs /\ JobInv'
             /\ \A n \in SnapshotNames : Real(snapshotJob'.fetched[n])
  BY <1>3 DEF SnapshotJobs, JobInv
<1>4. ASSUME snapshotTable' \in [SnapshotNames -> SomeSnapshot],
             \A n \in SnapshotNames : Real(snapshotTable'[n]),
             snapshotJob' \in SnapshotJobs, JobInv',
             \A n \in SnapshotNames : Real(snapshotJob'.fetched[n])
      PROVE  SInv'
  <2>1. Shapes'
    BY <1>0, <1>1, <1>4 DEF Shapes, besideSnapshotJob, elastic
  <2>2. Reality'
    BY <1>0, <1>1, <1>4 DEF Reality, Real, OffersWereReal, besideSnapshotJob, elastic
  <2>3. FoundInv' /\ BetweenQueries' /\ AfterQueries' /\ WindowIsComplete'
    BY <1>1, RequestUndisturbed DEF besideSnapshotJob, InTable
  <2> QED
    BY <1>4, <2>1, <2>2, <2>3 DEF SInv
<1>5. UNCHANGED snapshotTable
        => /\ snapshotTable' \in [SnapshotNames -> SomeSnapshot]
           /\ \A n \in SnapshotNames : Real(snapshotTable'[n])
  BY <1>0 DEF Shapes, Reality
<1>6. CASE SnapshotJobStarts
  <2>1. snapshotJob' = [at |-> "names", todo |-> Repos, listed |-> {},
                        fetched |-> IdleSnapshotJob.fetched]
    BY <1>6 DEF SnapshotJobStarts, IdleSnapshotJob
  <2>2. /\ snapshotJob' \in SnapshotJobs /\ JobInv'
        /\ \A n \in SnapshotNames : Real(snapshotJob'.fetched[n])
    BY <1>3, <1>i, <2>1
  <2> QED
    BY <1>4, <1>5, <1>6, <2>2 DEF SnapshotJobStarts
<1>7. ASSUME NEW r \in Repos, SnapshotJobLists(r)
      PROVE  SInv'
  <2>1. snapshotJob.listed = {} /\ snapshotJob.at = "names"
    BY <1>0, <1>7 DEF JobInv, SnapshotJobLists
  <2>2. \/ /\ NamesIn(r) # {}
           /\ snapshotJob' = [at |-> "details", todo |-> snapshotJob.todo \ {r},
                              listed |-> {r} \X NamesIn(r), fetched |-> snapshotJob.fetched]
        \/ snapshotJob' = [at |-> "names", todo |-> snapshotJob.todo \ {r},
                           listed |-> {}, fetched |-> snapshotJob.fetched]
    <3>1. snapshotJob \in SnapshotJobs
      BY <1>0 DEF Shapes
    <3> QED
      BY <1>7, <2>1, <3>1 DEF SnapshotJobLists, SnapshotJobs
  <2>3. /\ {r} \X NamesIn(r) \in SUBSET (Repos \X SnapshotNames)
        /\ NamesIn(r) # {} => {r} \X NamesIn(r) # {}
    <3>1. NamesIn(r) \subseteq SnapshotNames
      BY DEF NamesIn
    <3>2. NamesIn(r) # {} => \E n \in NamesIn(r) : <<r, n>> \in {r} \X NamesIn(r)
      OBVIOUS
    <3> QED
      BY <3>1, <3>2
  <2>4. /\ snapshotJob' \in SnapshotJobs /\ JobInv'
        /\ \A n \in SnapshotNames : Real(snapshotJob'.fetched[n])
    <3>1. CASE /\ NamesIn(r) # {}
               /\ snapshotJob' = [at |-> "details", todo |-> snapshotJob.todo \ {r},
                                  listed |-> {r} \X NamesIn(r),
                                  fetched |-> snapshotJob.fetched]
      <4>1. /\ {r} \X NamesIn(r) # {} /\ snapshotJob.todo \ {r} \in SUBSET Repos
            /\ "details" # "write"
        BY <1>2, <2>3, <3>1
      <4> QED
        BY <1>2, <1>3, <2>3, <3>1, <4>1
    <3>2. CASE snapshotJob' = [at |-> "names", todo |-> snapshotJob.todo \ {r},
                               listed |-> {}, fetched |-> snapshotJob.fetched]
      BY <1>2, <1>3, <3>2
    <3> QED
      BY <2>2, <3>1, <3>2
  <2> QED
    BY <1>4, <1>5, <1>7, <2>4 DEF SnapshotJobLists
<1>8. CASE SnapshotJobDetails
  <2>1. ASSUME NEW fetched \in [SnapshotNames -> SomeSnapshot],
               \A n \in SnapshotNames : Real(fetched[n]), GoOn(fetched)
        PROVE  SInv'
    <3>1. snapshotJob' = [at |-> "names", todo |-> snapshotJob.todo, listed |-> {},
                          fetched |-> fetched]
      <4>1. snapshotJob \in SnapshotJobs
        BY <1>0 DEF Shapes
      <4> QED
        BY <2>1, <4>1 DEF GoOn, SnapshotJobs
    <3>2. /\ snapshotJob' \in SnapshotJobs /\ JobInv'
          /\ \A n \in SnapshotNames : Real(snapshotJob'.fetched[n])
      <4>1. /\ snapshotJob.todo \in SUBSET Repos /\ {} \in SUBSET (Repos \X SnapshotNames)
            /\ "names" # "write" /\ "names" # "details"
        BY <1>2
      <4> QED
        BY <1>3, <2>1, <3>1, <4>1
    <3> QED
      BY <1>4, <1>5, <1>8, <3>2 DEF SnapshotJobDetails
  <2> DEFINE Fetched(n) == IF snapshotJob.fetched[n] = Absent /\ \E s \in snapshotJob.listed : s[2] = n
                         THEN stored[CHOOSE s \in snapshotJob.listed : s[2] = n]
                         ELSE snapshotJob.fetched[n]
             more == [n \in SnapshotNames |-> Fetched(n)]
  <2>2. ASSUME NEW n \in SnapshotNames
        PROVE  Fetched(n) \in SomeSnapshot /\ Real(Fetched(n))
    <3>1. CASE snapshotJob.fetched[n] = Absent /\ \E s \in snapshotJob.listed : s[2] = n
      <4> DEFINE s == CHOOSE s \in snapshotJob.listed : s[2] = n
      <4>1. s \in snapshotJob.listed
        BY <3>1
      <4>2. s \in Repos \X SnapshotNames
        BY <1>2, <4>1
      <4>3. Fetched(n) = stored[s]
        BY <3>1
      <4> HIDE DEF s, Fetched
      <4> QED
        BY <1>0, <4>2, <4>3 DEF Shapes, Reality
    <3>2. CASE ~(snapshotJob.fetched[n] = Absent /\ \E s \in snapshotJob.listed : s[2] = n)
      BY <1>2, <3>2
    <3> QED
      BY <3>1, <3>2
  <2>3. more \in [SnapshotNames -> SomeSnapshot] /\ \A n \in SnapshotNames : Real(more[n])
    BY <2>2
  <2>4. GoOn(more) \/ GoOn(snapshotJob.fetched)
    BY <1>8 DEF SnapshotJobDetails
  <2> HIDE DEF more
  <2> QED
    BY <1>2, <2>1, <2>3, <2>4
<1>9. CASE SnapshotJobListed
  <2>1. snapshotJob' = [at |-> "write", todo |-> {}, listed |-> {},
                        fetched |-> snapshotJob.fetched]
    <3>1. snapshotJob \in SnapshotJobs /\ snapshotJob.listed = {}
      BY <1>0, <1>9 DEF Shapes, JobInv, SnapshotJobListed
    <3> QED
      BY <1>9, <3>1 DEF SnapshotJobListed, SnapshotJobs
  <2>2. /\ snapshotJob' \in SnapshotJobs /\ JobInv'
        /\ \A n \in SnapshotNames : Real(snapshotJob'.fetched[n])
    BY <1>2, <1>3, <2>1
  <2> QED
    BY <1>4, <1>5, <1>9, <2>2 DEF SnapshotJobListed
<1>10. CASE SnapshotJobWrites \/ SnapshotJobFails
  <2>1. snapshotJob' = [at |-> "idle", todo |-> {}, listed |-> {},
                        fetched |-> IdleSnapshotJob.fetched]
    BY <1>10 DEF SnapshotJobWrites, SnapshotJobFails, IdleSnapshotJob
  <2>2. /\ snapshotJob' \in SnapshotJobs /\ JobInv'
        /\ \A n \in SnapshotNames : Real(snapshotJob'.fetched[n])
    BY <1>3, <1>i, <2>1
  <2>3. SnapshotJobWrites => /\ snapshotTable' \in [SnapshotNames -> SomeSnapshot]
                             /\ \A n \in SnapshotNames : Real(snapshotTable'[n])
    BY <1>0, <1>2 DEF SnapshotJobWrites, SnapshotRow, Shapes, Reality
  <2> QED
    BY <1>4, <1>5, <1>10, <2>2, <2>3 DEF SnapshotJobFails
<1> QED
  BY <1>6, <1>7, <1>8, <1>9, <1>10 DEF AllSnapshot

-----------------------------------------------------------------------------
(* What a step of the request has to leave true.                            *)
LEMMA RequestStep ==
  ASSUME SInv, UNCHANGED besideRequest,
         request' \in Requests,
         \A i \in Indices : request'.offer[i] # Absent =>
           /\ request'.offer[i] \in reported
           /\ request'.offer[i].state = "SUCCESS" /\ i \in request'.offer[i].indices,
         FoundInv', BetweenQueries', AfterQueries', WindowIsComplete'
  PROVE  SInv'
<1>1. Shapes /\ JobInv /\ Reality
  BY DEF SInv
<1>2. Shapes' /\ JobInv'
  BY <1>1 DEF Shapes, JobInv, besideRequest, elastic
<1>3. Reality'
  BY <1>1 DEF Reality, Real, OffersWereReal, besideRequest, elastic
<1> QED
  BY <1>2, <1>3 DEF SInv

(* The answer holds the rows of the last query and what was found before.   *)
LEMMA RowsAnswered ==
  ASSUME Shapes, UNCHANGED besideRequest,
         NEW q \in Requests, NEW rows \in SUBSET Found,
         request' = WithRows(q, rows),
         IsFiniteSet(rows),
         q.owed \subseteq {r.index : r \in rows},
         Len(q.names) = 1 =>
           /\ \E x : {r \in rows : ~(q.from <= r.created)} \subseteq {x}
           /\ \A r, s \in rows :
                r.index = s.index /\ r.created # q.from /\ s.created # q.from => r = s
  PROVE  /\ request' \in Requests /\ request'.offer = q.offer
         /\ FoundInv' /\ BetweenQueries' /\ AfterQueries' /\ WindowIsComplete'
<1> DEFINE size == AtLeast(DiskMinSize, StoreSize(rows))
<1>1. size \in Nat
  BY StoreSizeNat
<1>2. request' = [q EXCEPT !.at = "snapshots", !.found = rows, !.todo = rows,
                           !.storeSize = size]
  BY DEF WithRows
<1> HIDE DEF size
<1>3. /\ request' \in Requests /\ request'.at = "snapshots"
      /\ request'.found = rows /\ request'.todo = rows /\ request'.storeSize = size
      /\ request'.names = q.names /\ request'.from = q.from
      /\ request'.owed = q.owed /\ request'.offer = q.offer
  BY <1>1, <1>2 DEF Requests
<1>4. FoundInv' /\ BetweenQueries'
  BY <1>3 DEF FoundInv, BetweenQueries
<1>5. AfterQueries'
  BY <1>3 DEF AfterQueries, RowsDiffer, size
<1>6. Len(q.names) = 1 => Cardinality({r \in rows : ~(q.from <= r.created)}) <= 1
  <2> DEFINE outside == {r \in rows : ~(q.from <= r.created)}
  <2> SUFFICES ASSUME Len(q.names) = 1 PROVE Cardinality(outside) <= 1
    OBVIOUS
  <2>1. PICK x : outside \subseteq {x}
    OBVIOUS
  <2> HIDE DEF outside
  <2>2. IsFiniteSet({x}) /\ Cardinality({x}) = 1
    BY FS_Singleton
  <2>3. outside \in SUBSET {x}
    BY <2>1
  <2> QED
    BY <2>2, <2>3, FS_Subset
<1>7. WindowIsComplete'
  BY <1>3, <1>6 DEF WindowIsComplete
<1> QED
  BY <1>3, <1>4, <1>5, <1>7

(* The first query.                                                         *)
LEMMA ArrivalStep ==
  ASSUME SInv, NEW names \in NameLists, NEW from \in RequestTimes, NEW until \in RequestTimes,
         RequestArrives(names, from, until)
  PROVE  SInv'
<1> DEFINE owed == Owed(names, from, until)
           arrived == [NoRequest EXCEPT !.names = names, !.from = from, !.until = until,
                                        !.owed = owed]
           before == Selected(names, 1, 1..from)
           only == Selected(names, 1, {t \in Time : NotAfter(until, t)})
<1>0. Shapes /\ UNCHANGED besideRequest
  BY DEF SInv, RequestArrives
<1>1. names \in Seq(SUBSET Indices) /\ from \in Nat /\ until \in Nat
  BY ConstantsAssumption
<1>2. /\ owed \in SUBSET Indices
      /\ \A i \in owed : /\ InTable(i) /\ Named(i, names)
                         /\ indexTable[i].created \in Time
                         /\ from <= indexTable[i].created
                         /\ NotAfter(until, indexTable[i].created)
  <2>1. \A i \in Indices : InTable(i) => indexTable[i].created \in Time
    BY <1>0 DEF Shapes, InTable, Index
  <2>2. Time \subseteq Nat
    BY DEF Time
  <2>3. owed \in SUBSET Indices
    BY DEF Owed
  <2>4. ASSUME NEW i \in owed
        PROVE  /\ InTable(i) /\ Named(i, names) /\ indexTable[i].created >= from
               /\ until # 0 => ~(indexTable[i].created > until)
               /\ i \in Indices
    BY DEF Owed, InTable, Named
  <2>5. ASSUME NEW i \in owed
        PROVE  /\ from <= indexTable[i].created
               /\ NotAfter(until, indexTable[i].created)
    <3>1. indexTable[i].created \in Nat
      BY <2>1, <2>2, <2>4
    <3> QED
      BY <1>1, <2>4, <3>1 DEF NotAfter
  <2> QED
    BY <2>1, <2>3, <2>4, <2>5
<1> HIDE DEF owed
<1>3. /\ arrived \in Requests
      /\ arrived.names = names /\ arrived.from = from /\ arrived.until = until
      /\ arrived.owed = owed /\ arrived.found = {} /\ arrived.todo = {}
      /\ arrived.offer = NoIndices
  BY <1>1, <1>2 DEF NoRequest, Requests, NoIndices, SomeSnapshot
<1>4. \/ from = 0 /\ request' = WithRows(arrived, only)
      \/ /\ from # 0
         /\ \/ request' = [arrived EXCEPT !.at = "second"]
            \/ \E r \in LatestFound(before) :
                 request' = [arrived EXCEPT !.at = "second", !.found = {r}]
  BY DEF RequestArrives, owed
<1> HIDE DEF arrived
<1>5. CASE from = 0 /\ request' = WithRows(arrived, only)
  <2>1. only \in SUBSET Found /\ IsFiniteSet(only)
    BY <1>0, <1>1, SelectedRows, SelectedFew
  <2>2. owed \subseteq {r.index : r \in only}
    <3>1. ASSUME NEW i \in owed PROVE i \in {r.index : r \in only}
      <4>1. indexTable[i].created \in {t \in Time : NotAfter(until, t)} /\ i \in Indices
        BY <1>2
      <4> QED
        BY <1>2, <4>1, SelectedHas
    <3> QED
      BY <3>1
  <2>3. {r \in only : ~(from <= r.created)} \subseteq {0}
    <3>1. \A r \in only : r.created \in Nat
      BY <2>1 DEF Found, Time
    <3> QED
      BY <1>5, <3>1
  <2>4. \A r, s \in only : r.index = s.index => r = s
    BY SelectedFew
  <2> HIDE DEF only
  <2>5. /\ request' \in Requests /\ request'.offer = NoIndices
        /\ FoundInv' /\ BetweenQueries' /\ AfterQueries' /\ WindowIsComplete'
    BY <1>0, <1>3, <1>5, <2>1, <2>2, <2>3, <2>4, RowsAnswered
  <2> QED
    BY <1>0, <2>5, RequestStep DEF NoIndices
<1>6. ASSUME request' \in Requests, request'.at = "second", request'.offer = NoIndices,
             request'.names = names, request'.from = from, request'.until = until,
             request'.owed = owed, request'.todo = {}, IsFiniteSet(request'.found),
             FirstRow(request)'
      PROVE  SInv'
  <2>1. OwedInTable(request)'
    BY <1>0, <1>2, <1>6 DEF OwedInTable, InTable, Named, InWindow, besideRequest
  <2>2. FoundInv' /\ BetweenQueries' /\ AfterQueries' /\ WindowIsComplete'
    BY <1>6, <2>1 DEF FoundInv, BetweenQueries, AfterQueries, WindowIsComplete
  <2> QED
    BY <1>0, <1>6, <2>2, RequestStep DEF NoIndices
<1>7. CASE request' = [arrived EXCEPT !.at = "second"]
  <2>1. /\ request' \in Requests /\ request'.at = "second" /\ request'.offer = NoIndices
        /\ request'.names = names /\ request'.from = from /\ request'.until = until
        /\ request'.owed = owed /\ request'.todo = {} /\ request'.found = {}
    BY <1>3, <1>7 DEF Requests
  <2>2. IsFiniteSet(request'.found) /\ FirstRow(request)'
    BY <2>1, FS_EmptySet DEF FirstRow
  <2> QED
    BY <1>6, <2>1, <2>2
<1>8. ASSUME NEW r \in LatestFound(before),
             request' = [arrived EXCEPT !.at = "second", !.found = {r}]
      PROVE  SInv'
  <2>1. r \in before
    BY DEF LatestFound
  <2>2. /\ r \in Found /\ InTable(r.index) /\ r.created = indexTable[r.index].created
        /\ Len(names) = 1 => r.created \in 1..from
    BY <1>0, <1>1, <2>1, SelectedRows
  <2>3. /\ request' \in Requests /\ request'.at = "second" /\ request'.offer = NoIndices
        /\ request'.names = names /\ request'.from = from /\ request'.until = until
        /\ request'.owed = owed /\ request'.todo = {} /\ request'.found = {r}
    BY <1>3, <1>8, <2>2 DEF Requests
  <2>4. IsFiniteSet(request'.found)
    BY <2>3, FS_Singleton
  <2>5. Len(names) = 1 => r.created <= from
    BY <1>1, <2>2
  <2>6. FirstRow(request)'
    BY <1>0, <2>2, <2>3, <2>5 DEF FirstRow, InTable, besideRequest
  <2> QED
    BY <1>6, <2>3, <2>4, <2>6
<1> QED
  BY <1>4, <1>5, <1>7, <1>8

(* The second query.                                                        *)
LEMMA SecondStep ==
  ASSUME SInv, SecondQuery
  PROVE  SInv'
<1> DEFINE q == request
           window == {t \in Time : InWindow(q, t)}
           rows == Selected(q.names, 2, window)
           found == q.found \cup rows
<1>0. /\ Shapes /\ UNCHANGED besideRequest /\ Reality
      /\ request' = WithRows(q, found)
      /\ OwedInTable(q) /\ FirstRow(q) /\ IsFiniteSet(q.found)
  BY DEF SInv, SecondQuery, BetweenQueries, FoundInv
<1>1. /\ q \in Requests /\ q.names \in Seq(SUBSET Indices) /\ q.from \in Nat /\ q.until \in Nat
      /\ q.owed \in SUBSET Indices /\ q.found \in SUBSET Found
  BY <1>0 DEF Shapes, Requests
<1>2. \A r \in rows : /\ r \in Found /\ InTable(r.index)
                      /\ r.created = indexTable[r.index].created
                      /\ Len(q.names) = 1 => q.from <= r.created
  BY <1>0, <1>1, SelectedRows DEF InWindow
<1>3. IsFiniteSet(rows) /\ \A r, s \in rows : r.index = s.index => r = s
  BY SelectedFew
<1>4. q.owed \subseteq {r.index : r \in rows}
  <2>1. ASSUME NEW i \in q.owed PROVE i \in {r.index : r \in rows}
    <3>1. /\ InTable(i) /\ Named(i, q.names) /\ i \in Indices
          /\ InWindow(q, indexTable[i].created)
      BY <1>0, <1>1 DEF OwedInTable
    <3>2. indexTable[i].created \in Time
      BY <1>0, <3>1 DEF Shapes, InTable, Index
    <3> QED
      BY <3>1, <3>2, SelectedHas
  <2> QED
    BY <2>1
<1> HIDE DEF rows
<1>5. found \in SUBSET Found /\ IsFiniteSet(found) /\ q.owed \subseteq {r.index : r \in found}
  BY <1>0, <1>1, <1>2, <1>3, <1>4, FS_Union
<1>6. ASSUME Len(q.names) = 1
      PROVE  /\ \E x : {r \in found : ~(q.from <= r.created)} \subseteq {x}
             /\ \A r, s \in found :
                  r.index = s.index /\ r.created # q.from /\ s.created # q.from => r = s
  <2>1. CASE q.found = {}
    BY <1>2, <1>3, <1>6, <2>1
  <2>2. CASE q.found # {}
    <3>1. PICK x \in Found : /\ q.found = {x} /\ x.created = indexTable[x.index].created
                             /\ x.created <= q.from
      BY <1>0, <1>6, <2>2 DEF FirstRow
    <3>2. found = {x} \cup rows
      BY <3>1
    <3>3. \A r \in rows : r.index = x.index => r.created = x.created
      BY <1>2, <3>1
    <3>4. \A r \in rows : r.created \in Nat /\ q.from <= r.created
      BY <1>2, <1>6 DEF Found, Time
    <3>5. x.created \in Nat
      BY DEF Found, Time
    <3>6. \A r \in rows : r.index = x.index => r.created = q.from
      BY <1>1, <3>1, <3>3, <3>4, <3>5
    <3> HIDE DEF found, q
    <3> QED
      BY <1>3, <3>2, <3>4, <3>6
  <2> QED
    BY <2>1, <2>2
<1> HIDE DEF found
<1>7. /\ request' \in Requests /\ request'.offer = q.offer
      /\ FoundInv' /\ BetweenQueries' /\ AfterQueries' /\ WindowIsComplete'
  BY <1>0, <1>1, <1>5, <1>6, RowsAnswered
<1> QED
  BY <1>0, <1>7, RequestStep DEF Reality, OffersWereReal

(* An offer is a row of the table.                                          *)
LEMMA OfferStep ==
  ASSUME SInv, NEW r \in request.todo, Offer(r)
  PROVE  SInv'
<1>0. /\ Shapes /\ UNCHANGED besideRequest /\ Reality /\ request.at = "snapshots"
      /\ FoundInv /\ AfterQueries /\ WindowIsComplete
  BY DEF SInv, Offer
<1>1. request \in Requests /\ r.index \in Indices
  BY <1>0 DEF Shapes, Requests, Found
<1>2. ASSUME NEW offer \in [Indices -> SomeSnapshot],
             \A i \in Indices : offer[i] # Absent =>
               /\ offer[i] \in reported
               /\ offer[i].state = "SUCCESS" /\ i \in offer[i].indices,
             request' = [request EXCEPT !.todo = @ \ {r}, !.offer = offer]
      PROVE  SInv'
  <2>1. /\ request' \in Requests /\ request'.at = "snapshots" /\ request'.offer = offer
        /\ request'.names = request.names /\ request'.from = request.from
        /\ request'.owed = request.owed /\ request'.found = request.found
        /\ request'.todo = request.todo \ {r} /\ request'.storeSize = request.storeSize
    BY <1>0, <1>1, <1>2 DEF Requests
  <2>2. FoundInv' /\ BetweenQueries' /\ AfterQueries' /\ WindowIsComplete'
    BY <1>0, <2>1 DEF FoundInv, BetweenQueries, AfterQueries, RowsDiffer, WindowIsComplete
  <2> QED
    BY <1>0, <1>2, <2>1, <2>2, RequestStep
<1>3. \A i \in Indices : request.offer[i] # Absent =>
               /\ request.offer[i] \in reported
               /\ request.offer[i].state = "SUCCESS" /\ i \in request.offer[i].indices
  BY <1>0 DEF Reality, OffersWereReal
<1>4. request.offer \in [Indices -> SomeSnapshot]
  BY <1>1 DEF Requests
<1>5. CASE request' = [request EXCEPT !.todo = @ \ {r}]
  <2>1. request' = [request EXCEPT !.todo = @ \ {r}, !.offer = request.offer]
    BY <1>1, <1>5 DEF Requests
  <2> QED
    BY <1>2, <1>3, <1>4, <2>1
<1>6. ASSUME NEW n \in LatestSnapshot(r.index),
             request' = [request EXCEPT !.todo = @ \ {r}, !.offer[r.index] = snapshotTable[n]]
      PROVE  SInv'
  <2>1. /\ n \in SnapshotNames /\ snapshotTable[n] \in SomeSnapshot
        /\ snapshotTable[n] \in reported /\ snapshotTable[n].state = "SUCCESS"
        /\ r.index \in snapshotTable[n].indices
    BY <1>0 DEF LatestSnapshot, Restorable, Shapes, Reality, Real
  <2> DEFINE offer == [request.offer EXCEPT ![r.index] = snapshotTable[n]]
  <2>2. offer \in [Indices -> SomeSnapshot]
    BY <1>4, <2>1
  <2>3. \A i \in Indices : offer[i] # Absent =>
               /\ offer[i] \in reported
               /\ offer[i].state = "SUCCESS" /\ i \in offer[i].indices
    BY <1>1, <1>3, <1>4, <2>1
  <2>4. request' = [request EXCEPT !.todo = @ \ {r}, !.offer = offer]
    BY <1>6
  <2> HIDE DEF offer
  <2> QED
    BY <1>2, <2>2, <2>3, <2>4
<1> QED
  BY <1>5, <1>6 DEF Offer

(* The answer changes nothing of it.                                        *)
LEMMA AnswerStep ==
  ASSUME SInv, Answer
  PROVE  SInv'
<1>0. /\ Shapes /\ UNCHANGED besideRequest /\ Reality /\ request.at = "snapshots"
      /\ FoundInv /\ AfterQueries /\ WindowIsComplete /\ request \in Requests
      /\ request' = [request EXCEPT !.at = "done"]
  BY DEF SInv, Answer, Shapes
<1>1. /\ request' \in Requests /\ request'.at = "done" /\ request'.offer = request.offer
      /\ request'.names = request.names /\ request'.from = request.from
      /\ request'.owed = request.owed /\ request'.found = request.found
      /\ request'.todo = request.todo /\ request'.storeSize = request.storeSize
  BY <1>0 DEF Requests
<1>2. FoundInv' /\ BetweenQueries' /\ AfterQueries' /\ WindowIsComplete'
  BY <1>0, <1>1 DEF FoundInv, BetweenQueries, AfterQueries, RowsDiffer, WindowIsComplete
<1> QED
  BY <1>0, <1>1, <1>2, RequestStep DEF Reality, OffersWereReal

-----------------------------------------------------------------------------
(* Every step keeps the invariant.                                          *)
THEOREM SInvNext == SInv /\ [Next]_vars => SInv'
<1>1. ASSUME SInv, UNCHANGED vars PROVE SInv'
  <2>1. UNCHANGED besideRequest /\ UNCHANGED request
    BY <1>1 DEF vars, besideRequest
  <2>2. (Shapes /\ JobInv /\ Reality)'
    BY <1>1, <2>1 DEF SInv, Shapes, JobInv, Reality, Real, OffersWereReal, besideRequest, elastic
  <2>3. FoundInv' /\ BetweenQueries' /\ AfterQueries' /\ WindowIsComplete'
    BY <1>1, <2>1, RequestUndisturbed DEF besideRequest, InTable
  <2> QED
    BY <2>2, <2>3 DEF SInv
<1> QED
  BY <1>1, ElasticStep, AllIndexStep, AllSnapshotStep, ArrivalStep, SecondStep, OfferStep,
     AnswerStep DEF Next, RestoreSnapshot

(* The invariant holds in every reachable state.                            *)
THEOREM SInvAlways == Spec => []SInv
BY SInvInit, SInvNext, PTL DEF Spec

(* Every variable stays in its type, and the size of the node answered is a *)
(* number of gigabytes.                                                     *)
THEOREM CatalogTypes == Spec => []TypeOK
<1>1. SInv => TypeOK
  BY ShapesType DEF SInv
<1> QED
  BY <1>1, SInvAlways, PTL

(* A snapshot that is offered for an index is one that Elasticsearch has    *)
(* reported, successful and with that index.                                *)
THEOREM OffersReal == Spec => []OffersWereReal
<1>1. SInv => OffersWereReal
  BY DEF SInv, Reality
<1> QED
  BY <1>1, SInvAlways, PTL

(* No index that was in the window when a request arrived is missing from   *)
(* its answer; one name brings at most one from outside.                    *)
THEOREM WindowComplete == Spec => []WindowIsComplete
<1>1. SInv => WindowIsComplete
  BY DEF SInv
<1> QED
  BY <1>1, SInvAlways, PTL

(* With one name, an index counts once in the size of the node.             *)
THEOREM SizeOnce == Spec => []SizeCountsOnce
<1>1. SInv => SizeCountsOnce
  <2> DEFINE found == request.found
             atStart == {r \in found : r.created = request.from}
             rows == found \ atStart
             Once(i) == CHOOSE r \in rows : r.index = i
             once == {Once(i) : i \in {r.index : r \in rows}}
  <2> SUFFICES ASSUME SInv, request.at \in {"snapshots", "done"}, Len(request.names) = 1
               PROVE  request.storeSize = AtLeast(DiskMinSize, StoreSize(once \cup atStart))
    BY DEF SizeCountsOnce
  <2>1. RowsDiffer(request) /\ request.storeSize = AtLeast(DiskMinSize, StoreSize(found))
    BY DEF SInv, AfterQueries
  <2>2. \A r, s \in rows : r.index = s.index => r = s
    BY <2>1 DEF RowsDiffer
  <2>3. \A r \in rows : Once(r.index) = r
    <3> SUFFICES ASSUME NEW r \in rows PROVE Once(r.index) = r
      OBVIOUS
    <3> HIDE DEF rows
    <3>1. \E s \in rows : s.index = r.index
      OBVIOUS
    <3>2. Once(r.index) \in rows /\ Once(r.index).index = r.index
      BY <3>1
    <3> HIDE DEF Once
    <3> QED
      BY <2>2, <3>2
  <2>4. once = rows
    <3> HIDE DEF rows, Once
    <3> QED
      BY <2>3
  <2>5. once \cup atStart = found
    <3>1. atStart \subseteq found
      OBVIOUS
    <3> HIDE DEF atStart, once
    <3> QED
      BY <2>4, <3>1
  <2> QED
    BY <2>1, <2>5
<1> QED
  BY <1>1, SInvAlways, PTL
=============================================================================
