-------------------------- MODULE Lifecycle_proofs --------------------------
(***************************************************************************)
(* Which hooks are started says what is open: the database from the second *)
(* on, the scheduler from the third on.  From that the safety properties   *)
(* of Lifecycle follow, for any number of requests, jobs and restores.     *)
(***************************************************************************)
EXTENDS Lifecycle, TLAPS

(* What the number of started hooks says of the parts.                      *)
PartsOpen ==
  /\ listening => started >= 1
  /\ started >= 2 => migrated /\ ~closed
  /\ ticking => started >= 3
  /\ phase = "starting" => ~closed
  /\ manager # "none" => migrated

(* Requests and jobs in flight keep the hook that waits for them started,   *)
(* and restores in flight are younger than the manager.                     *)
ActorsHeld ==
  /\ \A q \in Requests : q \in active => started >= 1
  /\ \A j \in Jobs : j \in active => started >= 3
  /\ \A w \in Restores : w \in active => manager # "none"

LInv == TypeOK /\ PartsOpen /\ ActorsHeld /\ TablesAreThere /\ OrderlyExitCutsNobody

-----------------------------------------------------------------------------
(* The place of each hook.                                                  *)
LEMMA Places ==
  /\ Hooks[1] = "http" /\ Hooks[2] = "db" /\ Hooks[3] = "cron"
  /\ Hooks[4] = "worker" /\ Hooks[5] = "manager"
  /\ Len(Hooks) = 5
BY DEF Hooks

(* The hook that is started next has its place; so has the one to stop.     *)
LEMMA StartsAt ==
  ASSUME started \in 0..5, NEW hook, Starts(hook)
  PROVE  /\ started' = started + 1 /\ started' \in 1..5
         /\ Hooks[started'] = hook
BY Places DEF Starts

(* So has the hook that is stopped next.                                    *)
LEMMA StopsAt ==
  ASSUME started \in 0..5, NEW hook, Stopping(hook)
  PROVE  started \in 1..5 /\ Hooks[started] = hook
BY DEF Stopping

(* Before the first hook nothing is open and nobody is at work.             *)
THEOREM LInvInit == Init => LInv
<1> SUFFICES ASSUME Init PROVE LInv
  OBVIOUS
<1>0. started \in 0..5
  BY DEF Init
<1>1. TypeOK
  <2>1. migrated \in BOOLEAN /\ met \in [Actors -> SUBSET {"no tables", "closed"}]
    BY DEF Init
  <2> QED
    BY <1>0, <2>1 DEF Init, TypeOK
<1>2. PartsOpen /\ ActorsHeld
  BY DEF Init, PartsOpen, ActorsHeld
<1>3. TablesAreThere /\ OrderlyExitCutsNobody
  BY DEF Init, TablesAreThere, OrderlyExitCutsNobody, Actors
<1> QED
  BY <1>1, <1>2, <1>3 DEF LInv

(* Steps that touch neither what statements meet nor the exit.              *)
LEMMA QuietSteps ==
  ASSUME UNCHANGED <<phase, met, cut>>, TablesAreThere, OrderlyExitCutsNobody
  PROVE  TablesAreThere' /\ OrderlyExitCutsNobody'
BY DEF TablesAreThere, OrderlyExitCutsNobody

-----------------------------------------------------------------------------
(* OnStart, hook by hook.                                                   *)
LEMMA StartPreserves ==
  ASSUME LInv,
         StartHttp \/ StartDB \/ StartCron \/ StartWorker \/ StartManager
  PROVE  LInv'
<1>0. started \in 0..5 /\ TypeOK /\ PartsOpen /\ ActorsHeld
  BY DEF LInv, TypeOK
<1>1. CASE StartHttp
  <2>1. started = 0 /\ started' = 1
    BY <1>0, <1>1, StartsAt, Places DEF StartHttp
  <2>2. started' \in 0..5
    BY <2>1
  <2>3. TypeOK'
    BY <1>0, <1>1, <2>2 DEF StartHttp, Starts, TypeOK, parts
  <2>4. PartsOpen' /\ ActorsHeld'
    BY <1>0, <1>1, <2>1 DEF StartHttp, Starts, PartsOpen, ActorsHeld, parts
  <2> QED
    BY <1>1, <2>3, <2>4, QuietSteps DEF StartHttp, Starts, LInv
<1>2. CASE StartDB
  <2>1. started = 1 /\ started' = 2
    BY <1>0, <1>2, StartsAt, Places DEF StartDB
  <2>2. started' \in 0..5
    BY <2>1
  <2>3. TypeOK'
    BY <1>0, <1>2, <2>2 DEF StartDB, Starts, TypeOK, parts
  <2>4. PartsOpen' /\ ActorsHeld'
    BY <1>0, <1>2, <2>1 DEF StartDB, Starts, PartsOpen, ActorsHeld, parts
  <2> QED
    BY <1>2, <2>3, <2>4, QuietSteps DEF StartDB, Starts, LInv
<1>3. CASE StartCron
  <2>1. started = 2 /\ started' = 3
    BY <1>0, <1>3, StartsAt, Places DEF StartCron
  <2>2. started' \in 0..5
    BY <2>1
  <2>3. TypeOK'
    BY <1>0, <1>3, <2>2 DEF StartCron, Starts, TypeOK, parts
  <2>4. PartsOpen' /\ ActorsHeld'
    BY <1>0, <1>3, <2>1 DEF StartCron, Starts, PartsOpen, ActorsHeld, parts
  <2> QED
    BY <1>3, <2>3, <2>4, QuietSteps DEF StartCron, Starts, LInv
<1>4. CASE StartWorker
  <2>1. started = 3 /\ started' = 4
    BY <1>0, <1>4, StartsAt, Places DEF StartWorker
  <2>2. started' \in 0..5
    BY <2>1
  <2>3. TypeOK'
    BY <1>0, <1>4, <2>2 DEF StartWorker, Starts, TypeOK, parts
  <2>4. PartsOpen' /\ ActorsHeld'
    BY <1>0, <1>4, <2>1 DEF StartWorker, Starts, PartsOpen, ActorsHeld, parts
  <2> QED
    BY <1>4, <2>3, <2>4, QuietSteps DEF StartWorker, Starts, LInv
<1>5. CASE StartManager
  <2>1. started = 4 /\ started' = 5
    BY <1>0, <1>5, StartsAt, Places DEF StartManager
  <2>2. started' \in 0..5
    BY <2>1
  <2>3. TypeOK'
    BY <1>0, <1>5, <2>2 DEF StartManager, Starts, TypeOK, parts
  <2>4. PartsOpen' /\ ActorsHeld'
    BY <1>0, <1>5, <2>1 DEF StartManager, Starts, PartsOpen, ActorsHeld, parts
  <2> QED
    BY <1>5, <2>3, <2>4, QuietSteps DEF StartManager, Starts, LInv
<1> QED
  BY <1>1, <1>2, <1>3, <1>4, <1>5

(* Steps of the main goroutine that only change what it does next.          *)
LEMMA PhasePreserves ==
  ASSUME LInv, MigrationFails \/ Started \/ StopBegins
  PROVE  LInv'
<1>0. TypeOK /\ PartsOpen /\ ActorsHeld /\ TablesAreThere /\ OrderlyExitCutsNobody
  BY DEF LInv
<1>1. /\ phase' \in {"running", "stopping", "rollback"}
      /\ UNCHANGED <<started, signalled, parts, active, met, cut>>
  BY DEF MigrationFails, Started, StopBegins
<1>2. TypeOK'
  BY <1>0, <1>1 DEF TypeOK, parts
<1>3. PartsOpen' /\ ActorsHeld'
  BY <1>0, <1>1 DEF PartsOpen, ActorsHeld, parts
<1>4. TablesAreThere' /\ OrderlyExitCutsNobody'
  BY <1>0, <1>1 DEF TablesAreThere, OrderlyExitCutsNobody
<1> QED
  BY <1>2, <1>3, <1>4 DEF LInv

-----------------------------------------------------------------------------
(* OnStop, hook by hook: the scheduler and the server stop when nobody is   *)
(* in flight any more that they wait for.                                   *)
LEMMA StopPreserves ==
  ASSUME LInv,
         StopManagerOrWorker \/ StopCron \/ CronStopped \/ StopDB \/ StopHttp \/ HttpStopped
  PROVE  LInv'
<1>0. started \in 0..5 /\ TypeOK /\ PartsOpen /\ ActorsHeld
  BY DEF LInv, TypeOK
<1>1. CASE StopManagerOrWorker
  <2>1. started \in {4, 5} /\ started' = started - 1 /\ started' \in 0..5
    BY <1>0, <1>1, StopsAt, Places DEF StopManagerOrWorker
  <2>2. started' \in 0..5
    BY <1>0, <2>1
  <2>3. TypeOK'
    BY <1>0, <1>1, <2>2 DEF StopManagerOrWorker, Stopping, TypeOK, parts
  <2>4. PartsOpen' /\ ActorsHeld'
    BY <1>0, <1>1, <2>1 DEF StopManagerOrWorker, Stopping, PartsOpen, ActorsHeld, parts
  <2> QED
    BY <1>1, <2>3, <2>4, QuietSteps DEF StopManagerOrWorker, Stopping, LInv
<1>2. CASE StopCron
  <2>1. started' = started
    BY <1>0, <1>2, StopsAt, Places DEF StopCron
  <2>2. started' \in 0..5
    BY <1>0, <2>1
  <2>3. TypeOK'
    BY <1>0, <1>2, <2>2 DEF StopCron, Stopping, TypeOK, parts
  <2>4. PartsOpen' /\ ActorsHeld'
    BY <1>0, <1>2, <2>1 DEF StopCron, Stopping, PartsOpen, ActorsHeld, parts
  <2> QED
    BY <1>2, <2>3, <2>4, QuietSteps DEF StopCron, Stopping, LInv
<1>3. CASE CronStopped
  <2>1. started = 3 /\ started' = 2 /\ \A j \in Jobs : j \notin active
    BY <1>0, <1>3, StopsAt, Places DEF CronStopped
  <2>2. started' \in 0..5
    BY <1>0, <2>1
  <2>3. TypeOK'
    BY <1>0, <1>3, <2>2 DEF CronStopped, Stopping, TypeOK, parts
  <2>4. PartsOpen' /\ ActorsHeld'
    BY <1>0, <1>3, <2>1 DEF CronStopped, Stopping, PartsOpen, ActorsHeld, parts
  <2> QED
    BY <1>3, <2>3, <2>4, QuietSteps DEF CronStopped, Stopping, LInv
<1>4. CASE StopDB
  <2>1. started = 2 /\ started' = 1 /\ phase # "starting"
    BY <1>0, <1>4, StopsAt, Places DEF StopDB, Stopping
  <2>2. started' \in 0..5
    BY <1>0, <2>1
  <2>3. TypeOK'
    BY <1>0, <1>4, <2>2 DEF StopDB, Stopping, TypeOK, parts
  <2>4. PartsOpen' /\ ActorsHeld'
    BY <1>0, <1>4, <2>1 DEF StopDB, Stopping, PartsOpen, ActorsHeld, parts
  <2> QED
    BY <1>4, <2>3, <2>4, QuietSteps DEF StopDB, Stopping, LInv
<1>5. CASE StopHttp
  <2>1. started' = started
    BY <1>0, <1>5, StopsAt, Places DEF StopHttp
  <2>2. started' \in 0..5
    BY <1>0, <2>1
  <2>3. TypeOK'
    BY <1>0, <1>5, <2>2 DEF StopHttp, Stopping, TypeOK, parts
  <2>4. PartsOpen' /\ ActorsHeld'
    BY <1>0, <1>5, <2>1 DEF StopHttp, Stopping, PartsOpen, ActorsHeld, parts
  <2> QED
    BY <1>5, <2>3, <2>4, QuietSteps DEF StopHttp, Stopping, LInv
<1>6. CASE HttpStopped
  <2>1. started = 1 /\ started' = 0 /\ \A q \in Requests : q \notin active
    BY <1>0, <1>6, StopsAt, Places DEF HttpStopped
  <2>2. started' \in 0..5
    BY <1>0, <2>1
  <2>3. TypeOK'
    BY <1>0, <1>6, <2>2 DEF HttpStopped, Stopping, TypeOK, parts
  <2>4. PartsOpen' /\ ActorsHeld'
    BY <1>0, <1>6, <2>1 DEF HttpStopped, Stopping, PartsOpen, ActorsHeld, parts
  <2> QED
    BY <1>6, <2>3, <2>4, QuietSteps DEF HttpStopped, Stopping, LInv
<1> QED
  BY <1>1, <1>2, <1>3, <1>4, <1>5, <1>6

-----------------------------------------------------------------------------
(* Nothing runs after the end; whoever was in flight was cut off.           *)
LEMMA ExitPreserves ==
  ASSUME LInv, NEW end \in Ends, Exit(end), UNCHANGED <<started, listening, migrated, closed, ticking, met>>,
         manager' = manager, signalled' \in BOOLEAN,
         end \in {"stopped", "failed"} => active \subseteq Restores
  PROVE  LInv'
<1>0. TypeOK /\ PartsOpen /\ ActorsHeld /\ TablesAreThere
  BY DEF LInv
<1>1. phase' = end /\ cut' = active /\ active' = {}
  BY DEF Exit
<1>2. TypeOK'
  BY <1>0, <1>1 DEF TypeOK
<1>3. PartsOpen' /\ ActorsHeld'
  BY <1>0, <1>1 DEF PartsOpen, ActorsHeld, Ends
<1>4. TablesAreThere' /\ OrderlyExitCutsNobody'
  BY <1>0, <1>1 DEF TablesAreThere, OrderlyExitCutsNobody
<1> QED
  BY <1>2, <1>3, <1>4 DEF LInv

(* An orderly stop has waited for the requests and the jobs.                *)
LEMMA StoppedPreserves == ASSUME LInv, Stopped PROVE LInv'
<1>1. active \subseteq Restores
  <2>1. active \subseteq Actors /\ ActorsHeld /\ started = 0
    BY DEF LInv, TypeOK, Stopped
  <2> QED
    BY <2>1 DEF ActorsHeld, Actors
<1>2. PICK end \in Ends : Exit(end)
  BY DEF Stopped, Ends
<1>3. /\ UNCHANGED <<started, listening, migrated, closed, ticking, met>>
      /\ manager' = manager /\ signalled' \in BOOLEAN
  BY DEF Stopped, LInv, TypeOK, parts
<1> QED
  BY <1>1, <1>2, <1>3, ExitPreserves

(* A signal tells the manager or kills, and killing is no orderly exit.     *)
LEMMA SignalPreserves == ASSUME LInv, Signal PROVE LInv'
<1>0. TypeOK /\ PartsOpen /\ ActorsHeld
  BY DEF LInv
<1>1. CASE manager # "running"
  <2>1. Exit("killed") /\ manager' = manager /\ signalled' \in BOOLEAN
    BY <1>0, <1>1 DEF Signal, TypeOK
  <2>2. UNCHANGED <<started, listening, migrated, closed, ticking, met>>
    BY DEF Signal
  <2> QED
    BY <2>1, <2>2, ExitPreserves DEF Ends
<1>2. CASE manager = "running"
  <2>1. /\ manager' = "told" /\ signalled' \in BOOLEAN
        /\ UNCHANGED <<phase, active, cut, started, listening, migrated, closed, ticking, met>>
    BY <1>2 DEF Signal
  <2>2. TypeOK'
    BY <1>0, <2>1 DEF TypeOK
  <2>3. PartsOpen' /\ ActorsHeld'
    BY <1>0, <1>2, <2>1 DEF PartsOpen, ActorsHeld
  <2> QED
    BY <2>1, <2>2, <2>3, QuietSteps DEF LInv
<1> QED
  BY <1>1, <1>2

(* A deadline or a panic is no orderly exit.                                *)
LEMMA DisorderlyPreserves ==
  ASSUME LInv, Deadline \/ ListenFails \/ \E w \in Restores : RestorePanics(w)
  PROVE  LInv'
<1>1. PICK end \in {"deadline", "panicked"} : Exit(end)
  BY DEF Deadline, ListenFails, RestorePanics
<1>2. /\ UNCHANGED <<started, listening, migrated, closed, ticking, met>>
      /\ manager' = manager /\ signalled' \in BOOLEAN
  BY DEF Deadline, ListenFails, RestorePanics, LInv, TypeOK, parts
<1>3. end \in Ends /\ end \notin {"stopped", "failed"}
  BY DEF Ends
<1> QED
  BY <1>1, <1>2, <1>3, ExitPreserves

-----------------------------------------------------------------------------
(* The goroutines beside the main one: whoever begins finds open what he    *)
(* will need.                                                               *)
LEMMA BeginsPreserves ==
  ASSUME LInv, NEW x \in Actors, Begins(x),
         x \in Requests => started >= 1,
         x \in Jobs => started >= 3,
         x \in Restores => manager # "none"
  PROVE  LInv'
<1>0. TypeOK /\ PartsOpen /\ ActorsHeld
  BY DEF LInv
<1>1. TypeOK'
  BY <1>0 DEF Begins, TypeOK, parts
<1>2. PartsOpen' /\ ActorsHeld'
  BY <1>0 DEF Begins, PartsOpen, ActorsHeld, parts
<1> QED
  BY <1>1, <1>2, QuietSteps DEF Begins, LInv

(* A request, a job or a restore begins only while its part is open.        *)
LEMMA ActorBegins ==
  ASSUME LInv,
         \/ \E q \in Requests : RequestBegins(q)
         \/ \E j \in Jobs : JobBegins(j)
         \/ \E w \in Restores : RestoreBegins(w)
  PROVE  LInv'
<1>0. PartsOpen
  BY DEF LInv
<1>1. ASSUME NEW q \in Requests, RequestBegins(q) PROVE LInv'
  <2>1. q \in Actors /\ q \notin Jobs /\ q \notin Restores
    BY ConstantsAssumption DEF Actors
  <2> QED
    BY <1>0, <1>1, <2>1, BeginsPreserves DEF RequestBegins, PartsOpen
<1>2. ASSUME NEW j \in Jobs, JobBegins(j) PROVE LInv'
  <2>1. j \in Actors /\ j \notin Requests /\ j \notin Restores
    BY ConstantsAssumption DEF Actors
  <2> QED
    BY <1>0, <1>2, <2>1, BeginsPreserves DEF JobBegins, PartsOpen
<1>3. ASSUME NEW w \in Restores, RestoreBegins(w) PROVE LInv'
  <2>1. w \in Actors /\ w \notin Requests /\ w \notin Jobs
    BY ConstantsAssumption DEF Actors
  <2> QED
    BY <1>3, <2>1, BeginsPreserves DEF RestoreBegins
<1> QED
  BY <1>1, <1>2, <1>3

(* What a statement meets is what the started hooks say.                    *)
LEMMA StatementPreserves ==
  ASSUME LInv, NEW x \in Actors, Statement(x)
  PROVE  LInv'
<1>0. TypeOK /\ PartsOpen /\ ActorsHeld /\ TablesAreThere /\ OrderlyExitCutsNobody
  BY DEF LInv
<1>1. started \in 0..5 /\ met \in [Actors -> SUBSET {"no tables", "closed"}]
  BY <1>0 DEF TypeOK
<1>2. TypeOK'
  <2>1. met' \in [Actors -> SUBSET {"no tables", "closed"}]
    BY <1>1 DEF Statement
  <2> QED
    BY <1>0, <2>1 DEF Statement, TypeOK, parts
<1>3. PartsOpen' /\ ActorsHeld' /\ OrderlyExitCutsNobody'
  BY <1>0 DEF Statement, PartsOpen, ActorsHeld, OrderlyExitCutsNobody, parts
<1>4. x \in Jobs => migrated /\ ~closed
  <2>1. x \in Jobs => started >= 3
    BY <1>0 DEF Statement, ActorsHeld
  <2>2. started \in 0..5
    BY <1>1
  <2>3. started >= 3 => started >= 2
    BY <2>2
  <2> QED
    BY <1>0, <2>1, <2>3 DEF PartsOpen
<1>5. x \in Restores => migrated
  BY <1>0 DEF Statement, ActorsHeld, PartsOpen
<1>6. TablesAreThere'
  BY <1>0, <1>1, <1>4, <1>5 DEF Statement, TablesAreThere, Actors
<1> QED
  BY <1>2, <1>3, <1>6 DEF LInv

(* An actor that has ended holds nothing.                                   *)
LEMMA EndedPreserves ==
  ASSUME LInv, NEW x \in Actors, Ended(x)
  PROVE  LInv'
<1>0. TypeOK /\ PartsOpen /\ ActorsHeld
  BY DEF LInv
<1>1. TypeOK'
  BY <1>0 DEF Ended, TypeOK, parts
<1>2. PartsOpen' /\ ActorsHeld'
  BY <1>0 DEF Ended, PartsOpen, ActorsHeld, parts
<1> QED
  BY <1>1, <1>2, QuietSteps DEF Ended, LInv

(* The invariant is inductive.                                              *)
THEOREM LInvStep == LInv /\ [Next]_vars => LInv'
<1> SUFFICES ASSUME LInv, [Next]_vars PROVE LInv'
  OBVIOUS
<1>1. CASE UNCHANGED vars
  BY <1>1 DEF LInv, vars, TypeOK, PartsOpen, ActorsHeld, TablesAreThere,
              OrderlyExitCutsNobody
<1>2. CASE Main
  BY <1>2, StartPreserves, PhasePreserves, StopPreserves, StoppedPreserves DEF Main
<1>3. CASE StartDB \/ MigrationFails
  BY <1>3, StartPreserves, PhasePreserves
<1>4. CASE Signal \/ Deadline \/ ListenFails
  BY <1>4, SignalPreserves, DisorderlyPreserves
<1>5. CASE \E w \in Restores : RestorePanics(w)
  BY <1>5, DisorderlyPreserves
<1>6. CASE \E x \in Actors : Statement(x) \/ Ended(x)
  BY <1>6, StatementPreserves, EndedPreserves
<1> QED
  BY <1>1, <1>2, <1>3, <1>4, <1>5, <1>6, ActorBegins DEF Next

(* What the number of started hooks says holds at every moment.             *)
THEOREM LInvHolds == Spec => []LInv
BY LInvInit, LInvStep, PTL DEF Spec

(* Every variable of Lifecycle keeps its type.                              *)
THEOREM LifecycleTypes == Spec => []TypeOK
<1>1. LInv => TypeOK
  BY DEF LInv
<1> QED
  BY <1>1, LInvHolds, PTL

(* The cron jobs never meet missing tables or a closed database, and a      *)
(* restore never meets missing tables, at whatever moment the process is    *)
(* started, fails to start or is stopped (TablesAreThere).                  *)
THEOREM TablesAreAlwaysThere == Spec => []TablesAreThere
<1>1. LInv => TablesAreThere
  BY DEF LInv
<1> QED
  BY <1>1, LInvHolds, PTL

(* An exit that is no deadline, kill or panic cuts off restores alone       *)
(* (OrderlyExitCutsNobody).                                                 *)
THEOREM OrderlyExitsAwait == Spec => []OrderlyExitCutsNobody
<1>1. LInv => OrderlyExitCutsNobody
  BY DEF LInv
<1> QED
  BY <1>1, LInvHolds, PTL
=============================================================================
