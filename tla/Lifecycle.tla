----------------------------- MODULE Lifecycle -----------------------------
(***************************************************************************)
(* Start and stop of the server process (cmd/server.go and the fx hooks).  *)
(*                                                                         *)
(* fx calls the constructors as their results are wanted, and each appends *)
(* a hook; OnStart is called in that order and OnStop in reverse, each     *)
(* within a deadline after which the process exits.  A failed OnStart      *)
(* stops the hooks that have been started.  Beside the main goroutine run  *)
(* the HTTP requests, the cron jobs and the goroutines that restore, all   *)
(* of which execute statements on the one database; none is told that the  *)
(* process stops, and each may take as long as it likes.                   *)
(***************************************************************************)
EXTENDS Naturals, Sequences

CONSTANTS
  Requests,  \* HTTP requests
  Jobs,      \* the two cron jobs
  Restores   \* goroutines that run restoreIndices

ASSUME ConstantsAssumption ==
  /\ Requests \cap Jobs = {} /\ Requests \cap Restores = {}
  /\ Jobs \cap Restores = {}

VARIABLES
  phase,      \* what the main goroutine does
  started,    \* how many hooks are started and not stopped
  signalled,  \* has fx got a signal in Wait?
  listening,  \* does the HTTP server accept requests?
  migrated,   \* are the tables there?
  closed,     \* is the connection pool of the database closed?
  ticking,    \* does the cron scheduler start jobs?
  manager,    \* the manager of the controller
  active,     \* the requests, jobs and restores in flight
  met,        \* met[x]: what else than its tables a statement of x has met
  cut         \* the ones in flight when the process exited

parts == <<listening, migrated, closed, ticking, manager>>
vars == <<phase, started, signalled, listening, migrated, closed, ticking,
          manager, active, met, cut>>

Actors == Requests \cup Jobs \cup Restores

(* How the process ends: the hooks are stopped, after a signal or after a   *)
(* failed start; a deadline; a signal that kills; a panic.                  *)
Ends == {"stopped", "failed", "deadline", "killed", "panicked"}

TypeOK ==
  /\ phase \in {"starting", "running", "stopping", "rollback"} \cup Ends
  /\ started \in 0..5
  /\ {signalled, listening, migrated, closed, ticking} \subseteq BOOLEAN
  /\ manager \in {"none", "running", "told"}
  /\ active \in SUBSET Actors
  /\ met \in [Actors -> SUBSET {"no tables", "closed"}]
  /\ cut \in SUBSET Actors

(* Mutant: cron.RegisterJobs is invoked before the handlers are registered. *)
JobsFirst == <<"cron", "http", "db", "worker", "manager">>

(* Mutant: cmd/server.go invokes RunManager twice.                          *)
ManagerTwice == <<"http", "db", "cron", "worker", "manager", "manager">>

(* RegisterHandler wants the engine, then the database; RegisterJobs wants  *)
(* the scheduler; RunManager wants the reconciler before it adds its own.   *)
Hooks == <<"http", "db", "cron", "worker", "manager">>

(* gorm.Open has connected; the tables of an earlier process may be there.  *)
Init ==
  /\ phase = "starting" /\ started = 0 /\ signalled = FALSE
  /\ listening = FALSE /\ closed = FALSE /\ ticking = FALSE /\ manager = "none"
  /\ migrated \in BOOLEAN
  /\ active = {} /\ met = [x \in Actors |-> {}] /\ cut = {}

Alive == phase \notin Ends

Exit(end) == phase' = end /\ cut' = active /\ active' = {}

-----------------------------------------------------------------------------
(* OnStart, hook by hook.                                                   *)
Starts(hook) ==
  /\ phase = "starting"
  /\ started < Len(Hooks)
  /\ Hooks[started + 1] = hook
  /\ started' = started + 1
  /\ UNCHANGED <<phase, signalled, active, met, cut>>

(* The hook does not wait until the socket is bound.                        *)
StartHttp ==
  /\ Starts("http")
  /\ listening' = TRUE
  /\ UNCHANGED <<migrated, closed, ticking, manager>>

StartDB ==
  /\ Starts("db")
  /\ migrated' = TRUE
  /\ UNCHANGED <<listening, closed, ticking, manager>>

(* AutoMigrate fails: the hook does not count as started.                   *)
MigrationFails ==
  /\ phase = "starting"
  /\ started < Len(Hooks) /\ Hooks[started + 1] = "db"
  /\ phase' = "rollback"
  /\ UNCHANGED <<started, signalled, parts, active, met, cut>>

StartCron ==
  /\ Starts("cron")
  /\ ticking' = TRUE
  /\ UNCHANGED <<listening, migrated, closed, manager>>

(* The second dispatcher; the first one runs since the construction.        *)
StartWorker == Starts("worker") /\ UNCHANGED parts

(* SetupSignalHandler is called here: an earlier signal has killed.         *)
StartManager ==
  /\ Starts("manager")
  /\ manager' = "running"
  /\ UNCHANGED <<listening, migrated, closed, ticking>>

Started ==
  /\ phase = "starting"
  /\ started = Len(Hooks)
  /\ phase' = "running"
  /\ UNCHANGED <<started, signalled, parts, active, met, cut>>

-----------------------------------------------------------------------------
(* Until SetupSignalHandler a signal kills.  Then controller-runtime ends   *)
(* the manager at the first and the process at the second.  fx listens in   *)
(* Wait alone, so a first signal before that ends nothing but the manager.  *)
Signal ==
  /\ Alive
  /\ \/ /\ manager = "running"
        /\ manager' = "told"
        /\ signalled' = (phase = "running")
        /\ UNCHANGED <<phase, active, cut>>
     \/ /\ manager # "running"
        /\ Exit("killed")
        /\ UNCHANGED <<signalled, manager>>
  /\ UNCHANGED <<started, listening, migrated, closed, ticking, met>>

StopBegins ==
  /\ phase = "running"
  /\ signalled
  /\ phase' = "stopping"
  /\ UNCHANGED <<started, signalled, parts, active, met, cut>>

(* OnStop, in reverse.                                                      *)
Stopping(hook) ==
  /\ phase \in {"stopping", "rollback"}
  /\ started > 0
  /\ Hooks[started] = hook
  /\ UNCHANGED <<phase, signalled, active, met, cut>>

(* Their OnStop only logs: the manager ends by the signal itself, and       *)
(* nothing ends the goroutines that restore.                                *)
StopManagerOrWorker ==
  /\ Stopping("manager") \/ Stopping("worker")
  /\ started' = started - 1
  /\ UNCHANGED parts

(* c.Stop(): no job is started any more, and those in flight are awaited.   *)
StopCron ==
  /\ Stopping("cron")
  /\ ticking
  /\ ticking' = FALSE
  /\ UNCHANGED <<started, listening, migrated, closed, manager>>

(* Mutant: the context of c.Stop() is not waited for.                       *)
CronNotAwaited ==
  /\ Stopping("cron")
  /\ ~ticking
  /\ started' = started - 1
  /\ UNCHANGED parts

CronStopped ==
  /\ Stopping("cron")
  /\ ~ticking
  /\ active \cap Jobs = {}
  /\ started' = started - 1
  /\ UNCHANGED parts

StopDB ==
  /\ Stopping("db")
  /\ closed' = TRUE
  /\ started' = started - 1
  /\ UNCHANGED <<listening, migrated, ticking, manager>>

(* srv.Shutdown: the listener is closed, then requests are awaited.         *)
StopHttp ==
  /\ Stopping("http")
  /\ listening
  /\ listening' = FALSE
  /\ UNCHANGED <<started, migrated, closed, ticking, manager>>

(* Mutant: srv.Close instead of srv.Shutdown.                               *)
HttpClosed ==
  /\ Stopping("http")
  /\ ~listening
  /\ started' = started - 1
  /\ UNCHANGED parts

HttpStopped ==
  /\ Stopping("http")
  /\ ~listening
  /\ active \cap Requests = {}
  /\ started' = started - 1
  /\ UNCHANGED parts

Stopped ==
  /\ phase \in {"stopping", "rollback"}
  /\ started = 0
  /\ Exit(IF phase = "stopping" THEN "stopped" ELSE "failed")
  /\ UNCHANGED <<started, signalled, parts, met>>

(* Mutant: Start and Stop(context.Background()) instead of Run.             *)
DeadlineOfStart ==
  /\ phase = "starting"
  /\ Exit("deadline")
  /\ UNCHANGED <<started, signalled, parts, met>>

(* The start context and the stop context of fx last 15 seconds; whichever  *)
(* hook is waited for by then, the process exits.                           *)
Deadline ==
  /\ phase \in {"starting", "stopping", "rollback"}
  /\ Exit("deadline")
  /\ UNCHANGED <<started, signalled, parts, met>>

(* The address is in use: nothing recovers the panic.                       *)
ListenFails ==
  /\ Alive
  /\ listening
  /\ Exit("panicked")
  /\ UNCHANGED <<started, signalled, parts, met>>

(* A restore indexes an empty list of answers: nothing recovers that panic. *)
RestorePanics(w) ==
  /\ Alive
  /\ w \in active
  /\ Exit("panicked")
  /\ UNCHANGED <<started, signalled, parts, met>>

-----------------------------------------------------------------------------
(* The goroutines beside the main one.                                      *)
Begins(x) ==
  /\ Alive
  /\ x \notin active
  /\ active' = active \cup {x}
  /\ UNCHANGED <<phase, started, signalled, parts, met, cut>>

RequestBegins(q) == listening /\ Begins(q)

(* SkipIfStillRunning.                                                      *)
JobBegins(j) == ticking /\ Begins(j)

(* Only Reconcile sends to the dispatchers, so no restore begins before the *)
(* manager runs; the dispatchers go on after it has ended.                  *)
RestoreBegins(w) == manager # "none" /\ Begins(w)

Statement(x) ==
  /\ Alive
  /\ x \in active
  /\ met' = [met EXCEPT ![x] = @ \cup (IF closed THEN {"closed"}
                                       ELSE IF migrated THEN {} ELSE {"no tables"})]
  /\ UNCHANGED <<phase, started, signalled, parts, active, cut>>

Ended(x) ==
  /\ Alive
  /\ x \in active
  /\ active' = active \ {x}
  /\ UNCHANGED <<phase, started, signalled, parts, met, cut>>

Main ==
  \/ StartHttp \/ StartCron \/ StartWorker \/ StartManager \/ Started
  \/ StopBegins \/ StopManagerOrWorker \/ StopCron \/ CronStopped \/ StopDB
  \/ StopHttp \/ HttpStopped \/ Stopped

Next ==
  \/ Main
  \/ StartDB \/ MigrationFails
  \/ Signal \/ Deadline \/ ListenFails
  \/ \E q \in Requests : RequestBegins(q)
  \/ \E j \in Jobs : JobBegins(j)
  \/ \E w \in Restores : RestoreBegins(w) \/ RestorePanics(w)
  \/ \E x \in Actors : Statement(x) \/ Ended(x)

Spec == Init /\ [][Next]_vars

(* The main goroutine runs and deadlines pass; nothing makes a request, a   *)
(* job, a restore or the migration end.                                     *)
FairSpec == Spec /\ WF_vars(Main) /\ WF_vars(Deadline)

-----------------------------------------------------------------------------
(* The cron jobs only ever write to tables that are there, in a database    *)
(* that is open, and a restore never looks for its row before there are     *)
(* tables: the order of the hooks sees to it.  (Requests may come before    *)
(* the migration, and both requests and restores go on when the database    *)
(* has been closed.)                                                        *)
TablesAreThere ==
  /\ \A j \in Jobs : met[j] = {}
  /\ \A w \in Restores : "no tables" \notin met[w]

(* Unless a deadline passes, a signal kills (a second one, or one before    *)
(* the manager is started) or the HTTP server or a restore panics, no       *)
(* request and no job is cut off, after a failed start neither.             *)
OrderlyExitCutsNobody ==
  phase \in {"stopped", "failed"} => cut \subseteq Restores

(* A start comes to an end, and so does the process once fx has got a       *)
(* signal, also when a request, a job or the migration never does.          *)
StartAndStopEnd ==
  /\ phase \in {"starting", "rollback"} ~> phase \in Ends \cup {"running"}
  /\ signalled ~> phase \in Ends
=============================================================================
