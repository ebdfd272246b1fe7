--------------------------- MODULE WorkerRecorder ---------------------------
(***************************************************************************)
(* WorkerRecorderService for one BullMQ queue, and the leader callbacks of *)
(* WorkerRunnerService that start and stop it: src/src/services/worker/    *)
(* recorder.ts and runner.ts.                                              *)
(*                                                                         *)
(* Every process has a recorder; LeaderService elects the one that starts  *)
(* it, but a lease can lapse unnoticed, so two may run at once. A start is *)
(* named by a token; the QueueEvents observer it opens has the same name.  *)
(* A Redis or database call is a step that may fail, with its effect done  *)
(* or not done.                                                            *)
(***************************************************************************)
EXTENDS Integers, FiniteSets

CONSTANTS
  Procs,      \* worker processes
  Jobs,       \* jobs of the queue
  OptOut,     \* jobs with recordToDatabase: false
  NoJob,      \* a drain awaits no job
  MaxStarts,  \* bound: times a process is elected
  MaxLosses,  \* bound: leadership losses, outages and crashes
  MaxFaults   \* bound: Redis or database calls that fail

VARIABLES
  unfinished,  \* jobs that are not terminal yet
  terminal,    \* BullMQ: completed and failed jobs
  db,          \* rows of the _jobs table
  leading,     \* LeaderService.isLeader, per process
  token,       \* starts so far, per process
  pending,     \* pendingStarts.get(queue): token, or 0
  observer,    \* observers.get(queue): token, or 0
  starts,      \* startObserver() calls before their drain
  drains,      \* drainTerminalBullMqJobs() calls in progress
  tasks,       \* terminalJobTasks
  events,      \* terminal events not yet delivered to an observer
  stopping,    \* the latest stop() is "no", "closing" or "waiting"
  awaited,     \* jobs whose tasks the latest stop() awaits
  quiet,       \* history: a stop() resolved and no start() came since
  losses, faults

job_vars == <<unfinished, terminal, db>>
stop_vars == <<stopping, awaited, quiet>>
vars == <<job_vars, leading, token, pending, observer, starts, drains, tasks,
          events, stop_vars, losses, faults>>

\* "table" awaits ensureTableExists(), "ready" awaits waitUntilReady().
Starts == [proc : Procs, tok : Nat, stage : {"table", "ready"}]

\* A drain of an observer: jobs left of the page it read, the job it awaits,
\* and whether startObserver() awaits it (otherwise onReady() began it).
Drains == [proc : Procs, tok : Nat, page : SUBSET Jobs,
           job : Jobs \cup {NoJob}, starting : BOOLEAN]

\* recordTerminalBullMqJob() awaits getJob(), record() or remove().
Tasks == [proc : Procs, job : Jobs, stage : {"lookup", "record", "remove"}]

TypeOK ==
  /\ unfinished \in SUBSET Jobs
  /\ terminal \in SUBSET Jobs
  /\ db \in SUBSET Jobs
  /\ leading \in [Procs -> BOOLEAN]
  /\ token \in [Procs -> Nat]
  /\ pending \in [Procs -> Nat]
  /\ observer \in [Procs -> Nat]
  /\ starts \in SUBSET Starts
  /\ drains \in SUBSET Drains
  /\ tasks \in SUBSET Tasks
  /\ \A t, u \in tasks : t.proc = u.proc /\ t.job = u.job => t = u
  /\ events \in SUBSET (Procs \X Jobs)
  /\ stopping \in [Procs -> {"no", "closing", "waiting"}]
  /\ awaited \in [Procs -> SUBSET Jobs]
  /\ quiet \in [Procs -> BOOLEAN]
  /\ losses \in Nat
  /\ faults \in Nat

Init ==
  /\ unfinished = Jobs
  /\ terminal = {}
  /\ db = {}
  /\ leading = [p \in Procs |-> FALSE]
  /\ token = [p \in Procs |-> 0]
  /\ pending = [p \in Procs |-> 0]
  /\ observer = [p \in Procs |-> 0]
  /\ starts = {}
  /\ drains = {}
  /\ tasks = {}
  /\ events = {}
  /\ stopping = [p \in Procs |-> "no"]
  /\ awaited = [p \in Procs |-> {}]
  /\ quiet = [p \in Procs |-> TRUE]
  /\ losses = 0
  /\ faults = 0

EventsOf(p) == {e \in events : e[1] = p}
TaskJobs(p) == {t.job : t \in {u \in tasks : u.proc = p}}

CanFail == faults < MaxFaults /\ faults' = faults + 1

-----------------------------------------------------------------------------
(***************************************************************************)
(* start() and stop(), and the leader callbacks that call them.            *)
(***************************************************************************)

\* start(): a pending start is joined, an open observer is enough, and
\* otherwise startObserver() begins with ensureTableExists().
start(p) ==
  /\ token' = [token EXCEPT ![p] = @ + 1]
  /\ quiet' = [quiet EXCEPT ![p] = FALSE]
  /\ IF pending[p] # 0 \/ observer[p] # 0
     THEN UNCHANGED <<pending, starts>>
     ELSE /\ pending' = [pending EXCEPT ![p] = token'[p]]
          /\ starts' = starts \cup
               {[proc |-> p, tok |-> token'[p], stage |-> "table"]}

\* stop(), up to the close of the observer: pending starts are disowned and
\* the observer is no longer the queue's.
stop(p) ==
  /\ pending' = [pending EXCEPT ![p] = 0]
  /\ observer' = [observer EXCEPT ![p] = 0]
  /\ events' = events \ EventsOf(p)
  /\ stopping' = [stopping EXCEPT ![p] = "closing"]
  /\ UNCHANGED <<awaited, quiet>>

becameLeader(p) ==
  /\ ~leading[p]
  /\ token[p] < MaxStarts
  /\ leading' = [leading EXCEPT ![p] = TRUE]
  /\ start(p)
  /\ UNCHANGED <<job_vars, observer, drains, tasks, events, stopping, awaited,
                 losses, faults>>

lostLeader(p) ==
  /\ leading[p]
  /\ losses < MaxLosses
  /\ losses' = losses + 1
  /\ leading' = [leading EXCEPT ![p] = FALSE]
  /\ stop(p)
  /\ UNCHANGED <<job_vars, token, starts, drains, tasks, faults>>

\* Mutant: the tasks in flight are not awaited.
StopClosedForgets(p) ==
  /\ stopping[p] = "closing"
  /\ stopping' = [stopping EXCEPT ![p] = "waiting"]
  /\ awaited' = [awaited EXCEPT ![p] = {}]
  /\ UNCHANGED <<job_vars, leading, token, pending, observer, starts, drains,
                 tasks, events, quiet, losses, faults>>

\* The observer has closed: stop() awaits the tasks in flight by now.
StopClosed(p) ==
  /\ stopping[p] = "closing"
  /\ stopping' = [stopping EXCEPT ![p] = "waiting"]
  /\ awaited' = [awaited EXCEPT ![p] = TaskJobs(p)]
  /\ UNCHANGED <<job_vars, leading, token, pending, observer, starts, drains,
                 tasks, events, quiet, losses, faults>>

StopResolves(p) ==
  /\ stopping[p] = "waiting"
  /\ awaited[p] \cap TaskJobs(p) = {}
  /\ stopping' = [stopping EXCEPT ![p] = "no"]
  /\ quiet' = [quiet EXCEPT ![p] = ~leading[p]]
  /\ UNCHANGED <<job_vars, leading, token, pending, observer, starts, drains,
                 tasks, events, awaited, losses, faults>>

-----------------------------------------------------------------------------
(***************************************************************************)
(* startObserver().                                                        *)
(***************************************************************************)

\* The start named tok settles: its finally removes it if still pending.
NotPending(p, tok) ==
  [pending EXCEPT ![p] = IF @ = tok THEN 0 ELSE @]

\* The start fails: its observer is closed, and becameLeader's rejection
\* makes LeaderService give up the acquisition it belongs to, if it is still
\* the current one, which calls stop().
StartFails(p, tok) ==
  IF leading[p] /\ token[p] = tok
  THEN leading' = [leading EXCEPT ![p] = FALSE] /\ stop(p)
  ELSE /\ leading' = leading
       /\ pending' = NotPending(p, tok)
       /\ observer' = [observer EXCEPT ![p] = IF @ = tok THEN 0 ELSE @]
       /\ events' = IF observer[p] = tok THEN events \ EventsOf(p) ELSE events
       /\ UNCHANGED stop_vars

\* ensureTableExists() resolves: unless stop() came meanwhile (isCurrent()),
\* the observer is opened.
TableExists(s) ==
  /\ s.stage = "table"
  /\ IF pending[s.proc] = s.tok
     THEN /\ observer' = [observer EXCEPT ![s.proc] = s.tok]
          /\ starts' = (starts \ {s}) \cup {[s EXCEPT !.stage = "ready"]}
     ELSE /\ starts' = starts \ {s}
          /\ UNCHANGED observer
  /\ UNCHANGED <<job_vars, leading, token, pending, drains, tasks, events,
                 stop_vars, losses, faults>>

Drain(p, tok, starting) ==
  [proc |-> p, tok |-> tok, page |-> {}, job |-> NoJob, starting |-> starting]

\* waitUntilReady() resolves: if the observer is still the queue's, the
\* ready listeners are installed and the terminal jobs are drained.
ObserverReady(s) ==
  /\ s.stage = "ready"
  /\ starts' = starts \ {s}
  /\ IF observer[s.proc] = s.tok
     THEN drains' = drains \cup {Drain(s.proc, s.tok, TRUE)} /\ UNCHANGED pending
     ELSE pending' = NotPending(s.proc, s.tok) /\ UNCHANGED drains
  /\ UNCHANGED <<job_vars, leading, token, observer, tasks, events, stop_vars,
                 losses, faults>>

StartCallFails(s) ==
  /\ CanFail
  /\ starts' = starts \ {s}
  /\ StartFails(s.proc, s.tok)
  /\ UNCHANGED <<job_vars, token, drains, tasks, losses>>

-----------------------------------------------------------------------------
(***************************************************************************)
(* drainTerminalBullMqJobs().                                              *)
(***************************************************************************)

\* The drain returns; a start that awaited it settles.
DrainReturns(d) ==
  /\ drains' = drains \ {d}
  /\ pending' = IF d.starting THEN NotPending(d.proc, d.tok) ELSE pending
  /\ UNCHANGED tasks

\* The next page: the loop ends when the observer is no longer the queue's
\* or both terminal sets are empty (read here in one step).
DrainRead(d) ==
  /\ d.page = {} /\ d.job = NoJob
  /\ IF observer[d.proc] # d.tok \/ terminal = {}
     THEN DrainReturns(d)
     ELSE /\ drains' = (drains \ {d}) \cup {[d EXCEPT !.page = terminal]}
          /\ UNCHANGED <<pending, tasks>>
  /\ UNCHANGED <<job_vars, leading, token, observer, starts, events,
                 stop_vars, losses, faults>>

\* queueTerminalBullMqJob(): a task of the job is joined, or one begins.
queueTerminalBullMqJob(p, j) ==
  tasks' = IF j \in TaskJobs(p) THEN tasks
           ELSE tasks \cup {[proc |-> p, job |-> j, stage |-> "lookup"]}

\* The next job of the page, whose task is awaited.
DrainNext(d, j) ==
  /\ d.job = NoJob /\ j \in d.page
  /\ IF observer[d.proc] # d.tok
     THEN DrainReturns(d)
     ELSE /\ drains' = (drains \ {d}) \cup
                         {[d EXCEPT !.page = @ \ {j}, !.job = j]}
          /\ queueTerminalBullMqJob(d.proc, j)
          /\ UNCHANGED pending
  /\ UNCHANGED <<job_vars, leading, token, observer, starts, events,
                 stop_vars, losses, faults>>

\* getJobs() fails: a start that awaited the drain fails.
DrainReadFails(d) ==
  /\ d.page = {} /\ d.job = NoJob
  /\ observer[d.proc] = d.tok
  /\ CanFail
  /\ drains' = drains \ {d}
  /\ IF d.starting THEN StartFails(d.proc, d.tok)
     ELSE UNCHANGED <<leading, pending, observer, events, stop_vars>>
  /\ UNCHANGED <<job_vars, token, starts, tasks, losses>>

-----------------------------------------------------------------------------
(***************************************************************************)
(* recordTerminalBullMqJob().                                              *)
(***************************************************************************)

\* Drains that await a task of job j in process p.
Awaiting(p, j) == {d \in drains : d.proc = p /\ d.job = j}

TaskResolves(t) ==
  /\ tasks' = tasks \ {t}
  /\ drains' = (drains \ Awaiting(t.proc, t.job)) \cup
                 {[d EXCEPT !.job = NoJob] : d \in Awaiting(t.proc, t.job)}

TaskAdvances(t, stage) ==
  /\ tasks' = (tasks \ {t}) \cup {[t EXCEPT !.stage = stage]}
  /\ UNCHANGED drains

\* Mutant: the job is removed while its record is still to be written.
LookupRemovesFirst(t) ==
  /\ t.stage = "lookup"
  /\ terminal' = terminal \ {t.job}
  /\ TaskAdvances(t, "record")
  /\ UNCHANGED <<unfinished, db, leading, token, pending, observer, starts,
                 events, stop_vars, losses, faults>>

\* getJob(): a job another recorder removed needs nothing more.
Lookup(t) ==
  /\ t.stage = "lookup"
  /\ IF t.job \in terminal THEN TaskAdvances(t, "record") ELSE TaskResolves(t)
  /\ UNCHANGED <<job_vars, leading, token, pending, observer, starts, events,
                 stop_vars, losses, faults>>

\* record(): the insert ignores a row that exists already.
Record(t) ==
  /\ t.stage = "record"
  /\ db' = IF t.job \in OptOut THEN db ELSE db \cup {t.job}
  /\ TaskAdvances(t, "remove")
  /\ UNCHANGED <<unfinished, terminal, leading, token, pending, observer,
                 starts, events, stop_vars, losses, faults>>

\* job.remove()
Remove(t) ==
  /\ t.stage = "remove"
  /\ terminal' = terminal \ {t.job}
  /\ TaskResolves(t)
  /\ UNCHANGED <<unfinished, db, leading, token, pending, observer, starts,
                 events, stop_vars, losses, faults>>

\* A call of the task fails, its effect done or not. An event's task is
\* only logged; a drain that awaits it fails, and with it a start (of which
\* only the latest has an observer or a lease to give up).
TaskFails(t) ==
  /\ CanFail
  /\ tasks' = tasks \ {t}
  /\ drains' = drains \ Awaiting(t.proc, t.job)
  /\ terminal' \in {terminal, IF t.stage = "remove" THEN terminal \ {t.job}
                              ELSE terminal}
  /\ db' \in {db, IF t.stage = "record" /\ t.job \notin OptOut
                  THEN db \cup {t.job} ELSE db}
  /\ LET failed == {d \in Awaiting(t.proc, t.job) : d.starting}
     IN IF failed = {}
        THEN UNCHANGED <<leading, pending, observer, events, stop_vars>>
        ELSE \E d \in failed :
               /\ \A e \in failed : e.tok <= d.tok
               /\ StartFails(d.proc, d.tok)
  /\ UNCHANGED <<unfinished, token, starts, losses>>

-----------------------------------------------------------------------------
(***************************************************************************)
(* The environment: jobs, events, outages and crashes (external), and the  *)
(* handlers of the observer's events.                                      *)
(***************************************************************************)

Listening(p) ==
  /\ observer[p] # 0
  /\ \A s \in starts : ~(s.proc = p /\ s.tok = observer[p])

\* BullMQ moves a job to a terminal set and publishes the event.
Finish(j) ==
  /\ j \in unfinished
  /\ unfinished' = unfinished \ {j}
  /\ terminal' = terminal \cup {j}
  /\ events' = events \cup {<<p, j>> : p \in {q \in Procs : Listening(q)}}
  /\ UNCHANGED <<db, leading, token, pending, observer, starts, drains, tasks,
                 stop_vars, losses, faults>>

\* observer.on('completed') and observer.on('failed')
TerminalEvent(p, j) ==
  /\ <<p, j>> \in events
  /\ events' = events \ {<<p, j>>}
  /\ queueTerminalBullMqJob(p, j)
  /\ UNCHANGED <<job_vars, leading, token, pending, observer, starts, drains,
                 stop_vars, losses, faults>>

\* Mutant: an outage is survived without another drain.
onReadyIgnored(p) ==
  /\ Listening(p)
  /\ losses < MaxLosses
  /\ losses' = losses + 1
  /\ events' = events \ EventsOf(p)
  /\ UNCHANGED <<job_vars, leading, token, pending, observer, starts, drains,
                 tasks, stop_vars, faults>>

\* An outage loses the events in flight; onReady() drains again.
onReady(p) ==
  /\ Listening(p)
  /\ losses < MaxLosses
  /\ losses' = losses + 1
  /\ events' = events \ EventsOf(p)
  /\ drains' = drains \cup {Drain(p, observer[p], FALSE)}
  /\ UNCHANGED <<job_vars, leading, token, pending, observer, starts, tasks,
                 stop_vars, faults>>

\* The process dies and is started again; its lease lapses.
Crash(p) ==
  /\ losses < MaxLosses
  /\ losses' = losses + 1
  /\ leading' = [leading EXCEPT ![p] = FALSE]
  /\ pending' = [pending EXCEPT ![p] = 0]
  /\ observer' = [observer EXCEPT ![p] = 0]
  /\ starts' = {s \in starts : s.proc # p}
  /\ drains' = {d \in drains : d.proc # p}
  /\ tasks' = {t \in tasks : t.proc # p}
  /\ events' = events \ EventsOf(p)
  /\ stopping' = [stopping EXCEPT ![p] = "no"]
  /\ awaited' = [awaited EXCEPT ![p] = {}]
  /\ quiet' = [quiet EXCEPT ![p] = TRUE]
  /\ UNCHANGED <<job_vars, token, faults>>

-----------------------------------------------------------------------------
Next ==
  \/ \E p \in Procs :
       \/ becameLeader(p)
       \/ lostLeader(p)
       \/ StopClosed(p)
       \/ StopResolves(p)
       \/ \E j \in Jobs : TerminalEvent(p, j)
       \/ onReady(p)
       \/ Crash(p)
  \/ \E s \in starts : TableExists(s) \/ ObserverReady(s) \/ StartCallFails(s)
  \/ \E d \in drains :
       \/ DrainRead(d)
       \/ \E j \in d.page : DrainNext(d, j)
       \/ DrainReadFails(d)
  \/ \E t \in tasks : Lookup(t) \/ Record(t) \/ Remove(t) \/ TaskFails(t)
  \/ \E j \in Jobs : Finish(j)

Spec == Init /\ [][Next]_vars

(***************************************************************************)
(* A free lease is acquired, and what a process awaits arrives. Losses,    *)
(* outages and crashes are not forced, and are bounded by MaxLosses.       *)
(***************************************************************************)
FreeLeaseAcquired ==
  /\ \A q \in Procs : ~leading[q]
  /\ \E p \in Procs : becameLeader(p)

Progress ==
  \/ FreeLeaseAcquired
  \/ \E p \in Procs, j \in Jobs : TerminalEvent(p, j)
  \/ \E s \in starts : TableExists(s) \/ ObserverReady(s)
  \/ \E d \in drains : DrainRead(d) \/ \E j \in d.page : DrainNext(d, j)
  \/ \E t \in tasks : Lookup(t) \/ Record(t) \/ Remove(t)

FairSpec == Spec /\ WF_vars(Progress)

-----------------------------------------------------------------------------
(***************************************************************************)
(* Properties.                                                             *)
(***************************************************************************)

\* A job leaves BullMQ only after its row is in the database, whichever
\* process, task or failed call removed it (unless it opted out).
RecordedBeforeRemoved ==
  Jobs \ (OptOut \cup unfinished \cup terminal) \subseteq db

\* A recorder without leadership has no observer open: a start that was
\* pending when leadership was lost never opens one, also when a newer start
\* is pending by then.
ObserverFollowsLeadership ==
  \A p \in Procs : observer[p] # 0 => leading[p]

\* A process that keeps its lease has a recorder behind it: an open
\* observer, or a start still on its way to one.
LeaseHasRecorder ==
  \A p \in Procs : leading[p] => observer[p] # 0 \/ pending[p] # 0

\* When stop() resolves, no task of the process touches Redis or the
\* database until the next start().
StopQuiesces ==
  \A p \in Procs : quiet[p] => TaskJobs(p) = {}

\* Until a Redis or database call fails, every terminal job is recorded and
\* removed, across leadership losses, outages and crashes at any point. (An
\* event whose task fails is only logged, and its job waits for a new drain.)
Drained == terminal = {} \/ faults > 0
TerminalJobsDrained == []<>Drained

-----------------------------------------------------------------------------
(***************************************************************************)
(* The purge loop of WorkerRecorderService that deletes expired job        *)
(* records, src/src/services/worker/recorder.ts, in the process elected to *)
(* run it. becameLeader calls startRetention(), lostLeader and shutdown    *)
(* call stopRetention(), and a batch may still be in flight at either.     *)
(***************************************************************************)

CONSTANTS
  Timers,     \* timer handles, which also bound the timers armed at once
  NoTimer,    \* this.retentionTimer === undefined
  MaxStops    \* bound: stopRetention() calls that wait at once

VARIABLES
  retentionRunning,  \* this.retentionRunning
  armed,             \* timers that have not fired nor been cleared
  retentionTimer,    \* this.retentionTimer
  batches,           \* purgeExpiredBatch() executions in flight
  retentionTask,     \* this.retentionTask !== undefined
  callbacks,         \* timer callbacks awaiting purgeExpiredRecords()
  stops              \* stopRetention() calls awaiting this.retentionTask

varsRetention == <<retentionRunning, armed, retentionTimer, batches, retentionTask,
          callbacks, stops>>

RetentionTypeOK ==
  /\ retentionRunning \in BOOLEAN
  /\ armed \in SUBSET Timers
  /\ retentionTimer \in Timers \cup {NoTimer}
  /\ batches \in Nat
  /\ retentionTask \in BOOLEAN
  /\ callbacks \in Nat
  /\ stops \in Nat

InitRetention ==
  /\ retentionRunning = FALSE
  /\ armed = {}
  /\ retentionTimer = NoTimer
  /\ batches = 0
  /\ retentionTask = FALSE
  /\ callbacks = 0
  /\ stops = 0

-----------------------------------------------------------------------------
\* scheduleRetention(), n times: n fresh timers are armed, and the last one
\* is remembered.
scheduleRetention(n) ==
  \E new \in SUBSET (Timers \ armed) :
    /\ Cardinality(new) = n
    /\ armed' = armed \cup new
    /\ IF n = 0 THEN UNCHANGED retentionTimer ELSE retentionTimer' \in new

Loops == Cardinality(armed) + callbacks

startRetention ==
  /\ ~retentionRunning
  /\ Loops < Cardinality(Timers)
  /\ retentionRunning' = TRUE
  /\ scheduleRetention(1)
  /\ UNCHANGED <<batches, retentionTask, callbacks, stops>>

\* stopRetention(): clear the remembered timer, then await a running batch.
stopRetention ==
  /\ stops < MaxStops
  /\ retentionRunning' = FALSE
  /\ armed' = armed \ {retentionTimer}
  /\ retentionTimer' = NoTimer
  /\ stops' = stops + (IF retentionTask THEN 1 ELSE 0)
  /\ UNCHANGED <<batches, retentionTask, callbacks>>

\* Mutant: every call of purgeExpiredRecords() starts a batch of its own.
TimerFiresAlone(t) ==
  /\ t \in armed
  /\ armed' = armed \ {t}
  /\ retentionTimer' = NoTimer
  /\ callbacks' = callbacks + 1
  /\ batches' = batches + 1
  /\ retentionTask' = TRUE
  /\ UNCHANGED <<retentionRunning, stops>>

\* A timer fires: its callback forgets this.retentionTimer, whichever timer
\* that names, and awaits purgeExpiredRecords(), which joins a running batch
\* and starts one otherwise. It does not look at retentionRunning.
TimerFires(t) ==
  /\ t \in armed
  /\ armed' = armed \ {t}
  /\ retentionTimer' = NoTimer
  /\ callbacks' = callbacks + 1
  /\ batches' = batches + (IF retentionTask THEN 0 ELSE 1)
  /\ retentionTask' = TRUE
  /\ UNCHANGED <<retentionRunning, stops>>

\* Mutant: a callback whose batch failed does not schedule the next one.
BatchSettlesOnSuccess ==
  /\ batches > 0
  /\ batches' = batches - 1
  /\ retentionTask' = FALSE
  /\ callbacks' = 0
  /\ \/ scheduleRetention(IF retentionRunning THEN callbacks ELSE 0)
     \/ UNCHANGED <<armed, retentionTimer>>
  /\ stops' = 0
  /\ UNCHANGED retentionRunning

\* purgeExpiredBatch() settles, with rows deleted or with an error, and the
\* microtasks it releases run: retentionTask is reset, each callback that
\* awaited it schedules its next timer if the loop is running, and every
\* stopRetention() that awaited it resolves.
BatchSettles ==
  /\ batches > 0
  /\ batches' = batches - 1
  /\ retentionTask' = FALSE
  /\ callbacks' = 0
  /\ scheduleRetention(IF retentionRunning THEN callbacks ELSE 0)
  /\ stops' = 0
  /\ UNCHANGED retentionRunning

NextRetention ==
  \/ startRetention
  \/ stopRetention
  \/ \E t \in Timers : TimerFires(t)
  \/ BatchSettles

SpecRetention == InitRetention /\ [][NextRetention]_varsRetention

(***************************************************************************)
(* Timers fire and a batch settles, since the database answers or fails.   *)
(***************************************************************************)
ProgressRetention == (\E t \in Timers : TimerFires(t)) \/ BatchSettles

FairSpecRetention == SpecRetention /\ WF_varsRetention(ProgressRetention)

-----------------------------------------------------------------------------
(***************************************************************************)
(* Properties.                                                             *)
(***************************************************************************)

\* However loops overlap, at most one batch runs at a time, and
\* this.retentionTask names it exactly while it runs.
BatchesSerial == batches = IF retentionTask THEN 1 ELSE 0

\* A loop that keeps running purges again and again: errors, and stops and
\* restarts in the middle of a batch, never leave it without a timer.
Purging == retentionRunning => batches > 0
PurgesForever == []<>Purging
=============================================================================
