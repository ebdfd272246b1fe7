---------------------------- MODULE WorkerRunner ----------------------------
(* WorkerRunnerService with the in-process queue of the test environment: jobs *)
(* that are run at once, by a timer or by the drain of start(), the cron job   *)
(* whose every run schedules the next, and shutdown().                         *)
EXTENDS Integers, Sequences, FiniteSets

CONSTANTS MaxJobs,    \* bound on the jobs ever added
          MaxStarts   \* bound on start() calls

Ids == 1..MaxJobs

VARIABLES
    jobs,       \* the jobs added so far: [cron, due, status]
    queue,      \* WorkerQueueRegistry.queues: the jobs not removed yet
    running,
    timers,     \* jobs with a timer
    executing,  \* jobs in executeJob(), a function to who awaits them: "drain", "timer" or "direct"
    drain,      \* [left, on, failed]: drainReadyJobs() of start()
    shutdown,   \* "none", "waiting", "done": the latest shutdown() since the latest start()
    starts

vars == <<jobs, queue, running, timers, executing, drain, shutdown, starts>>

NoDrain == [left |-> <<>>, on |-> 0, failed |-> FALSE]

Init == /\ jobs = <<>> /\ queue = {} /\ running = FALSE /\ timers = {} /\ executing = <<>>
        /\ drain = NoDrain /\ shutdown = "none" /\ starts = 0

Executing == DOMAIN executing
Draining == drain.on # 0 \/ drain.left # <<>>
Job(cron, due) == [cron |-> cron, due |-> due, status |-> "queued"]
Executed(ex, j, by) == [i \in DOMAIN ex \cup {j} |-> IF i = j THEN by ELSE ex[i]]

\* hasQueuedRepeatJob(): in the queue js, qs.
HasQueuedRepeatJob(js, qs) == \E j \in qs : js[j].cron /\ js[j].status = "queued"

\* The jobs, the queue and the timers once the cron job is added and scheduled, unless one is
\* queued; MaxJobs bounds the chain.
Repeated(js, qs, ts) ==
    IF HasQueuedRepeatJob(js, qs) \/ Len(js) = MaxJobs THEN <<js, qs, ts>>
    ELSE <<Append(js, Job(TRUE, FALSE)), qs \cup {Len(js) + 1}, ts \cup {Len(js) + 1}>>

SetQueues(state) == jobs' = state[1] /\ queue' = state[2] /\ timers' = state[3]

-----------------------------------------------------------------------------
\* start(): scheduleCronJobs(), then the drain of everything queued.
Start ==
    /\ ~running /\ ~Draining /\ starts < MaxStarts /\ starts' = starts + 1
    /\ running' = TRUE /\ shutdown' = IF shutdown = "done" THEN "none" ELSE shutdown
    /\ LET state == Repeated(jobs, queue, timers)
       IN  /\ SetQueues(state)
           /\ drain' = [left |-> SelectSeq([j \in 1..Len(state[1]) |-> j], LAMBDA j : j \in state[2]),
                        on |-> 0, failed |-> FALSE]
    /\ UNCHANGED executing

\* queueJob(): a job for now or later; schedule() only while the runner runs.
QueueJob(delayed) ==
    /\ Len(jobs) < MaxJobs
    /\ LET j == Len(jobs) + 1
       IN  /\ jobs' = Append(jobs, Job(FALSE, ~delayed)) /\ queue' = queue \cup {j}
           /\ timers' = IF running /\ delayed THEN timers \cup {j} ELSE timers
           /\ executing' = IF running /\ ~delayed THEN Executed(executing, j, "timer") ELSE executing
    /\ UNCHANGED <<running, drain, shutdown, starts>>

\* runJob(), and queueJob() with runImmediately.
RunJob ==
    /\ Len(jobs) < MaxJobs
    /\ jobs' = Append(jobs, Job(FALSE, TRUE)) /\ queue' = queue \cup {Len(jobs) + 1}
    /\ executing' = Executed(executing, Len(jobs) + 1, "direct")
    /\ UNCHANGED <<running, timers, drain, shutdown, starts>>

\* shouldExecuteAt passes.
BecomesDue(j) ==
    /\ j <= Len(jobs) /\ ~jobs[j].due /\ jobs' = [jobs EXCEPT ![j].due = TRUE]
    /\ UNCHANGED <<queue, running, timers, executing, drain, shutdown, starts>>

\* Mutant: the next run is scheduled even while the runner stops.
RescheduleCronJobStopping(j, js, qs, ts) ==
    IF jobs[j].cron THEN Repeated(js, qs, ts) ELSE <<js, qs, ts>>

\* Mutant: only a run that succeeds schedules the next.
RescheduleCronJobCompleted(j, js, qs, ts) ==
    IF running /\ jobs[j].cron /\ jobs[j].status = "completed" THEN Repeated(js, qs, ts) ELSE <<js, qs, ts>>

\* rescheduleCronJob(), the finally of runScheduledJob().
RescheduleCronJob(j, js, qs, ts) ==
    IF running /\ jobs[j].cron THEN Repeated(js, qs, ts) ELSE <<js, qs, ts>>

\* The timer of schedule(): the job runs, whatever became of it meanwhile.
TimerFires(j) ==
    /\ j \in timers /\ jobs[j].due
    /\ IF j \in Executing
       THEN SetQueues(RescheduleCronJob(j, jobs, queue, timers \ {j})) /\ UNCHANGED executing
       ELSE /\ timers' = timers \ {j} /\ executing' = Executed(executing, j, "timer")
            /\ UNCHANGED <<jobs, queue>>
    /\ UNCHANGED <<running, drain, shutdown, starts>>

\* The next job of drainReadyJobs(): over already, for later, executing already (which throws
\* out of the loop), or run and awaited.
DrainReadyJobs ==
    /\ drain.left # <<>> /\ drain.on = 0
    /\ LET j == Head(drain.left)
           rest == [drain EXCEPT !.left = Tail(@)]
       IN  \/ /\ jobs[j].status # "queued" /\ drain' = rest
              /\ UNCHANGED <<jobs, queue, timers, executing>>
           \/ /\ jobs[j].status = "queued" /\ ~jobs[j].due /\ drain' = rest
              /\ timers' = IF running THEN timers \cup {j} ELSE timers
              /\ UNCHANGED <<jobs, queue, executing>>
           \/ /\ jobs[j].status = "queued" /\ jobs[j].due /\ j \in Executing
              /\ drain' = [NoDrain EXCEPT !.failed = TRUE]
              /\ SetQueues(RescheduleCronJob(j, jobs, queue, timers))
              /\ UNCHANGED executing
           \/ /\ jobs[j].status = "queued" /\ jobs[j].due /\ j \notin Executing
              /\ drain' = [rest EXCEPT !.on = j] /\ executing' = Executed(executing, j, "drain")
              /\ UNCHANGED <<jobs, queue, timers>>
    /\ UNCHANGED <<running, shutdown, starts>>

\* The handler settles: markCompleted() or markFailed(); the record is written next, and a
\* record that fails makes a completed job a failed one.
HandlerSettles(j, status) ==
    /\ j \in Executing /\ jobs[j].status \in {"queued", "completed"} /\ jobs[j].status # status
    /\ jobs' = [jobs EXCEPT ![j].status = status]
    /\ UNCHANGED <<queue, running, timers, executing, drain, shutdown, starts>>

\* The finally of executeJob(), and what the one who awaits it does.
JobEnds(j) ==
    /\ j \in Executing /\ jobs[j].status # "queued"
    /\ executing' = [i \in Executing \ {j} |-> executing[i]]
    /\ IF executing[j] = "direct" THEN SetQueues(<<jobs, queue \ {j}, timers>>)
       ELSE SetQueues(RescheduleCronJob(j, jobs, queue \ {j}, timers))
    /\ drain' = IF executing[j] # "drain" THEN drain
                ELSE IF jobs[j].status = "failed" THEN [NoDrain EXCEPT !.failed = TRUE]
                ELSE [drain EXCEPT !.on = 0]
    /\ UNCHANGED <<running, shutdown, starts>>

\* shutdown(): no timer is left, then it waits.
Shutdown ==
    /\ running \/ timers # {} \/ Executing # {}
    /\ running' = FALSE /\ timers' = {} /\ shutdown' = "waiting"
    /\ UNCHANGED <<jobs, queue, executing, drain, starts>>

\* The wait for executing to be empty.
ShutdownReturns ==
    /\ shutdown = "waiting" /\ Executing = {} /\ shutdown' = IF running THEN "none" ELSE "done"
    /\ UNCHANGED <<jobs, queue, running, timers, executing, drain, starts>>

Next == \/ Start \/ RunJob \/ DrainReadyJobs \/ Shutdown \/ ShutdownReturns
        \/ \E delayed \in BOOLEAN : QueueJob(delayed)
        \/ \E j \in Ids : \/ BecomesDue(j) \/ TimerFires(j) \/ JobEnds(j)
                          \/ \E status \in {"completed", "failed"} : HandlerSettles(j, status)

Spec == Init /\ [][Next]_vars

-----------------------------------------------------------------------------
\* The cron job's chain never breaks while the runner runs: the next run has a timer or the
\* current one is executing and will schedule it (rescheduleCronJob(), scheduleCronJobs()), in
\* whatever order timers, the drain, shutdown() and a new start() come.  A drain that throws
\* leaves the rest of the queue as it is, and is the exception.
CronChainLives ==
    (running /\ ~Draining /\ ~drain.failed /\ Len(jobs) < MaxJobs) =>
        \E j \in 1..Len(jobs) : jobs[j].cron /\ (j \in timers \/ j \in Executing)

\* After shutdown() and until the next start() no timer is armed and nothing that a timer
\* started is executing: only callers of runJob() and a drain of a start() that was under way
\* go on.
ShutdownQuiesces ==
    shutdown = "done" => timers = {} /\ \A j \in Executing : executing[j] # "timer"

-----------------------------------------------------------------------------
(* getCronDelayMs() of the in-process queue: what a cron field means and the   *)
(* search for the next time that matches, on a calendar with small units.      *)
(* The clock counts half seconds.                                              *)

CONSTANTS Seconds, Minutes, Days,   \* seconds of a minute, minutes of a day, days of a month
          Weekdays,                 \* days of a week
          MaxMinutes,               \* the minutes searched before nextCronDate() gives up
          Horizon                   \* bound on the clock, in half seconds

\* A part of a field: <<first, last, step>>; "*" is the whole range.
Parts(max) == (0..max + 1) \X (0..max + 1) \X (0..2)

VARIABLES now, cron, result

varsCron == <<now, cron, result>>

-----------------------------------------------------------------------------
\* getCronTimeGetter(): what the clock shows at second t.
CronTime(t) == [second |-> t % Seconds, minute |-> (t \div Seconds) % Minutes,
                day |-> ((t \div (Seconds * Minutes)) % Days) + 1,
                weekday |-> (t \div (Seconds * Minutes)) % Weekdays]

\* addCronPart() and parseCronRange(): the values of a part, or {-1} for the errors: a step of
\* zero, a range the wrong way round, a value outside.
AddCronPart(part, min, max) ==
    LET start == part[1]
        end == part[2]
        values == {v \in start..end : part[3] > 0 /\ (v - start) % part[3] = 0}
    IN  IF part[3] = 0 \/ start > end \/ values \ (min..max) # {} THEN {-1} ELSE values

\* parseCronField()
ParseCronField(parts, min, max) ==
    LET all == UNION {AddCronPart(p, min, max) : p \in parts}
    IN  IF -1 \in all THEN {-1} ELSE all

\* Mutant: the day of the month and the day of the week must both match.
MatchesCronMinuteBoth(time, c) ==
    time.minute \in c.minutes /\ time.day \in c.days /\ time.weekday \in c.weekdays

\* matchesCronMinute(): either day matches when both are restricted.
MatchesCronMinute(time, c) ==
    LET everyDay == Cardinality(c.days) = Days
        everyWeekday == Cardinality(c.weekdays) = Weekdays
    IN  /\ time.minute \in c.minutes
        /\ \/ everyDay /\ everyWeekday
           \/ everyDay /\ time.weekday \in c.weekdays
           \/ everyWeekday /\ time.day \in c.days
           \/ ~everyDay /\ ~everyWeekday /\ (time.day \in c.days \/ time.weekday \in c.weekdays)

\* The second that nextCronDate() picks in the minute of its candidate, if any.
SecondFrom(c, from) == {s \in c.seconds : s >= from /\ \A r \in c.seconds : r >= from => s <= r}

\* The candidate of an attempt: the second after now, then the minutes that follow.
Candidate(n, attempt) ==
    LET first == (n + 2) \div 2
    IN  IF attempt = 0 THEN first ELSE (first \div Seconds + attempt) * Seconds

\* What attempt finds: a second later than now, or nothing.
Attempt(c, n, attempt) ==
    LET t == Candidate(n, attempt)
        time == CronTime(t)
    IN  {u \in {t - time.second + s : s \in SecondFrom(c, time.second)} : MatchesCronMinute(time, c) /\ 2 * u > n}

\* nextCronDate(): the first attempt that finds a second, or -1 when it gives up.
NextCronDate(c, n) ==
    LET hits == {a \in 0..MaxMinutes - 1 : Attempt(c, n, a) # {}}
        first == CHOOSE a \in hits : \A b \in hits : a <= b
    IN  IF hits = {} THEN -1 ELSE CHOOSE u \in Attempt(c, n, first) : TRUE

-----------------------------------------------------------------------------
Field(min, max) == {{<<min, max, 1>>}} \cup {{p} : p \in {q \in Parts(max) : q[1] <= q[2] + 1}}

InitCron == /\ now = 0 /\ result = -2
            /\ \E s \in {{<<0, Seconds - 1, 1>>}, {<<0, 0, 1>>}, {<<1, 1, 1>>, <<Seconds - 1, Seconds - 1, 1>>}},
                  m \in Field(0, Minutes - 1), d \in Field(1, Days), w \in Field(0, Weekdays) :
                  cron = [seconds |-> ParseCronField(s, 0, Seconds - 1), minutes |-> ParseCronField(m, 0, Minutes - 1),
                          days |-> ParseCronField(d, 1, Days),
                          weekdays |-> LET all == ParseCronField(w, 0, Weekdays)
                                       IN  IF Weekdays \in all THEN (all \ {Weekdays}) \cup {0} ELSE all]

\* A schedule with an error throws before anything is searched.
Valid == \A f \in DOMAIN cron : -1 \notin cron[f]

\* getCronDelayMs()
GetCronDelayMs ==
    /\ result = -2 /\ result' = IF Valid THEN NextCronDate(cron, now) ELSE -3
    /\ UNCHANGED <<now, cron>>

\* The clock goes on and the next delay is asked for.
Tick == /\ result > -2 /\ now < Horizon /\ now' = now + 1 /\ result' = -2 /\ UNCHANGED cron

NextCron == GetCronDelayMs \/ Tick
SpecCron == InitCron /\ [][NextCron]_varsCron

-----------------------------------------------------------------------------
\* What a schedule means: a day is one of those that some restricted field names, or any.
Matches(t) ==
    LET time == CronTime(t)
        named == (IF cron.days = 1..Days THEN {} ELSE {time.day \in cron.days})
                 \cup (IF cron.weekdays = 0..Weekdays - 1 THEN {} ELSE {time.weekday \in cron.weekdays})
    IN  time.second \in cron.seconds /\ time.minute \in cron.minutes /\ (named = {} \/ TRUE \in named)

\* The delay is to the very first matching second after now: none before it matches, and it is
\* later than now, so a job that runs at its second is not scheduled for the same second again.
NextIsFirst ==
    result >= 0 => /\ 2 * result > now /\ Matches(result)
                   /\ \A t \in (now + 2) \div 2..result - 1 : ~Matches(t)
-----------------------------------------------------------------------------
(* The BullMQ job schedulers of a queue across a deployment: an old worker is  *)
(* still active while a new one removes the schedulers and the occurrences     *)
(* that the new code no longer wants, registers its own, and stops the chain   *)
(* of an occurrence that reaches it with no handler.                           *)

CONSTANTS Keys,       \* repeat keys, one per job name
          OldKeys,    \* what the old version registers
          NewKeys,    \* what the new version registers
          Foreign,    \* schedulers that the framework did not make
          MaxRuns     \* bound on the occurrences the old worker takes

VARIABLES
    schedulers,   \* BullMQ: the job schedulers
    pending,      \* BullMQ: keys with a waiting or delayed occurrence
    pc,           \* the new worker: "list", "remove", "pending", "drop", "upsert", "running"
    found,        \* what it listed and has not handled yet
    stale,        \* staleRepeatKeys
    active,       \* keys of occurrences it has taken and not handled
    oldRuns       \* occurrences the old worker may still take

varsSchedulers == <<schedulers, pending, pc, found, stale, active, oldRuns>>

InitSchedulers == /\ schedulers = OldKeys \cup Foreign /\ pending = OldKeys \cup Foreign
                  /\ pc = "list" /\ found = {} /\ stale = {} /\ active = {} /\ oldRuns = MaxRuns

\* BullMQ: the next occurrence is made when one is taken, before its handler; once the
\* scheduler is gone it may or may not be.
Materialized(key) == IF key \in schedulers THEN {pending} ELSE {pending, pending \ {key}}

\* The old worker takes an occurrence; in the end it is shut down.
OldWorkerTakes(key) ==
    /\ oldRuns > 0 /\ oldRuns' = oldRuns - 1 /\ key \in pending
    /\ pending' \in Materialized(key)
    /\ UNCHANGED <<schedulers, pc, found, stale, active>>

\* The old worker is still in scheduleBullMqCronJobs().
OldWorkerUpserts(key) ==
    /\ oldRuns > 0 /\ oldRuns' = oldRuns - 1 /\ key \in OldKeys
    /\ schedulers' = schedulers \cup {key} /\ pending' = pending \cup {key}
    /\ UNCHANGED <<pc, found, stale, active>>

-----------------------------------------------------------------------------
(* removeStaleBullMqJobSchedulers(), of migrate and of start().               *)

ListSchedulers ==
    /\ pc = "list" /\ pc' = "remove" /\ found' = schedulers
    /\ UNCHANGED <<schedulers, pending, stale, active, oldRuns>>

\* isTsfBullMqJobScheduler(), isTsfBullMqRepeatJob()
Tsf(key) == key \notin Foreign

RemoveScheduler ==
    /\ pc = "remove"
    /\ \/ /\ found = {} /\ pc' = "pending" /\ UNCHANGED <<schedulers, found, stale>>
       \/ \E key \in found :
             /\ found' = found \ {key} /\ UNCHANGED pc
             /\ IF ~Tsf(key) \/ key \in NewKeys THEN UNCHANGED <<schedulers, stale>>
                ELSE schedulers' = schedulers \ {key} /\ stale' = stale \cup {key}
    /\ UNCHANGED <<pending, active, oldRuns>>

\* removePendingBullMqRepeatJobs()
ListPending ==
    /\ pc = "pending" /\ pc' = "drop" /\ found' = pending
    /\ UNCHANGED <<schedulers, pending, stale, active, oldRuns>>

RemovePending ==
    /\ pc = "drop"
    /\ \/ /\ found = {} /\ pc' = "upsert" /\ found' = NewKeys /\ UNCHANGED pending
       \/ \E key \in found :
             /\ found' = found \ {key} /\ UNCHANGED pc
             /\ pending' = IF key \in stale \/ (Tsf(key) /\ key \notin NewKeys) THEN pending \ {key} ELSE pending
    /\ UNCHANGED <<schedulers, stale, active, oldRuns>>

-----------------------------------------------------------------------------
\* A worker consumes from startBullMqWorkers() on, while scheduleBullMqCronJobs() goes on.
ScheduleBullMqCronJobs ==
    /\ pc = "upsert"
    /\ \/ found = {} /\ pc' = "running" /\ UNCHANGED <<schedulers, pending, found>>
       \/ \E key \in found : /\ found' = found \ {key} /\ schedulers' = schedulers \cup {key}
                             /\ pending' = pending \cup {key} /\ UNCHANGED pc
    /\ UNCHANGED <<stale, active, oldRuns>>

\* BullMQ hands the new worker an occurrence.
WorkerTakes(key) ==
    /\ pc \in {"upsert", "running"} /\ key \in pending \ active /\ key \notin Foreign
    /\ pending' \in Materialized(key) /\ active' = active \cup {key}
    /\ UNCHANGED <<schedulers, pc, found, stale, oldRuns>>

\* removeBullMqRepeatChain(): the scheduler and what waits.
RemoveBullMqRepeatChain(key) == schedulers' = schedulers \ {key} /\ pending' = pending \ {key}

\* Mutant: an occurrence without a handler only fails.
ExecuteBullMqJobFails(key) ==
    /\ key \in active /\ active' = active \ {key}
    /\ UNCHANGED <<schedulers, pending, pc, found, stale, oldRuns>>

\* executeBullMqJob(): without a handler the repeat chain is removed.
ExecuteBullMqJob(key) ==
    /\ key \in active /\ active' = active \ {key}
    /\ IF key \in NewKeys THEN UNCHANGED <<schedulers, pending>>
       ELSE RemoveBullMqRepeatChain(key)
    /\ UNCHANGED <<pc, found, stale, oldRuns>>

ProgressSchedulers == \/ ListSchedulers \/ RemoveScheduler \/ ListPending \/ RemovePending \/ ScheduleBullMqCronJobs

NextSchedulers ==
    \/ ProgressSchedulers
    \/ \E key \in Keys : \/ OldWorkerTakes(key) \/ OldWorkerUpserts(key) \/ WorkerTakes(key) \/ ExecuteBullMqJob(key)

\* The start-up of the new worker goes on, occurrences come due, and handlers settle.
Occurrence(key) == WorkerTakes(key) \/ ExecuteBullMqJob(key)
FairnessSchedulers == WF_varsSchedulers(ProgressSchedulers) /\ \A key \in Keys : WF_varsSchedulers(Occurrence(key))

SpecSchedulers == InitSchedulers /\ [][NextSchedulers]_varsSchedulers
FairSpecSchedulers == SpecSchedulers /\ FairnessSchedulers

-----------------------------------------------------------------------------
\* Whatever the old worker does while it is still active, in the end no occurrence of a job
\* that the new version does not have is left, and everything it has, and everything that is
\* not the framework's, is scheduled and has its next occurrence
\* (removeStaleBullMqJobSchedulers(), removeBullMqRepeatChain(), scheduleBullMqCronJobs()).  A
\* scheduler that the old worker registers again may stay, without an occurrence it never runs.
Converged == pending = NewKeys \cup Foreign /\ NewKeys \cup Foreign \subseteq schedulers
SchedulesConverge == <>[]Converged
=============================================================================
