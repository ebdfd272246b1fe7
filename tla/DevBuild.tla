------------------------------ MODULE DevBuild ------------------------------
(* The builds of tsf-dev (cli/tsf-dev.ts): runs of one project share one        *)
(* compiler, found through the ready flag and the build lock; the run that owns *)
(* it recompiles when a source changes; the other commands compile once if the  *)
(* build is not fresh. Sources and output are versions: the compiler reads the  *)
(* sources when it starts and writes the output when it ends. A state update is *)
(* atomic (DevConsole models them).                                            *)
EXTENDS Naturals, FiniteSets

CONSTANTS Runs,       \* tsf-dev run processes
          Builds,     \* tsf-dev build, test, repl, migrate processes
          MaxEdits,
          Broken,     \* versions that do not compile
          MaxDeaths

VARIABLES pc,       \* process -> where it is
          reads,    \* process -> version its compiler reads
          baseline, \* process -> version its watcher compares with
          src,      \* version of the sources the tsconfig selects
          config,   \* version of the other inputs: JSON files, the lockfile, other sources
          dist,     \* version of the output, 0 when clean
          built,    \* build state in dist/: [in, out], out = 0 without
          ready,    \* DevState: the build is ready
          pids,     \* DevState: registered runs
          lock,     \* owner of the build lock, 0 without
          deaths,
          unseen    \* a watcher took an edit into its baseline or a wrong build for fresh, the owner died
                    \* between cleaning and compiling, or another command compiled older sources

vars == <<pc, reads, baseline, src, config, dist, built, ready, pids, lock, deaths, unseen>>

Procs == Runs \cup Builds
NoState == [in |-> <<0, 0>>, out |-> 0]
\* What collectBuildInputs() fingerprints, and what collectCompilerWatchInputs() does.
BuildInputs == <<src, config>>
WatchInputs == src
Alive(p) == p # 0 /\ pc[p] \notin {"dead", "new"}

Init == /\ pc = [p \in Procs |-> "new"] /\ reads = [p \in Procs |-> 0] /\ baseline = [p \in Procs |-> 0]
        /\ src = 1 /\ config = 0 /\ dist \in {0, 1} /\ built = IF dist = 1 THEN [in |-> BuildInputs, out |-> 1] ELSE NoState
        /\ ready \in BOOLEAN /\ pids = {} /\ lock = 0 /\ deaths = 0 /\ unseen = FALSE

Goes(p, to) == pc' = [pc EXCEPT ![p] = to]
\* getBuildStatus()
Fresh == built.in = BuildInputs /\ built.out = dist
\* isDevRunning()
IsDevRunning == ready /\ \E p \in pids : Alive(p)
\* cleanDist(): the build state is in dist/.
CleanDist == dist' = 0 /\ built' = NoState

-----------------------------------------------------------------------------
(* ensureDevBuild()                                                           *)

\* The first look, then the lock; a lock of a dead process is free.
Start(p) ==
    /\ p \in Runs /\ pc[p] = "new"
    /\ Goes(p, IF IsDevRunning THEN "share" ELSE "lock")
    /\ UNCHANGED <<reads, baseline, src, config, dist, built, ready, pids, lock, deaths, unseen>>
TryAcquireBuildLock(p) ==
    /\ pc[p] \in {"lock", "wait"}
    /\ \/ ~Alive(lock) /\ lock' = p /\ Goes(p, "locked")
       \/ pc[p] = "lock" /\ Alive(lock) /\ Goes(p, "wait") /\ UNCHANGED lock
    /\ UNCHANGED <<reads, baseline, src, config, dist, built, ready, pids, deaths, unseen>>
WaitsForReady(p) ==
    /\ pc[p] = "wait" /\ ready /\ Goes(p, "share")
    /\ UNCHANGED <<reads, baseline, src, config, dist, built, ready, pids, lock, deaths, unseen>>

\* With a fresh build the watcher waits for a change; its baseline comes last.
ReusesBuild(p) ==
    /\ pc[p] = "locked" /\ Fresh /\ Goes(p, "reuse")
    /\ reads' = [reads EXCEPT ![p] = src] /\ ready' = TRUE /\ lock' = 0 /\ unseen' = (unseen \/ dist # src)
    /\ UNCHANGED <<baseline, src, config, dist, built, pids, deaths>>
WatchBuildInputsUntilChanged(p) ==
    /\ pc[p] = "reuse" /\ Goes(p, "register") /\ baseline' = [baseline EXCEPT ![p] = WatchInputs]
    /\ unseen' = (unseen \/ reads[p] # src)
    /\ UNCHANGED <<reads, src, config, dist, built, ready, pids, lock, deaths>>

CleansForBuild(p) ==
    /\ pc[p] = "locked" /\ ~Fresh /\ CleanDist /\ ready' = FALSE /\ Goes(p, "compile")
    /\ UNCHANGED <<reads, baseline, src, config, pids, lock, deaths, unseen>>

\* rebuild() takes its baseline and starts the compiler.
RebuildStarts(p, from, to) ==
    /\ pc[p] = from /\ Goes(p, to)
    /\ reads' = [reads EXCEPT ![p] = src] /\ baseline' = [baseline EXCEPT ![p] = WatchInputs]
    /\ UNCHANGED <<src, config, dist, built, ready, pids, lock, deaths, unseen>>
\* runTsc() ends; writeBuildState() fingerprints the sources as they are by then.
Compiled(p) == IF reads[p] \in Broken THEN UNCHANGED <<dist, built>>
               ELSE dist' = reads[p] /\ built' = [in |-> BuildInputs, out |-> reads[p]]

\* The first build of the owner: compiler.ready resolves when one succeeded.
FirstBuildEnds(p) ==
    /\ pc[p] = "first" /\ Compiled(p)
    /\ IF reads[p] \in Broken THEN Goes(p, "broken") /\ UNCHANGED <<ready, lock>>
                              ELSE Goes(p, "register") /\ ready' = TRUE /\ lock' = 0
    /\ UNCHANGED <<reads, baseline, src, config, pids, deaths, unseen>>
\* checkForChanges()
TriesAgain(p) == baseline[p] # WatchInputs /\ RebuildStarts(p, "broken", "first")

\* registerDevRun(); then the application runs.
RegisterRun(p) ==
    /\ pc[p] \in {"register", "share"}
    /\ Goes(p, IF pc[p] = "share" THEN "shares" ELSE "watches")
    /\ pids' = {q \in pids : Alive(q)} \cup {p}
    /\ UNCHANGED <<reads, baseline, src, config, dist, built, ready, lock, deaths, unseen>>

CheckForChanges(p) == baseline[p] # WatchInputs /\ RebuildStarts(p, "watches", "again")
RebuildEnds(p) ==
    /\ pc[p] = "again" /\ Compiled(p) /\ Goes(p, "watches")
    /\ UNCHANGED <<reads, baseline, src, config, ready, pids, lock, deaths, unseen>>

\* The application closes, or the process is killed wherever it is.
Exit(p) ==
    /\ pc[p] \in {"watches", "shares"} /\ Goes(p, "dead")
    /\ pids' = pids \ {p}
    /\ UNCHANGED <<reads, baseline, src, config, dist, built, ready, lock, deaths, unseen>>
Killed(p) ==
    /\ p \in Runs /\ Alive(p) /\ deaths < MaxDeaths /\ Goes(p, "dead")
    /\ deaths' = deaths + 1 /\ unseen' = (unseen \/ pc[p] \in {"compile", "first", "broken"})
    /\ UNCHANGED <<reads, baseline, src, config, dist, built, ready, pids, lock>>

-----------------------------------------------------------------------------
(* runTscIfNeeded()                                                           *)

RunTscIfNeeded(p) ==
    /\ p \in Builds /\ pc[p] = "new"
    /\ IF Fresh THEN Goes(p, "done") /\ UNCHANGED <<dist, built>>
       ELSE /\ Goes(p, "compile once")
            /\ IF IsDevRunning THEN UNCHANGED <<dist, built>> ELSE CleanDist
    /\ UNCHANGED <<reads, baseline, src, config, ready, pids, lock, deaths, unseen>>
RunTsc(p) == RebuildStarts(p, "compile once", "once")
BuildEnds(p) ==
    /\ pc[p] = "once" /\ Compiled(p) /\ Goes(p, IF reads[p] \in Broken THEN "failed" ELSE "done")
    /\ unseen' = (unseen \/ reads[p] # src)
    /\ UNCHANGED <<reads, baseline, src, config, ready, pids, lock, deaths>>

Edit == /\ src + config <= MaxEdits
        /\ \/ src' = src + 1 /\ UNCHANGED config
           \/ config' = config + 1 /\ UNCHANGED src
        /\ UNCHANGED <<pc, reads, baseline, dist, built, ready, pids, lock, deaths, unseen>>

Step(p) == \/ Start(p) \/ TryAcquireBuildLock(p) \/ WaitsForReady(p) \/ ReusesBuild(p) \/ WatchBuildInputsUntilChanged(p)
           \/ CleansForBuild(p) \/ RebuildStarts(p, "compile", "first") \/ FirstBuildEnds(p) \/ TriesAgain(p) \/ RegisterRun(p)
           \/ CheckForChanges(p) \/ RebuildEnds(p) \/ RunTscIfNeeded(p) \/ RunTsc(p) \/ BuildEnds(p)
Next == Edit \/ \E p \in Procs : Step(p) \/ Exit(p) \/ Killed(p)

\* The file watcher or the poll reports every change, and processes go on.
Progress == \E p \in Procs : Step(p)
FairSpec == Init /\ [][Next]_vars /\ WF_vars(Progress)
Spec == Init /\ [][Next]_vars

-----------------------------------------------------------------------------
\* docs/content/cli.md: a later command reuses a fresh build, and a change of a
\* source invalidates it: what is taken for fresh was compiled from the sources.
\* The code does not keep this: a source edited while a command compiles counts
\* as an input of that compilation.
FreshIsBuilt == Fresh => dist = src

\* While a run watches, the output comes to be that of the last sources that
\* compile, whatever the owners of the lock and other commands did, however
\* often the sources changed during a compilation and whoever died.
Watched == \E p \in Runs : pc[p] \in {"watches", "again"}
CaughtUp == unseen \/ src \in Broken \/ (Watched => dist = src)
WatchersCatchUp == <>[]CaughtUp
=============================================================================
