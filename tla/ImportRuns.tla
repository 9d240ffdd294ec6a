----------------------------- MODULE ImportRuns -----------------------------
(***************************************************************************)
(* The life of a YouTube import run: infra/src/youtube_import.rs           *)
(* (run_source_import, due_source_ids, finalize_run, create_source,        *)
(* update_source), called by the administrator's "run now" endpoint and by *)
(* the scheduler's job (jobs/src/workers.rs).                              *)
(*                                                                         *)
(* Each SQL statement is one atomic step and nothing spans two of them: no *)
(* transaction surrounds a run.  What a run does to the library (download, *)
(* tracks, playlists) is the two steps EnsurePlaylist and ImportEntries.   *)
(*                                                                         *)
(* What can interrupt a run is chosen by Faults:                           *)
(*   "crash"    the process dies and restarts; only the tables survive     *)
(*   "cancel"   the client of a "run now" request disconnects and axum     *)
(*              drops the handler's future at its next await               *)
(*   "dbError"  a statement fails (SQLITE_BUSY, disk) and `?` returns,     *)
(*              or the error is swallowed by unwrap_or(0)                  *)
(***************************************************************************)
EXTENDS Naturals, Sequences, FiniteSets

CONSTANTS
    Sources,        \* ids of youtube_playlist_sources that may be created
    Requests,       \* concurrent "run now" HTTP handlers
    Scheduler,      \* the task spawned by main that runs the recurring job
    Faults,         \* the faults of the environment, see above
    MaxRuns         \* BOUND: events of the environment stop when the run
                    \* table could grow past this many rows

ASSUME SourcesAssumption == Sources \subseteq Nat \ {0}
ASSUME WorkersAssumption == IsFiniteSet(Requests) /\ Scheduler \notin Requests
ASSUME FaultsAssumption  == Faults \subseteq {"crash", "cancel", "dbError"}
ASSUME MaxRunsAssumption == MaxRuns \in Nat

VARIABLES
    source,         \* youtube_playlist_sources: enabled, and how long ago synced
    runs,           \* youtube_import_runs, the id of a row is its place
    call,           \* each worker's activation of run_source_import
    todo            \* due ids the scheduler's job still has to run

vars == <<source, runs, call, todo>>

Workers == Requests \union {Scheduler}

\* last_synced_at: "absent" no row for the source, "never" NULL, "recent"
\* within the source's interval, "stale" older than it.
Synced      == {"absent", "never", "recent", "stale"}
FinalStatus == {"ok", "partial", "failed"}
Status      == {"running"} \union FinalStatus

\* Where a worker is: before which statement or call of run_source_import.
Phases == {"idle", "lookup", "check", "insert", "fetch", "ensure", "import",
           "mark", "stamp"}

Idle == [at |-> "idle", src |-> 0, run |-> 0, outcome |-> "none"]

-----------------------------------------------------------------------------

Enabled(s) == source[s].synced # "absent" /\ source[s].enabled
Overdue(s) == Enabled(s) /\ source[s].synced \in {"never", "stale"}

RunsOf(s)    == {i \in DOMAIN runs : runs[i].source = s}
RunningOf(s) == {i \in RunsOf(s) : runs[i].status = "running"}

\* The LEFT JOIN on MAX(id): only the newest run of the source is looked at.
LatestIsRunning(s) ==
    \E i \in RunningOf(s) : \A j \in RunsOf(s) : j <= i

\* Slip: "last_synced_at <= ..." without "IS NULL OR".
DueSourcesNullUnaware ==
    {s \in Sources : Enabled(s) /\ source[s].synced = "stale" /\ ~LatestIsRunning(s)}

DueSources == {s \in Sources : Overdue(s) /\ ~LatestIsRunning(s)}

\* Workers that hold a run row, and workers that passed the check but have
\* not inserted theirs.
Owning      == {"fetch", "ensure", "import", "mark", "stamp"}
BeforeRun   == {"lookup", "check", "insert"}
Window(s)   == {w \in Workers : call[w].at = "insert" /\ call[w].src = s}

(***************************************************************************)
(* BOUND.  Rows that exist, rows that calls under way may insert, and rows *)
(* the scheduler will insert for overdue sources.  Only events of the      *)
(* environment (new requests, edits, time, faults) ask for room: the       *)
(* program's own steps are never cut short.                                *)
(***************************************************************************)
SchedulerHas(s) == call[Scheduler].src = s
Planned ==
    {s \in Sources : IF SchedulerHas(s) THEN call[Scheduler].at \in BeforeRun \/ s \in todo
                                        ELSE s \in todo \/ Overdue(s)}
Committed ==
    Len(runs) + Cardinality({r \in Requests : call[r].at \in BeforeRun})
              + Cardinality(Planned)
RoomForEvent == Committed < MaxRuns

-----------------------------------------------------------------------------

Init ==
    /\ source = [s \in Sources |-> [enabled |-> FALSE, synced |-> "absent"]]
    /\ runs = << >>
    /\ call = [w \in Workers |-> Idle]
    /\ todo = {}

\* POST youtube_sources: AUTOINCREMENT gives the next id.
CreateSource(s) ==
    /\ RoomForEvent
    /\ source[s].synced = "absent"
    /\ \A t \in Sources : t < s => source[t].synced # "absent"
    /\ \E e \in BOOLEAN : source' = [source EXCEPT ![s] = [enabled |-> e, synced |-> "never"]]
    /\ UNCHANGED <<runs, call, todo>>

\* PATCH youtube_sources/:id: the switch, and an interval that may be
\* shorter or longer than the age of the last sync.
UpdateSource(s) ==
    /\ RoomForEvent
    /\ source[s].synced # "absent"
    /\ \E e \in BOOLEAN,
          a \in IF source[s].synced = "never" THEN {"never"} ELSE {"recent", "stale"} :
             source' = [source EXCEPT ![s] = [enabled |-> e, synced |-> a]]
    /\ UNCHANGED <<runs, call, todo>>

IntervalElapses(s) ==
    /\ RoomForEvent
    /\ source[s].synced = "recent"
    /\ source' = [source EXCEPT ![s].synced = "stale"]
    /\ UNCHANGED <<runs, call, todo>>

-----------------------------------------------------------------------------
(* run_source_import, called by a request or by the scheduler's job.       *)

Goto(w, phase)  == call' = [call EXCEPT ![w].at = phase]
Return(w)       == call' = [call EXCEPT ![w] = Idle]

\* Slip: the outcome is not handed to finalize_run.
FinishWithoutOutcome(w, st) == call' = [call EXCEPT ![w].at = "mark"]

Finish(w, st)  == call' = [call EXCEPT ![w].at = "mark", ![w].outcome = st]
Begin(w, s)     == call' = [call EXCEPT ![w] = [Idle EXCEPT !.at = "lookup", !.src = s]]

\* POST youtube_sources/:id/run, for any id the client sends.
RequestRun(r, s) ==
    /\ RoomForEvent
    /\ call[r].at = "idle"
    /\ Begin(r, s)
    /\ UNCHANGED <<source, runs, todo>>

\* youtube_playlist_sync_job: the due ids are read once ...
SchedulerTick ==
    /\ call[Scheduler].at = "idle" /\ todo = {}
    /\ DueSources # {}
    /\ todo' = DueSources
    /\ UNCHANGED <<source, runs, call>>

\* ... and run one after the other, in the order of their ids.
SchedulerNext(s) ==
    /\ call[Scheduler].at = "idle"
    /\ s \in todo /\ \A t \in todo : s <= t
    /\ todo' = todo \ {s}
    /\ Begin(Scheduler, s)
    /\ UNCHANGED <<source, runs>>

\* get_source: "not found", skipped_disabled, or on to the check.
Lookup(w) ==
    /\ call[w].at = "lookup"
    /\ IF Enabled(call[w].src) THEN Goto(w, "check") ELSE Return(w)
    /\ UNCHANGED <<source, runs, todo>>

\* Slip: no check at all.
CheckNothing(w) ==
    /\ call[w].at = "check"
    /\ Goto(w, "insert")
    /\ UNCHANGED <<source, runs, todo>>

\* Slip: the check of due_source_ids, newest run only, used here too.
CheckNewest(w) ==
    /\ call[w].at = "check"
    /\ IF LatestIsRunning(call[w].src) THEN Return(w) ELSE Goto(w, "insert")
    /\ UNCHANGED <<source, runs, todo>>

\* COUNT(*) of running rows: skipped_running, or on to the INSERT.
CheckRunning(w) ==
    /\ call[w].at = "check"
    /\ IF RunningOf(call[w].src) = {} THEN Goto(w, "insert") ELSE Return(w)
    /\ UNCHANGED <<source, runs, todo>>

\* The same query fails: unwrap_or(0) reads the error as "none running".
CheckRunningError(w) ==
    /\ "dbError" \in Faults /\ RoomForEvent
    /\ call[w].at = "check"
    /\ Goto(w, "insert")
    /\ UNCHANGED <<source, runs, todo>>

\* Slip: the id is read with MAX(id) before the INSERT.
InsertRunOldId(w) ==
    /\ call[w].at = "insert"
    /\ runs' = Append(runs, [source |-> call[w].src, status |-> "running"])
    /\ call' = [call EXCEPT ![w].at = "fetch", ![w].run = Len(runs)]
    /\ UNCHANGED <<source, todo>>

InsertRun(w) ==
    /\ call[w].at = "insert"
    /\ runs' = Append(runs, [source |-> call[w].src, status |-> "running"])
    /\ call' = [call EXCEPT ![w].at = "fetch", ![w].run = Len(runs) + 1]
    /\ UNCHANGED <<source, todo>>

\* Slip: an empty or failed listing returns without finalize_run.
FetchReturnsEarly(w) ==
    /\ call[w].at = "fetch"
    /\ Goto(w, "ensure") \/ Return(w)
    /\ UNCHANGED <<source, runs, todo>>

\* yt-dlp lists the playlist; an error or an empty list ends the run.
Fetch(w) ==
    /\ call[w].at = "fetch"
    /\ Goto(w, "ensure") \/ Finish(w, "failed")
    /\ UNCHANGED <<source, runs, todo>>

EnsurePlaylist(w) ==
    /\ call[w].at = "ensure"
    /\ Goto(w, "import")
    /\ UNCHANGED <<source, runs, todo>>

\* The loop over the entries never returns early: a failed entry is counted.
ImportEntries(w) ==
    /\ call[w].at = "import"
    /\ \E st \in {"ok", "partial"} : Finish(w, st)
    /\ UNCHANGED <<source, runs, todo>>

\* Slip: UPDATE ... WHERE source_id = ? instead of WHERE id = ?.
MarkRunsOfSource(w) ==
    /\ call[w].at = "mark"
    /\ runs' = [i \in DOMAIN runs |->
                  IF i \in RunsOf(call[w].src) THEN [runs[i] EXCEPT !.status = call[w].outcome]
                                               ELSE runs[i]]
    /\ Goto(w, "stamp")
    /\ UNCHANGED <<source, todo>>

\* finalize_run, first UPDATE: the run's row gets its final status.
MarkRun(w) ==
    /\ call[w].at = "mark"
    /\ runs' = [runs EXCEPT ![call[w].run].status = call[w].outcome]
    /\ Goto(w, "stamp")
    /\ UNCHANGED <<source, todo>>

\* finalize_run, second UPDATE: last_synced_at of the source, then return.
StampSource(w) ==
    /\ call[w].at = "stamp"
    /\ source' = [source EXCEPT ![call[w].src].synced = "recent"]
    /\ Return(w)
    /\ UNCHANGED <<runs, todo>>

-----------------------------------------------------------------------------
(* Interruptions: what was written stays, the rest never happens.          *)

\* A statement followed by `?` fails and run_source_import returns Err.
StatementFails(w) ==
    /\ "dbError" \in Faults /\ RoomForEvent
    /\ call[w].at \in {"lookup", "insert", "ensure", "mark", "stamp"}
    /\ Return(w)
    /\ UNCHANGED <<source, runs, todo>>

ClientDisconnects(r) ==
    /\ "cancel" \in Faults /\ RoomForEvent
    /\ call[r].at # "idle"
    /\ Return(r)
    /\ UNCHANGED <<source, runs, todo>>

\* main recovers nothing from the tables when it starts again.
Crash ==
    /\ "crash" \in Faults /\ RoomForEvent
    /\ call' = [w \in Workers |-> Idle]
    /\ todo' = {}
    /\ UNCHANGED <<source, runs>>

-----------------------------------------------------------------------------

RunStep(w) ==
    \/ Lookup(w) \/ CheckRunning(w) \/ InsertRun(w) \/ Fetch(w)
    \/ EnsurePlaylist(w) \/ ImportEntries(w) \/ MarkRun(w) \/ StampSource(w)

SchedulerLoop == SchedulerTick \/ \E s \in Sources : SchedulerNext(s)

Next ==
    \/ \E s \in Sources : CreateSource(s) \/ UpdateSource(s) \/ IntervalElapses(s)
    \/ \E r \in Requests, s \in Sources : RequestRun(r, s)
    \/ SchedulerLoop
    \/ \E w \in Workers : RunStep(w)
    \/ \E w \in Workers : CheckRunningError(w) \/ StatementFails(w)
    \/ \E r \in Requests : ClientDisconnects(r)
    \/ Crash

Spec == Init /\ [][Next]_vars

(***************************************************************************)
(* tokio keeps polling a ready task, every statement returns, and          *)
(* run_scheduler loops for ever with a sleep of at most a second.  Nothing *)
(* makes an administrator send requests or a source grow old.              *)
(***************************************************************************)
Fairness == WF_vars(SchedulerLoop) /\ \A w \in Workers : WF_vars(RunStep(w))

LiveSpec == Spec /\ Fairness

-----------------------------------------------------------------------------
(* Properties.                                                             *)

\* Every table and every worker holds values the program gives them.
TypeOK ==
    /\ source \in [Sources -> [enabled : BOOLEAN, synced : Synced]]
    /\ runs \in Seq([source : Sources, status : Status])
    /\ call \in [Workers -> [at : Phases, src : Sources \union {0}, run : Nat,
                             outcome : {"none"} \union FinalStatus]]
    /\ \A w \in Workers : call[w].at # "idle" => call[w].src \in Sources
    /\ \A w \in Workers : call[w].at \in {"mark", "stamp"} => call[w].outcome \in FinalStatus
    /\ todo \subseteq Sources

\* The row a worker is about to close is its own source's, is still running
\* until that worker marks it, then carries exactly the outcome of that
\* worker; no two workers hold the same row, however the calls for one
\* source overlap, fail or are dropped (run_source_import, finalize_run).
HoldsItsRun(w) ==
    /\ call[w].run \in DOMAIN runs
    /\ runs[call[w].run] = [source |-> call[w].src,
                            status |-> IF call[w].at = "stamp" THEN call[w].outcome
                                                               ELSE "running"]

RunOwnership ==
    /\ \A w \in Workers : call[w].at \in Owning => HoldsItsRun(w)
    /\ \A v, w \in Workers :
          v # w /\ {call[v].at, call[w].at} \subseteq Owning => call[v].run # call[w].run

\* The workers, interleaved and interrupted, implement the ledger: rows are
\* only appended, closed once, never reopened or rewritten, and a source's
\* last_synced_at is set only when a run of it has finished.
Ledger == INSTANCE RunLedger WITH
    ledger  <- runs,
    stamped <- {s \in Sources : source[s].synced \notin {"absent", "never"}}

LedgerRefinement == Ledger!Spec

\* Without the swallowed error, the rows of a source that say 'running' and
\* the workers about to insert one never outnumber the workers: crashes and
\* disconnects leave rows behind but the COUNT of run_source_import stops
\* them from piling up.
OverlapBound ==
    \A s \in Sources :
        Cardinality(RunningOf(s)) + Cardinality(Window(s)) <= Cardinality(Workers)

\* A 'running' row that no worker will ever close.
Orphan(i) ==
    /\ runs[i].status = "running"
    /\ \A w \in Workers : ~(call[w].at \in Owning /\ call[w].run = i)

\* Once such a row exists and nobody is between the check and the INSERT, no
\* request and no tick of the scheduler starts a run of that source again:
\* run_source_import answers skipped_running for ever, over restarts too.
WedgedStaysWedged ==
    [][\A s \in Sources :
          (Window(s) = {} /\ \E i \in RunningOf(s) : Orphan(i))
              => Window(s)' = {} /\ RunsOf(s)' = RunsOf(s)]_vars

\* Without faults, every run that starts comes to an end.
RunsFinish ==
    \A i \in 1..MaxRuns :
        (i \in DOMAIN runs) ~> (i \in DOMAIN runs /\ runs[i].status # "running")

\* Without faults, an enabled source that was never synced, or not within
\* its interval, is synced in the end (or the administrator disables it or
\* gives it a longer interval), whatever manual runs compete with the
\* scheduler's: due_source_ids and skipped_running never starve it.
OverdueIsServed == \A s \in Sources : Overdue(s) ~> ~Overdue(s)

-----------------------------------------------------------------------------
(* Claims of src/README.md, "Import behavior".                             *)

\* "Scheduler runs skip sources that already have an in-flight run": when
\* the scheduler inserts a run, no other run of the source is 'running'.
SchedulerSkipsInFlight ==
    [][InsertRun(Scheduler) => RunningOf(call[Scheduler].src) = {}]_vars

\* "an in-flight run (`status = running`)": a row says 'running' only while
\* some worker is executing that run.
RunningMeansInFlight == \A i \in DOMAIN runs : ~Orphan(i)
=============================================================================
