# Verification of synthwaves.fm (Rust service)

TLA+ models, TLC configurations and TLAPS proofs for the Axum/SQLite service
under `src/rust`.  Paths below are relative to the repository; line numbers are
in `PROJECT.json`.

## 1. The system

One process (`axum-app/src/main.rs`) serves HTTP on a tokio runtime and, when
configured, spawns one scheduler task.  All state that survives a restart is in
one SQLite database (pool of 10 connections) and in audio files below
`storage/`.  There is no lock, channel or actor in the program: components
interact only through the tables, and every `await` between two statements is a
point where another handler, the scheduler, or a restart can come in between.

| Component | State it keeps | Operations | Hard part |
|---|---|---|---|
| **Import runs** `infra/src/youtube_import.rs`, `jobs/src/workers.rs`, admin endpoints | `youtube_playlist_sources`, `youtube_import_runs` | create/update source, due query, run (manual, scheduled), finalize | overlapping runs, rows left `running`, two-statement finalize, stale due list |
| **Library import** same file, `handlers/media.rs` | `tracks`, blobs, attachments, files, `playlists`, `playlist_tracks`, `youtube_import_items` | import an entry, find-or-create playlist, append to playlist, stream | check-then-insert against UNIQUE indexes by concurrent runs, crash between file, track and link |
| **Radio queue** `handlers/radio.rs`, `handlers/web.rs` | `radio_station_import_items`, `..._import_state`, runtime state | import playlist, next track, up next, the page's queue | SQLite lock upgrades, two unsynchronised reads of queue and cursor, late "now playing" writes |
| **Recent tracks** `handlers/radio.rs` | `radio_station_recent_tracks` | notify (append, prune), recent | pruning by a clock of whole seconds, overlapping notifies |
| **Listener statistics** `infra/src/icecast.rs`, `handlers/radio.rs` | `radio_station_listener_stats` | refresh on request | late answers overwrite newer ones; outages and swallowed errors, the lookup of the mount's among them; substring match of mounts |
| **Station page** `handlers/web.rs`, `templates/radio_station.html` | the browser's page | three loads, refresh every 30 s | reads that no transaction ties together |
| **Accounts** `handlers/api.rs`, `axum-app/src/auth.rs`, `infra/src/auth.rs`, `main.rs` | `users`, tokens | register, token, admin check, bootstrap admin | check-then-insert registration; two ways of lowering an address; admin bit read per request |
| **Job scheduler** `jobs/src/scheduler.rs` | `last_run` per job (in memory) | tick | a failed job is retried every second; a restart forgets `last_run` |
| Liquidsoap configuration, other web pages, admin scaffold, health, configuration, database connection, conversion jobs, docs, deployment files | - | rendering, constants, environment | no state machine of their own |

Interactions: the scheduler's job and the "run now" endpoint call the same
`run_source_import`, which drives the library import; the library import fills
`playlist_tracks`, from which the radio queue's fallback takes the first track
and whose audio `media.rs` streams; `import_youtube` replaces a station's queue,
which `next_track` consumes and `up_next` displays; Liquidsoap calls
`next_track` and may call `notify`, both of which write "now playing"; `notify`
appends to the recent tracks, which the station page reads together with the
queue and the stored number of listeners; the page's script then calls `stats`,
which asks Icecast and writes that number.  A token from `register` or `token`
opens the endpoints of the import runs if its user is an administrator.

What makes each component correct:

* **Import runs** - each row is closed once, by the worker that inserted it; a
  source is stamped only by a finished run; overlap is bounded; without faults
  every run ends and every overdue source is synced.
* **Library import** - a track's audio file exists before the track is visible;
  each video is imported once, each playlist holds a track once and a position
  once, and an import never moves or removes what is there; a run reported `ok`
  has every entry in its playlist, in the order of the listing.
* **Radio queue** - the queue is played cyclically, no entry skipped or repeated
  by concurrent callers; a replaced queue starts at its first entry; what
  `up_next` shows is what `next_track` will serve.
* **Recent tracks** - pruning never shows: the page has the newest of all tracks
  ever started.
* **Listener statistics** - a stored count is one Icecast reported for that
  station's mount (for its default mount only after a failed lookup), and an
  open page ends up with the current one.
* **Job scheduler** - its retries and restarts never break what the import runs
  promise.
* **Accounts** - one account per address whatever the case; who was told
  "created" can log in for ever; only a configured administrator is one.

## 2. The modules

| Module | What it is |
|---|---|
| `RunLedger` | abstract: the table of runs as an append-only ledger, each row closed once, a source stamped only after a finished run |
| `ImportRuns` | the life of a run, statement by statement, for requests and the scheduler's job; implements `RunLedger` |
| `ImportRunsProofs` | its theorems |
| `MusicLibrary` | abstract: a library that only grows, whose tracks can be played, with one place per track and one track per place |
| `LibraryImport` | what a run does to tracks, files, playlists and items, statement by statement; implements `MusicLibrary` |
| `LibraryImportProofs` | its theorems for any number of workers |
| `LoneRunProofs` | its theorems for a run that is alone: what a rerun repairs |
| `Rotation` | abstract: a station's queue served in turn, one atomic step per request |
| `RadioQueue` | `next_track`, `up_next` and `import_youtube` on SQLite's locks; implements `Rotation` |
| `RadioQueueProofs` | its theorems about what is served and shown |
| `RadioLocksProofs` | its theorem about the locks: no deadlock |
| `AccountBook` | abstract: accounts are opened once per address, never change, and no administrator appears while the service runs |
| `Accounts` | registration, tokens, the administrator's check and the start of the program; implements `AccountBook` |
| `AccountsProofs` | its theorems |
| `Audience` | the stations and who watches them, shared by the next two |
| `RecentTracks` | the table of recent tracks and `notify` |
| `ListenerStats` | the table of listener counts, `stats` and Icecast |
| `StationPage` | composes the two with the page that reads both tables |
| `StationPageProofs` | its theorems |
| `MC...` | the constants TLC needs and cannot write in a `.cfg`, and symmetry |

All follow one scheme.  A *worker* (`Workers`, `Callers`) is one activation of an
async function.  `job[w].at` (`call[w].at`, `notify[n].at`, `poll[v].at`,
`page[v].at`) names the statement it is about to execute; the other fields are the function's local variables, that is, what it
read earlier and will act on later.  Every SQL statement on the pool is one
action, because SQLite executes one statement atomically and the code awaits
between two.  A `sqlx` transaction is one action at its commit when nothing
reads in it (`CommitTrack`), and one action per statement when what it has read
decides what it writes (`next_import_item`).  Definitions keep the names of the
tables' columns and of the functions where they can; `map` in `PROJECT.json`
gives the lines of each.

A definition introduced by a comment `Slip:` is a plausible bug: it takes the
place of the definition it stands next to when one asks whether a property
notices it.  None is reachable from a specification.

### ImportRuns

`source`, `runs` are the two tables, reduced to what the control flow tells
apart: `last_synced_at` is *absent, never, recent* or *stale* relative to the
interval, the id of a run is its place in the sequence.  `Lookup`,
`CheckRunning`, `InsertRun`, `Fetch`, `EnsurePlaylist`, `ImportEntries`,
`MarkRun`, `StampSource` are the statements of `run_source_import` and
`finalize_run` in order; `SchedulerTick` reads `due_source_ids` once into `todo`
and `SchedulerNext` walks it.  `Crash` empties every local variable and keeps the
tables; `ClientDisconnects` drops one request's future; `StatementFails` and
`CheckRunningError` are `?` and `unwrap_or(0)`.

### LibraryImport

Starts where a run may fetch.  `audio[v]` is the storage key of the video's
track (0: no track), `files` the keys with a file, `links` `playlist_tracks`,
`items` what the administrator is shown.  The UNIQUE indexes of the schema are
guards of the INSERT's success branch; a rejected INSERT goes to the error path
the code takes.  A download copies its file under a fresh key before the
transaction, as the code does, so files of failed imports stay behind.  Titles,
durations, checksums and the artist and album of a track are left out.

### RadioQueue

The one component where the outcome depends on *how* the database serializes.
`infra/src/db.rs` sets no journal mode, so SQLite runs in rollback-journal mode;
`pool.begin()` is `BEGIN DEFERRED`, so locks come with the statements.
`readers` are the connections holding SHARED, `writer` the one holding RESERVED
or more, `pending` whether it is committing and keeps new readers out.  A
statement that is the first of its transaction waits up to 5 s (`sqlx`'s default
busy timeout); a transaction that has already read is refused at once with
`SQLITE_BUSY` when another one writes, because waiting could deadlock.  These
facts about SQLite are external to this repository and appear as `CanRead`,
`CanWrite`, `Share`, `Reserve`, `Release` and `BeginCommit`.  `served`, `imports`
and `moment` are history variables: no guard reads them.

`ensure_import_tables` and `ensure_detail_tables`, run at the head of every
handler, create tables that are already there and are left out.  The cursor is
1 where there is no row, which is what both readers make of its absence.
The upsert of the runtime state is kept although nothing reads the row, because
it takes the write lock at a time when other requests advance the cursor.
`PageRequest` is the station page's own query, `load_up_next_rows`: the same two
statements as `get_up_next_items`, starting and wrapping the same way, so it shares
their steps.

### Accounts

`users` is the table in the order of its INSERTs, an account's id its place.  An
address is one of `Spellings`; `RustLower` is what `str::to_lowercase` makes of
it (a registration stores that), `SqlLower` what SQLite's `lower()` makes of it
(every lookup compares that).  The second only knows ASCII, and the properties
say what follows from the difference.  A password is one of `Passwords`, `Trim`
takes the blanks off; Argon2 is modelled by what it does, a hash verifies the
password it was made of.  A token is what was presented and the user it names;
its signature and its hour of life are left out, so a token of the model stays
good.  `Start` is `bootstrap_admin_user`: it runs before anything is served, so
its three statements are one step, with the COUNT's swallowed error as an
alternative.  One process is assumed; two of them on one database could both
bootstrap.  `created`, `started` and `misread` are history.

### RecentTracks, ListenerStats, StationPage

A row of recent tracks is the place of its INSERT in `appended`, a history; `kept`
are the rows in the table.  `CURRENT_TIMESTAMP` is any of `Times` at each INSERT,
because the clock has whole seconds and may be set back, and `ORDER BY
datetime(played_at) DESC LIMIT n` is any of the sets `Newest` gives, because it
leaves ties open.  The runtime state that `notify` also writes is read by
nobody.

`icecast` has the listeners of each source and `reachable` whether it answers;
`Covers` says which sources the program's substring match takes for a mount's,
and the first of them wins.  `LookUpMount`, `Ask`, `Store` and `ReadStored` are the
steps of `stats`.  The lookup of `mount_point` (`MountOf`) is a PRAGMA and a SELECT;
the program writes to neither, so they are one step.  If either fails, the error is
swallowed and the request goes on with `/radio/{id}.mp3` (`DefaultMount`), which may
be nobody's mount or that of another station: `MountLookupFails`.  The number is that
of the moment Icecast answers and may be stored much later.  `seen`, what Icecast
could have said of each mount, and `mistaken`, the stations some lookup failed for,
are history.  A viewer's next request starts after the last one
ended: the script does not wait for that, but Icecast answers well within the
30 seconds; two viewers of one station overlap freely.

`StationPage` adds the page: `LoadStationDetail` and `LoadRecentRows` are two of
its three statements (the third is `PageRequest` of RadioQueue), `RefreshStats`
and `ShowListeners` its script.  A failing statement leaves its part empty, as
`unwrap_or_default` does.  A restart ends requests and leaves open pages open.

## 3. What the runs check

| Run | Question | Bounds |
|---|---|---|
| `import_runs_faults` | With crashes, disconnects and failing statements, does a worker ever touch a row that is not its own, and is the table still a ledger? `TypeOK`, `RunOwnership`, `LedgerRefinement` | 2 sources, 2 requests and the scheduler, 3 rows |
| `import_runs_overlap` | How much overlap does check-then-insert allow, and what does a crash leave? `OverlapBound`, `WedgedStaysWedged` | 1 source, 2 requests and the scheduler, 5 rows |
| `import_runs_live` | Does every run end and every overdue source get synced? `RunsFinish`, `OverdueIsServed` | 2 sources, 1 request and the scheduler, 3 rows |
| `import_runs_inflight` | README claim, violated (section 6) | 1 source, 1 request |
| `import_runs_orphan` | README claim, violated (section 6) | 1 source, 1 request |
| `library_faults` | Do overlapping, failing, stopped runs keep the library sound? `TypeOK`, `StreamsPlay`, `ItemTruth`, `OkRunIsComplete`, `LibraryRefinement`; does a run always get on? `RunsAdvance` | 2 workers, 2 videos in two orders, 2 runs or renames |
| `library_order` | Does a playlist keep the order of the listing, and how often can a playlist be created twice? `OrderKept`, `CopiesBound` | 2 workers, a listing that repeats a video, 3 runs |
| `library_rerun` | Does running a source again repair what a stopped run left? `RerunHeals` | 1 worker, 2 target names, 4 runs or renames |
| `library_unlinked` | README claim, violated (section 6) | 2 sources with one target, 2 workers |
| `radio_queue` | Are entries served in turn under overlap, timeouts and disconnects; is what `up_next` shows what comes; can requests block each other? `TypeOK`, `InTurn`, `UpNextIsAhead`, `RotationRefinement`, `NoDeadlock`, `CallsAnswered` | 1 station, 3 callers, 4 requests, playlists of 1 and 2 entries |
| `accounts` | Do overlapping registrations, restarts with other settings and failing statements keep accounts unique, usable and administrators bounded? `TypeOK`, `OneCreatedPerAddress`, `RegisteredCanLogIn`, `OnlyConfiguredAdmins`, `AdminsBound`, `BookRefinement` | 2 clients, 2 spellings of an ASCII address and 2 of another, 3 passwords, 2 configurations, 4 requests or stops |
| `station_page` | Can pruning hide a newer track, can an outage, a late answer or a failed lookup become a wrong number of listeners, do open pages end up right and stay so? `TypeOK`, `PageShowsNewest`, `CountWasReported`, `ListenersSettle`, `SettledStays` | 2 stations, 2 notifiers, 2 viewers of one station, 2 sources with 2 numbers of listeners, one of them matched by both mounts, a station whose default mount is the other station's, 2 times, 1 row kept, 3 events |

**Why the bounds are enough.**  `MaxRuns` and `MaxCalls` bound only what the
environment starts; once started, everything runs to its end or is interrupted.
Two workers suffice for each race between a check and the insert it guards, the
third (the scheduler, the third caller) shows that a third party does not make
it worse and is needed for a lock queue: one writes, one wants to, one reads.
A playlist of one entry wraps at every step and one of two entries tells
"following" from "same"; two playlists of different length make a cursor read
before an import stale after it.  `OverlapBound` is reached with equality at
these bounds, and `MaxRuns = 5` leaves room for an orphan per worker and two rows
more.  In `accounts` two clients race one registration, and the four spellings are
one pair both lower-casings agree on and one they do not; four requests are a
registration that races another, a restart and an administrator's request.  In
`station_page` a table of one row is pruned at every append, and two times give
ties, order and a clock set back.  Its three events, opened pages included, are two
tracks that race under an open page, two pages and a change of the audience
between their answers, or a page, a failed lookup and an outage.  A source may have
either of two numbers from the start, so that asking for the wrong mount gives the
other station's number as well as 0.  Where proofs exist (section 5)
no bound remains.

**CHECK_DEADLOCK FALSE** everywhere: with the budget of requests used up the
service is idle, as it should be.  That nobody waits for ever is `RunsFinish`,
`NoDeadlock` and `CallsAnswered`, not the absence of states without successors.

**Symmetry** only over interchangeable requests or workers, and in no run with
liveness.

## 4. Fairness

`LiveSpec` (ImportRuns) and `FairSpec` (RadioQueue, StationPage) assume weak
fairness of each worker's own next statement, in ImportRuns of the scheduler's
loop, and in StationPage of the page's script.
The reasons: tokio polls every ready task, SQLite returns from a statement whose
locks are free, `run_scheduler` is an endless loop that ignores the errors of
its jobs, `radio_station.html` calls `setInterval(refreshStats, 30000)`, and yt-dlp
and Icecast are assumed to answer or to fail (the HTTP client sets no timeout of its
own).  Nothing is assumed about requests
(nobody need ask), about intervals passing, about faults, or about busy
timeouts: the waits in `CallsAnswered` end because the locks are released, not
because somebody gives up.

## 5. What is proved

With TLAPS, from the specifications without fairness.  For every value of the
constants, all faults included:

| Module | Theorems (the property in parentheses) |
|---|---|
| `ImportRunsProofs` | `TypeCorrect`, `OwnershipTheorem` (`RunOwnership`), `LedgerImplemented` (`LedgerRefinement`) |
| `LibraryImportProofs` | `LibraryTypeCorrect`, `TracksArePlayable` (`StreamsPlay`), `OkMeansComplete` (`OkRunIsComplete`), `ItemsAreTrue` (`ItemTruth`), `LibraryImplemented` (`LibraryRefinement`), `CopiesAreBounded` (`CopiesBound`), `RunsComeToAnEnd` (`RunsAdvance`), `RunsAreShort` |
| `RadioQueueProofs` | `RadioTypeCorrect`, `ServedInTurn` (`InTurn`), `RotationImplemented` (`RotationRefinement`), `ShownIsAhead` (`UpNextIsAhead`) |
| `RadioLocksProofs` | `RequestsNeverDeadlock` (`NoDeadlock`) |
| `AccountsProofs` | `AccountsTypeCorrect`, `CreatedOncePerAddress` (`OneCreatedPerAddress`), `AccountsStayUsable` (`RegisteredCanLogIn`), `OnlyConfiguredGetIn` (`OnlyConfiguredAdmins`), `AdminsAreBounded` (`AdminsBound`), `BookImplemented` (`BookRefinement`) |
| `StationPageProofs` | `StationTypeCorrect`, `PageIsNewest` (`PageShowsNewest`), `CountsAreReported` (`CountWasReported`), `SettledIsStable` (`SettledStays`) |

Under a condition, which the theorem states:

| Theorem | Condition | Without it |
|---|---|---|
| `OverlapIsBounded` (`OverlapBound`), `WedgeLasts` (`WedgedStaysWedged`) | no statement fails | a COUNT that fails reads as 0: runs overlap without bound, a wedged source is free again |
| `OrderIsKept` (`OrderKept`) | no statement fails | a MAX that fails appends at the place in the listing |
| `RerunsHeal` (`RerunHeals`), `RerunsRepair` | one run at a time; runs may be stopped anywhere, statements and downloads work | another run takes the position or the video first |
| `SchedulerAloneSkips` (`SchedulerSkipsInFlight`) | no request imports, no statement fails; crashes may come | run `import_runs_inflight` |
| `RunningIsInFlight` (`RunningMeansInFlight`) | no faults | run `import_runs_orphan` |
| `LoneImportsAreLinked` (`ImportedIsLinked`) | one run at a time, only downloads fail | run `library_unlinked` |

The last three are claims of the project's README that section 6 refutes in
general; the theorems say when a reader may rely on them.

The assumptions on constants are the named `ASSUME`s of the modules: ids are
positive, the scheduler is not a request, playlists and listings are finite and
not empty (the code returns early on an empty one), workers are finitely many
where they are counted, lower-casing by Rust and then by SQLite changes nothing
more, the page shows no more tracks than pruning keeps, the faults are those
listed.

**The arguments.**  *ImportRuns*: `TypeOK` and `RunOwnership` are inductive
together: a worker between INSERT and finalize holds a row that is `running`,
of its source, and held by nobody else; so `MarkRun` is a `Close` of the ledger,
and `StampSource` a `Stamp`, because the row was closed by the statement before
it.  *LibraryImport*: what a worker learnt some statements ago must still be
true when it acts on it.  `Knows(w)` says so for the file it copied, the track,
the link, and every entry it passed without failing; it is kept because no step
removes a file, a track or a link, and because a fresh key is never reused.
Neither `StreamsPlay` nor `OkRunIsComplete` is inductive without it.
*RadioQueue*: `Local(w)` says which locks a request holds at each statement and
`Fresh(w)` that its count, position and video are those in the tables now.  A
commit requires `readers = {w}`; whoever else has read anything would be in
`readers`, so nobody is left whose reads the commit could make stale.  That is
the whole reason no entry is served twice, and it depends on the reads being in
the transaction (the mutant `CountAlone` takes one out).

`ShownIsAhead` follows every call between its two reads: what it read of the cursor
is still the cursor or has been served since, as long as nothing was imported.
`OverlapIsBounded` is inductive with the workers in the window between COUNT and
INSERT counted too, and `WedgeLasts` because the only way out of the window is an
INSERT and the only way into it a COUNT of 0.  `OrderIsKept` rests on `Knows`: the
entries passed are already linked, so nobody inserts one of them between the read
of MAX and the INSERT.

`RunsComeToAnEnd` compares the places of the statements (`Place`) before and after
each step, and needs only that a run's entry lies in its listing.  `RunsAreShort`
turns that into a number: twelve for each entry left, less the place in the
present one, falls with every step and is never negative.  This is the part of
`RunsFinish`'s argument that is not fairness.
*LoneRunProofs*: that one worker fails on nothing is inductive only with what its
reads mean (`AllAct`): alone, the video it is committing is still absent, the
video it is linking still unlinked, and the position it read above every position
taken.  `LoneImportsAreLinked` follows the one track that is on no playlist: it
is that of the entry at hand (`LinkPending`).
*RadioLocksProofs*: `LockInv` says that only a request inside a transaction or a
statement of its own holds a lock, and that `pending` means there is a writer.  A circle would need a
reader that waits for a writer; but a request that reads and then wants to write
does not wait, it is refused (`Advance`).  So the readers a commit waits for can
all go on, and so can the committing request when they have gone.  The mutant
`AdvanceLeavesOpen`, which keeps the refused transaction open, breaks it.
*When the README is right*: `SchedulerAloneSkips` is `OverlapBound` with one worker.
`RunningIsInFlight` needs no strengthening: without faults every step but the
INSERT and the UPDATE of a row leaves rows and owners alone, and those two change
both at once.
*Accounts*: a request between COUNT and INSERT knows only `Guarded(a)`: every row
that SQLite compares as equal to its address is *spelled* like it.  That is what
survives another INSERT in between, because stored spellings are lower-cased, and
it is just enough for UNIQUE to refuse the second row; `OneCreatedPerAddress` and
`BookRefinement` both come down to it.  It would fail if the address were stored as
typed (the mutant `NewUserAsTyped`).
*StationPage*: `Covered` says that for every row ever pruned at least `Keep` rows
that are not older remain in the table; then the newest `Show <= Keep` rows of the
table are newest among all, which a page that was loaded keeps (`Truthful`).
For `CountsAreReported` every request must be `Honest`: it asks for its station's
mount, or for the default one and the station is in `mistaken`, and carries to the
table what was `Reported` of that mount; both stay true because histories only grow.
`SettledIsStable` is its own induction step: if what is stored, carried by a request
and shown is Icecast's number, the fallback reads a number that is Icecast's too.
`Settled` also needs that requests on their way ask for the right mount, since the
answer to a failed lookup arrives by an ordinary step later.  It is the safety half of
`ListenersSettle`.

**Only model-checked:** the liveness properties `RunsFinish`, `OverdueIsServed`,
`CallsAnswered` and `ListenersSettle`, because the prover has no fairness.
`RunsAdvance`, `NoDeadlock` and `SettledStays` are the safety they rest on, and
are proved.  Every invariant and every other action property of the runs is stated by a theorem.

## 6. Findings

* `import_runs_inflight`: `src/README.md:236` "Scheduler runs skip sources that
  already have an in-flight run (`status = running`)."  COUNT and INSERT are two
  statements; a manual run and the scheduler's both pass the COUNT.
  `OverlapBound` says how bad it gets: one row per worker.  With no manual runs the
  claim holds (`SchedulerAloneSkips`).
* `import_runs_orphan`: the same line equates in-flight and `running`.  A row left by a
  crash (or by a client that disconnected: the handler's future is dropped) stays
  `running` and nothing repairs it; `WedgedStaysWedged` shows that the source is
  never imported again.  Without faults the equation holds (`RunningIsInFlight`).
* `library_unlinked`: `src/README.md:235` "Imported tracks are linked into the
  configured target playlist."  Position and INSERT are two statements; two
  sources with the same target read the same position and one link is refused
  after its track was committed.  `RerunHeals` shows that the source's next run,
  alone, repairs it, and `LoneImportsAreLinked` that it takes two runs to happen.

Observed and not a contradiction of any text: `next_track` answers from the
library, although the station has a queue, whenever its transaction meets
another writer, since the refused lock upgrade is not retried (`Advance`).
`InTurn` shows that the queue is not disturbed by it.

Seen in `Accounts`, again against no text: a password with blanks around it is
stored trimmed and verified as sent, so only its trimmed form logs in
(`RegisteredCanLogIn` says so); an address with a capital that only Unicode knows
is found by its stored spelling alone; the loser of a race of two registrations is
answered 500, not 409; and if somebody registers the configured address before the
first start with it, the program has no administrator.  Seen in `StationPage`: of
several tracks of one second, pruning may delete the newest; a source whose
URL or name contains a station's mount may be counted as the station's; and when
the mount of a station cannot be looked up, 0 or another station's number is stored
and answered as the station's until the next request (`MountLookupFails`), which is
why `CountWasReported` has its second case.

## 7. Not modelled

* **Job scheduler**: `last_run` and real time.  A tick of `ImportRuns` may come at
  any moment, which covers every interval, retry and restart; the two other jobs
  of the list are never scheduled by `main`, so `station_listener_sync_job`, which
  would store 0 during an outage, does not run.
* **ImportRuns with LibraryImport as one state space**: the outcome of a run is a
  choice in the first and computed in the second (`OkRunIsComplete`); their only
  shared variable is that outcome, and the product has too many states to add
  anything to the two.
* **Lost updates of `update_source`**: two overlapping updates may lose a setting;
  nothing promises that they do not.
* **Liquidsoap configuration**: text.  The slug of a station ends with its id, so
  slugs are distinct whatever the names.
* **Subsonic endpoints**: their authentication compares with a constant and they
  answer constants; **expiry of tokens**, JWT and password hashing: external.
* **Other web pages**, admin scaffold, health: read-only or constant.
* **Configuration, connection, migrations**: their effect is an assumption (pool of
  10, rollback journal, busy timeout).  The `CREATE TABLE IF NOT EXISTS` at the head
  of handlers finds its tables.
* **yt-dlp and the parsing of its listing**, conversion and backup jobs (stubs),
  documentation, Docker and CI files.
* Disk errors and files removed from `storage/` behind the program's back.  Time
  appears only as "the interval has passed", "the busy timeout has passed" and the
  timestamps of recent tracks.
