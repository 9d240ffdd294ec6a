----------------------------- MODULE RadioQueue -----------------------------
(***************************************************************************)
(* The imported queue of a radio station: next_track, up_next and          *)
(* import_youtube of axum-app/src/handlers/radio.rs and the list of the    *)
(* station page of web.rs, statement by statement, on a SQLite database in *)
(* rollback-journal mode.                                                  *)
(*                                                                         *)
(* next_import_item reads and advances the cursor in one transaction and   *)
(* import_youtube replaces the queue in one.  Both are BEGIN DEFERRED: the *)
(* locks come with the statements, and the outcome of a race is decided by *)
(* them.  A read takes SHARED, a write RESERVED, a commit PENDING and,     *)
(* when the last reader has left, EXCLUSIVE.  A statement that is the      *)
(* first of its transaction waits for its lock; a transaction that has     *)
(* read and finds another writer gets SQLITE_BUSY at once.                 *)
(*                                                                         *)
(* Faults: "busy" a wait exceeds the busy timeout of 5 s                   *)
(*         "stop" the handler is dropped, its transaction rolled back      *)
(***************************************************************************)
EXTENDS Naturals, Sequences, FiniteSets

CONSTANTS
    Stations,
    Videos,
    Playlists,      \* what yt-dlp may return for an imported URL
    Callers,        \* requests being served
    Limit,          \* entries shown by up_next, 8 in the program
    Faults,
    MaxCalls        \* BOUND: requests

ASSUME PlaylistsAssumption == Playlists \subseteq Seq(Videos) \ {<< >>}
ASSUME LimitAssumption     == Limit \in Nat \ {0}
ASSUME FaultsAssumption    == Faults \subseteq {"busy", "stop"}
ASSUME MaxCallsAssumption  == MaxCalls \in Nat

VARIABLES
    queue,          \* radio_station_import_items of each station, by position
    cursor,         \* radio_station_import_state.next_position
    served,         \* history: the entries handed out since the last import
    imports,        \* history: the imports of each station
    readers,        \* callers holding SHARED
    writer,         \* the callers holding RESERVED or more: one at most
    pending,        \* it holds PENDING
    call,           \* each caller's request
    calls           \* requests counted against MaxCalls

tables == <<queue, cursor, served, imports>>
locks  == <<readers, writer, pending>>
vars   == <<queue, cursor, served, imports, readers, writer, pending, call, calls>>

Phases == {"idle",
           "count", "position", "entry", "advance",       \* next_import_item
           "announce", "announcing", "fallback",          \* the rest of next_track
           "clear",                                       \* import_youtube
           "commit", "exclusive",                         \* of either transaction
           "where", "rows", "shown"}                      \* up_next, station page

\* batch is the playlist being imported; moment is history: the imports and the
\* number of entries served when up_next read the cursor.
Idle == [at |-> "idle", station |-> 0, count |-> 0, position |-> 1, video |-> "",
         batch |-> << >>, shown |-> << >>, moment |-> <<0, 0>>]

At(w, phase) == call[w].at = phase
Goto(w, phase) == call' = [call EXCEPT ![w].at = phase]
QueueOf(w) == queue[call[w].station]

-----------------------------------------------------------------------------
(* SQLite's locks.                                                         *)

CanRead(w)  == w \in readers \/ ~pending
CanWrite(w) == writer = {}

Share(w)   == readers' = readers \union {w} /\ UNCHANGED <<writer, pending>>
Reserve(w) == readers' = readers \union {w} /\ writer' = {w} /\ UNCHANGED pending

Release(w) ==
    /\ readers' = readers \ {w}
    /\ writer' = writer \ {w}
    /\ pending' = (pending /\ w \notin writer)

-----------------------------------------------------------------------------

\* The program starts on the database of an earlier one, here one that has
\* imported a playlist or none.
Init ==
    /\ queue \in [Stations -> Playlists \union {<< >>}]
    /\ cursor = [s \in Stations |-> 1]
    /\ served = [s \in Stations |-> << >>]
    /\ imports = [s \in Stations |-> 0]
    /\ readers = {} /\ writer = {} /\ pending = FALSE
    /\ call = [w \in Callers |-> Idle]
    /\ calls = 0

\* GET next_track, GET up_next, or any other statement of the program that
\* writes.
Request(w, s, phase) ==
    /\ calls < MaxCalls
    /\ At(w, "idle")
    /\ call' = [call EXCEPT ![w] = [Idle EXCEPT !.at = phase, !.station = s]]
    /\ calls' = calls + 1
    /\ UNCHANGED <<tables, locks>>

\* GET /radio/:id: load_up_next_rows is get_up_next_items without the positions,
\* and the page is rendered without a list when a statement fails.
PageRequest(w, s) == Request(w, s, "where")

\* POST import_youtube whose playlist was fetched and is not empty.
RequestImport(w, s, playlist) ==
    /\ calls < MaxCalls
    /\ At(w, "idle")
    /\ call' = [call EXCEPT ![w] = [Idle EXCEPT !.at = "clear", !.station = s, !.batch = playlist]]
    /\ calls' = calls + 1
    /\ UNCHANGED <<tables, locks>>

-----------------------------------------------------------------------------
(* next_import_item.                                                       *)

\* Slip: the SELECTs are not in the transaction of the upsert.
CountAlone(w) ==
    /\ At(w, "count")
    /\ CanRead(w)
    /\ IF QueueOf(w) = << >>
       THEN Goto(w, "fallback")
       ELSE call' = [call EXCEPT ![w].at = "position", ![w].count = Len(QueueOf(w))]
    /\ UNCHANGED <<tables, locks, calls>>

\* SELECT COUNT(*); an empty queue ends the transaction.
Count(w) ==
    /\ At(w, "count")
    /\ CanRead(w)
    /\ IF QueueOf(w) = << >>
       THEN Goto(w, "fallback") /\ UNCHANGED locks
       ELSE /\ call' = [call EXCEPT ![w].at = "position", ![w].count = Len(QueueOf(w))]
            /\ Share(w)
    /\ UNCHANGED <<tables, calls>>

\* next_position.clamp(1, count).
Clamp(p, count) == IF p < 1 THEN 1 ELSE IF p > count THEN count ELSE p

ReadCursor(w) ==
    /\ At(w, "position")
    /\ call' = [call EXCEPT ![w].at = "entry",
                            ![w].position = Clamp(cursor[call[w].station], call[w].count)]
    /\ UNCHANGED <<tables, locks, calls>>

ReadEntry(w) ==
    /\ At(w, "entry")
    /\ IF call[w].position \in DOMAIN QueueOf(w)
       THEN /\ call' = [call EXCEPT ![w].at = "advance",
                                    ![w].video = QueueOf(w)[call[w].position]]
            /\ UNCHANGED locks
       ELSE Goto(w, "fallback") /\ Release(w)
    /\ UNCHANGED <<tables, calls>>

\* Slip: a busy statement is retried instead of failing.
AdvanceRetries(w) ==
    /\ At(w, "advance")
    /\ CanWrite(w) /\ ~pending
    /\ Goto(w, "commit")
    /\ Reserve(w)
    /\ UNCHANGED <<tables, calls>>

\* Slip: the error returns without a ROLLBACK and its connection goes back to
\* the pool.
AdvanceLeavesOpen(w) ==
    /\ At(w, "advance")
    /\ IF CanWrite(w) THEN Goto(w, "commit") /\ Reserve(w)
                      ELSE Goto(w, "fallback") /\ UNCHANGED locks
    /\ UNCHANGED <<tables, calls>>

\* The upsert of the cursor turns SHARED into RESERVED, or fails at once: the
\* error drops the transaction and next_track falls back to the library.
Advance(w) ==
    /\ At(w, "advance")
    /\ IF CanWrite(w) THEN Goto(w, "commit") /\ Reserve(w)
                      ELSE Goto(w, "fallback") /\ Release(w)
    /\ UNCHANGED <<tables, calls>>

-----------------------------------------------------------------------------
(* import_youtube.                                                         *)

\* DELETE, the first statement of its transaction; the INSERTs and the upsert of
\* the cursor that follow need no other lock and are not seen before the commit.
Clear(w) ==
    /\ At(w, "clear")
    /\ CanRead(w) /\ CanWrite(w)
    /\ Goto(w, "commit")
    /\ Reserve(w)
    /\ UNCHANGED <<tables, calls>>

-----------------------------------------------------------------------------
(* COMMIT of either transaction.                                           *)

\* No new reader from here on.
BeginCommit(w) ==
    /\ At(w, "commit")
    /\ Goto(w, "exclusive")
    /\ pending' = TRUE
    /\ UNCHANGED <<tables, readers, writer, calls>>

\* Slip: zero-based positions.
FollowingZeroBased(p, n) == (p + 1) % n

Following(p, n) == IF p >= n THEN 1 ELSE p + 1

Entry(p, v) == [position |-> p, video |-> v]

CommitAdvance(w) ==
    LET s == call[w].station
    IN  /\ At(w, "exclusive") /\ call[w].batch = << >>
        /\ readers = {w}
        /\ cursor' = [cursor EXCEPT ![s] = Following(call[w].position, call[w].count)]
        /\ served' = [served EXCEPT ![s] = Append(@, Entry(call[w].position, call[w].video))]
        /\ Goto(w, "announce")
        /\ Release(w)
        /\ UNCHANGED <<queue, imports, calls>>

\* Slip: the cursor is left where it was.
CommitImportKeepsCursor(w) ==
    LET s == call[w].station
    IN  /\ At(w, "exclusive") /\ call[w].batch # << >>
        /\ readers = {w}
        /\ queue' = [queue EXCEPT ![s] = call[w].batch]
        /\ served' = [served EXCEPT ![s] = << >>]
        /\ imports' = [imports EXCEPT ![s] = @ + 1]
        /\ call' = [call EXCEPT ![w] = Idle]
        /\ Release(w)
        /\ UNCHANGED <<cursor, calls>>

CommitImport(w) ==
    LET s == call[w].station
    IN  /\ At(w, "exclusive") /\ call[w].batch # << >>
        /\ readers = {w}
        /\ queue' = [queue EXCEPT ![s] = call[w].batch]
        /\ cursor' = [cursor EXCEPT ![s] = 1]
        /\ served' = [served EXCEPT ![s] = << >>]
        /\ imports' = [imports EXCEPT ![s] = @ + 1]
        /\ call' = [call EXCEPT ![w] = Idle]
        /\ Release(w)
        /\ UNCHANGED calls

-----------------------------------------------------------------------------
(* The rest of next_track.                                                 *)

\* upsert_runtime_state, a transaction of its own.  No handler reads the row:
\* what counts is that it locks the database.
Announce(w) ==
    /\ At(w, "announce")
    /\ CanRead(w) /\ CanWrite(w)
    /\ Goto(w, "announcing")
    /\ readers' = readers \union {w} /\ writer' = {w} /\ pending' = TRUE
    /\ UNCHANGED <<tables, calls>>

\* Then the stream URL is resolved and the request answered.
Announced(w) ==
    /\ At(w, "announcing")
    /\ readers = {w}
    /\ call' = [call EXCEPT ![w] = Idle]
    /\ Release(w)
    /\ UNCHANGED <<tables, calls>>

\* The station's first library track, or the demo stream.
Fallback(w) ==
    /\ At(w, "fallback")
    /\ CanRead(w)
    /\ call' = [call EXCEPT ![w] = Idle]
    /\ UNCHANGED <<tables, locks, calls>>

-----------------------------------------------------------------------------
(* get_up_next_items and load_up_next_rows: two statements, no transaction.  *)

ReadWhere(w) ==
    LET s == call[w].station
    IN  /\ At(w, "where")
        /\ CanRead(w)
        /\ call' = [call EXCEPT ![w].at = "rows", ![w].position = cursor[s],
                                ![w].moment = <<imports[s], Len(served[s])>>]
        /\ UNCHANGED <<tables, locks, calls>>

\* Slip: the entry at the cursor is taken for the one that is playing.
UpNextAfter(q, p) ==
    LET start == IF p \in DOMAIN q THEN p ELSE 1
        size  == IF Len(q) < Limit THEN Len(q) ELSE Limit
    IN  [i \in 1..size |-> IF start + i > Len(q) THEN start + i - Len(q) ELSE start + i]

\* The positions shown: from the cursor, or from the first when it is not the
\* position of a row, and around.
UpNext(q, p) ==
    LET start == IF p \in DOMAIN q THEN p ELSE 1
        size  == IF Len(q) < Limit THEN Len(q) ELSE Limit
        place(i) == start + i - 1
    IN  [i \in 1..size |-> IF place(i) > Len(q) THEN place(i) - Len(q) ELSE place(i)]

ReadRows(w) ==
    /\ At(w, "rows")
    /\ CanRead(w)
    /\ call' = [call EXCEPT ![w].at = "shown", ![w].shown = UpNext(QueueOf(w), call[w].position)]
    /\ UNCHANGED <<tables, locks, calls>>

Show(w) ==
    /\ At(w, "shown")
    /\ call' = [call EXCEPT ![w] = Idle]
    /\ UNCHANGED <<tables, locks, calls>>

-----------------------------------------------------------------------------

\* The statement at hand needs a lock that is not free.
Waits(w) ==
    \/ call[w].at \in {"count", "fallback", "where", "rows"} /\ ~CanRead(w)
    \/ call[w].at \in {"clear", "announce"} /\ ~(CanRead(w) /\ CanWrite(w))
    \/ call[w].at \in {"exclusive", "announcing"} /\ readers # {w}

\* A lock is not free within 5 s: next_import_item falls back, the runtime
\* state is not written, up_next and import_youtube answer 500.
TimesOut(w) ==
    /\ "busy" \in Faults
    /\ Waits(w)
    /\ call' = [call EXCEPT ![w] =
                  IF At(w, "count") \/ (At(w, "exclusive") /\ call[w].batch = << >>)
                  THEN [@ EXCEPT !.at = "fallback"] ELSE Idle]
    /\ Release(w)
    /\ UNCHANGED <<tables, calls>>

\* The client disconnects: axum drops the handler, sqlx rolls back.
Stop(w) ==
    /\ "stop" \in Faults
    /\ ~At(w, "idle")
    /\ call' = [call EXCEPT ![w] = Idle]
    /\ Release(w)
    /\ UNCHANGED <<tables, calls>>

Step(w) ==
    \/ Count(w) \/ ReadCursor(w) \/ ReadEntry(w) \/ Advance(w)
    \/ Clear(w) \/ BeginCommit(w) \/ CommitAdvance(w) \/ CommitImport(w)
    \/ Announce(w) \/ Announced(w) \/ Fallback(w)
    \/ ReadWhere(w) \/ ReadRows(w) \/ Show(w)

Next ==
    \E w \in Callers :
        \/ \E s \in Stations : \/ PageRequest(w, s)
                               \/ \E phase \in {"count", "where", "announce"} : Request(w, s, phase)
                               \/ \E playlist \in Playlists : RequestImport(w, s, playlist)
        \/ Step(w) \/ TimesOut(w) \/ Stop(w)

Spec == Init /\ [][Next]_vars

\* tokio polls a handler that can go on, SQLite returns from a statement that
\* has its lock.  Nobody has to ask, and no wait has to be too long.
FairSpec == Spec /\ \A w \in Callers : WF_vars(Step(w))

-----------------------------------------------------------------------------
(* Properties.                                                             *)

\* Tables, locks and requests hold values the program gives them.
TypeOK ==
    /\ queue \in [Stations -> Playlists \union {<< >>}]
    /\ cursor \in [Stations -> Nat \ {0}]
    /\ served \in [Stations -> Seq([position : Nat, video : Videos])]
    /\ imports \in [Stations -> Nat]
    /\ readers \subseteq Callers /\ writer \subseteq readers /\ pending \in BOOLEAN
    /\ call \in [Callers ->
                  [at : Phases, station : Stations \union {0}, count : Nat, position : Nat,
                   video : Videos \union {""}, batch : Playlists \union {<< >>},
                   shown : Seq(Nat), moment : Nat \X Nat]]

\* Whatever requests overlap, entries are handed out in turn from the first:
\* none twice, none left out, and the cursor is where the last one ended.
InTurn ==
    \A s \in {t \in Stations : queue[t] # << >>} :
        LET n == Len(queue[s])
            after(i) == IF i = 0 THEN 1
                        ELSE IF served[s][i].position = n THEN 1 ELSE served[s][i].position + 1
        IN  /\ \A i \in DOMAIN served[s] :
                  served[s][i] = Entry(after(i - 1), queue[s][after(i - 1)])
            /\ cursor[s] = after(Len(served[s]))

\* The handlers implement the queue as one atomic step per request.
Queue == INSTANCE Rotation

RotationRefinement == Queue!Spec

\* up_next reads cursor and rows at different moments.  Unless a playlist was
\* imported in between, its list starts with the entry that is next or with one
\* handed out since it was asked, and goes on in turn without repeating one.
UpNextIsAhead ==
    \A w \in Callers :
        LET s == call[w].station
            list == call[w].shown
        IN  At(w, "shown") /\ list # << >> /\ call[w].moment[1] = imports[s] =>
               /\ \/ list[1] = cursor[s]
                  \/ \E i \in call[w].moment[2] + 1 .. Len(served[s]) :
                        served[s][i].position = list[1]
               /\ \A i \in 2..Len(list) :
                     /\ list[i] = IF list[i - 1] = Len(queue[s]) THEN 1 ELSE list[i - 1] + 1
                     /\ list[i] # list[1]

\* There is never a circle of requests that wait for each other's locks, nor a
\* lock left behind by a request that is gone: while requests are under way,
\* one of them can go on, without waiting for the busy timeout to break a tie.
NoDeadlock ==
    (\E w \in Callers : ~At(w, "idle")) => \E w \in Callers : ~At(w, "idle") /\ ~Waits(w)

\* Readers that want to write and writers that wait for readers do not wait
\* for each other: every request is answered.
CallsAnswered == \A w \in Callers : ~At(w, "idle") ~> At(w, "idle")
=============================================================================
