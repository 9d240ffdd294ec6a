--------------------------- MODULE LibraryImport ---------------------------
(***************************************************************************)
(* What an import run does to the library: ensure_playlist, the loop of    *)
(* run_source_import over the entries, import_entry, ensure_playlist_track *)
(* and upsert_item_state of infra/src/youtube_import.rs, and the reading   *)
(* side, track_stream of handlers/media.rs.                                *)
(*                                                                         *)
(* A run is under way from the moment ImportRuns lets it fetch: several    *)
(* can be, of the same source too.  Every statement is a step of its own;  *)
(* the only transaction is the one that inserts blob, track and            *)
(* attachment.  UNIQUE indexes reject rows; they are what the              *)
(* check-then-insert code relies on when runs overlap.                     *)
(*                                                                         *)
(* Faults: "stop"     the run ends between two statements (restart of the  *)
(*                    process, or its HTTP client disconnects)             *)
(*         "dbError"  a statement fails                                    *)
(*         "download" yt-dlp or the copy into storage/ fails               *)
(***************************************************************************)
EXTENDS Naturals, Sequences, FiniteSets

CONSTANTS
    Sources,        \* rows of youtube_playlist_sources
    Names,          \* names of target playlists
    Videos,         \* YouTube video ids
    Listings,       \* what the playlist of a source may hold when fetched, cut
                    \* at youtube_import_max_items_per_run
    Workers,        \* the scheduler and the "run now" requests
    Faults,
    MaxRuns         \* BOUND: runs and renames of targets

ASSUME ListingsAssumption == Listings \subseteq Seq(Videos) \ {<< >>}
ASSUME WorkersAssumption  == IsFiniteSet(Workers)
ASSUME FaultsAssumption   == Faults \subseteq {"stop", "dbError", "download"}
ASSUME MaxRunsAssumption  == MaxRuns \in Nat

VARIABLES
    target,         \* of each source: target_playlist_name and target_playlist_id
    playlists,      \* playlists: the name of each, the id is its place
    audio,          \* tracks with blob and attachment: the storage key of the
                    \* video's track, 0 when the video is not a track
    files,          \* storage keys with a file on disk
    links,          \* playlist_tracks
    items,          \* youtube_import_items
    job,            \* each worker's activation of the loop
    events          \* events counted against MaxRuns

vars == <<target, playlists, audio, files, links, items, job, events>>

Phases == {"idle", "find", "create", "retarget", "lookup", "download", "commit",
           "linked", "position", "link", "record", "failed", "finish"}

\* A worker's copy of the source (name, known), where it is in the listing,
\* and what it has found out about the entry at hand.
Idle == [at |-> "idle", src |-> 0, name |-> "", known |-> 0, listing |-> << >>,
         playlist |-> 0, entry |-> 1, key |-> 0, position |-> 0, failed |-> {}]

Row(p, v, n) == [playlist |-> p, video |-> v, position |-> n]
LinksOf(p)   == {l \in links : l.playlist = p}
Linked(p, v) == \E l \in LinksOf(p) : l.video = v

\* {COALESCE(MAX(position), 0) + 1}
NextPosition(p) ==
    {n \in {1} \union {l.position + 1 : l \in LinksOf(p)} :
        \A l \in LinksOf(p) : l.position < n}

Named(n) == {p \in DOMAIN playlists : playlists[p] = n}

At(w, phase) == job[w].at = phase
Video(w)     == job[w].listing[job[w].entry]
Goto(w, phase) == job' = [job EXCEPT ![w].at = phase]

DbFails == "dbError" \in Faults

-----------------------------------------------------------------------------

Init ==
    /\ target \in [Sources -> [name : Names, id : {0}]]
    /\ playlists = << >>
    /\ audio = [v \in Videos |-> 0]
    /\ files = {}
    /\ links = {}
    /\ items = [s \in Sources |-> [v \in Videos |-> [status |-> "none", track |-> FALSE]]]
    /\ job = [w \in Workers |-> Idle]
    /\ events = 0

\* update_source: the name changes, the id of the old playlist stays.
Rename(s, n) ==
    /\ events < MaxRuns
    /\ target[s].name # n
    /\ target' = [target EXCEPT ![s].name = n]
    /\ events' = events + 1
    /\ UNCHANGED <<playlists, audio, files, links, items, job>>

\* get_source and a successful fetch: the run keeps the source as it was.
Start(w, s, listing) ==
    /\ events < MaxRuns
    /\ At(w, "idle")
    /\ job' = [job EXCEPT ![w] =
                 [Idle EXCEPT !.at = "find", !.src = s, !.listing = listing,
                              !.name = target[s].name, !.known = target[s].id]]
    /\ events' = events + 1
    /\ UNCHANGED <<target, playlists, audio, files, links, items>>

-----------------------------------------------------------------------------
(* ensure_playlist, and the source's link to it.                           *)

\* Slip: the playlist is inserted without looking for it.
FindNothing(w) ==
    /\ At(w, "find")
    /\ Goto(w, "create")
    /\ UNCHANGED <<target, playlists, audio, files, links, items, events>>

\* SELECT ... LIMIT 1 without an index on name: the scan meets rows by id.
FindPlaylist(w) ==
    /\ At(w, "find")
    /\ LET found == Named(job[w].name)
       IN  IF found = {} THEN Goto(w, "create")
           ELSE \E p \in found :
                   /\ \A q \in found : p <= q
                   /\ job' = [job EXCEPT ![w].at = "retarget", ![w].playlist = p]
    /\ UNCHANGED <<target, playlists, audio, files, links, items, events>>

CreatePlaylist(w) ==
    /\ At(w, "create")
    /\ playlists' = Append(playlists, job[w].name)
    /\ job' = [job EXCEPT ![w].at = "retarget", ![w].playlist = Len(playlists) + 1]
    /\ UNCHANGED <<target, audio, files, links, items, events>>

\* Compared with the id the run read at its start; an error is ignored.
Retarget(w) ==
    /\ At(w, "retarget")
    /\ \/ /\ job[w].known # job[w].playlist
          /\ target' = [target EXCEPT ![job[w].src].id = job[w].playlist]
       \/ /\ job[w].known = job[w].playlist \/ DbFails
          /\ UNCHANGED target
    /\ Goto(w, "lookup")
    /\ UNCHANGED <<playlists, audio, files, links, items, events>>

-----------------------------------------------------------------------------
(* import_entry.                                                           *)

\* Slip: a track that exists is skipped without being linked.
LookupSkipsExisting(w) ==
    /\ At(w, "lookup")
    /\ Goto(w, IF audio[Video(w)] # 0 THEN "record" ELSE "download")
    /\ UNCHANGED <<target, playlists, audio, files, links, items, events>>

Lookup(w) ==
    /\ At(w, "lookup")
    /\ Goto(w, IF audio[Video(w)] # 0 THEN "linked" ELSE "download")
    /\ UNCHANGED <<target, playlists, audio, files, links, items, events>>

\* Slip: an error of the copy is ignored like that of remove_file.
DownloadWithoutCopy(w) ==
    /\ At(w, "download")
    /\ \E copied \in {{}, {Cardinality(files) + 1}} : files' = files \union copied
    /\ job' = [job EXCEPT ![w].at = "commit", ![w].key = Cardinality(files) + 1]
    /\ UNCHANGED <<target, playlists, audio, links, items, events>>

\* yt-dlp writes to a temporary directory; the copy below storage/ gets a
\* new uuid as its key.
Download(w) ==
    /\ At(w, "download")
    /\ LET key == Cardinality(files) + 1
       IN  /\ files' = files \union {key}
           /\ job' = [job EXCEPT ![w].at = "commit", ![w].key = key]
    /\ UNCHANGED <<target, playlists, audio, links, items, events>>

DownloadFails(w) ==
    /\ "download" \in Faults
    /\ At(w, "download")
    /\ Goto(w, "failed")
    /\ UNCHANGED <<target, playlists, audio, files, links, items, events>>

\* The transaction; tracks.youtube_video_id is UNIQUE.
CommitTrack(w) ==
    /\ At(w, "commit")
    /\ IF audio[Video(w)] = 0
       THEN /\ audio' = [audio EXCEPT ![Video(w)] = job[w].key]
            /\ Goto(w, "linked")
       ELSE /\ Goto(w, "failed")
            /\ UNCHANGED audio
    /\ UNCHANGED <<target, playlists, files, links, items, events>>

-----------------------------------------------------------------------------
(* ensure_playlist_track.                                                  *)

\* Slip: the COUNT forgets playlist_id = ?.
CheckLinkedAnywhere(w) ==
    /\ At(w, "linked")
    /\ Goto(w, IF \E l \in links : l.video = Video(w) THEN "record" ELSE "position")
    /\ UNCHANGED <<target, playlists, audio, files, links, items, events>>

\* Slip: no COUNT, the UNIQUE index alone decides.
CheckLinkedNever(w) ==
    /\ At(w, "linked")
    /\ Goto(w, "position")
    /\ UNCHANGED <<target, playlists, audio, files, links, items, events>>

\* The COUNT; its error counts as "not linked".
CheckLinked(w) ==
    /\ At(w, "linked")
    /\ \/ Linked(job[w].playlist, Video(w)) /\ Goto(w, "record")
       \/ (~Linked(job[w].playlist, Video(w)) \/ DbFails) /\ Goto(w, "position")
    /\ UNCHANGED <<target, playlists, audio, files, links, items, events>>

\* Slip: the place in the listing is the position.
PositionIsHint(w) ==
    /\ At(w, "position")
    /\ job' = [job EXCEPT ![w].at = "link", ![w].position = job[w].entry]
    /\ UNCHANGED <<target, playlists, audio, files, links, items, events>>

\* MAX(position) + 1, its error replaced by the entry's place in the listing,
\* and never less than that place.
ReadPosition(w) ==
    /\ At(w, "position")
    /\ \E next \in NextPosition(job[w].playlist)
                   \union (IF DbFails THEN {job[w].entry} ELSE {}) :
          job' = [job EXCEPT ![w].at = "link",
                             ![w].position = IF next < job[w].entry THEN job[w].entry ELSE next]
    /\ UNCHANGED <<target, playlists, audio, files, links, items, events>>

\* Slip: ON CONFLICT (playlist_id, track_id) DO UPDATE SET position.
InsertOrMoveLink(w) ==
    /\ At(w, "link")
    /\ LET row == Row(job[w].playlist, Video(w), job[w].position)
           others == {l \in links : l.playlist # row.playlist \/ l.video # row.video}
           taken == \E l \in others : l.playlist = row.playlist /\ l.position = row.position
       IN  IF taken THEN Goto(w, "failed") /\ UNCHANGED links
                    ELSE Goto(w, "record") /\ links' = others \union {row}
    /\ UNCHANGED <<target, playlists, audio, files, items, events>>

\* UNIQUE(playlist_id, track_id), UNIQUE(playlist_id, position).
InsertLink(w) ==
    /\ At(w, "link")
    /\ LET row == Row(job[w].playlist, Video(w), job[w].position)
           conflict == \E l \in LinksOf(row.playlist) :
                          l.video = row.video \/ l.position = row.position
       IN  IF conflict THEN Goto(w, "failed") /\ UNCHANGED links
                       ELSE Goto(w, "record") /\ links' = links \union {row}
    /\ UNCHANGED <<target, playlists, audio, files, items, events>>

-----------------------------------------------------------------------------
(* The loop of run_source_import.                                          *)

Advance(w, failed) ==
    LET last == job[w].entry = Len(job[w].listing)
    IN  job' = [job EXCEPT ![w].at = IF last THEN "finish" ELSE "lookup",
                           ![w].entry = IF last THEN @ ELSE @ + 1,
                           ![w].failed = failed]

\* Two upserts, with the track id and without (COALESCE keeps it); either may
\* fail unnoticed.
RecordOk(w) ==
    /\ At(w, "record")
    /\ LET old == items[job[w].src][Video(w)]
       IN  \E new \in {[status |-> "ok", track |-> TRUE]}
                      \union (IF DbFails THEN {old, [old EXCEPT !.status = "ok"]} ELSE {}) :
              items' = [items EXCEPT ![job[w].src][Video(w)] = new]
    /\ Advance(w, job[w].failed)
    /\ UNCHANGED <<target, playlists, audio, files, links, events>>

\* Slip: the status of the run is written to the item.
RecordPartial(w) ==
    /\ At(w, "failed")
    /\ items' = [items EXCEPT ![job[w].src][Video(w)].status = "partial"]
    /\ Advance(w, job[w].failed \union {job[w].entry})
    /\ UNCHANGED <<target, playlists, audio, files, links, events>>

\* Slip: an entry that failed is tried again at once.
RecordFailureRetries(w) ==
    /\ At(w, "failed")
    /\ items' = [items EXCEPT ![job[w].src][Video(w)].status = "failed"]
    /\ job' = [job EXCEPT ![w].at = "lookup", ![w].failed = @ \union {job[w].entry}]
    /\ UNCHANGED <<target, playlists, audio, files, links, events>>

RecordFailure(w) ==
    /\ At(w, "failed")
    /\ \/ items' = [items EXCEPT ![job[w].src][Video(w)].status = "failed"]
       \/ DbFails /\ UNCHANGED items
    /\ Advance(w, job[w].failed \union {job[w].entry})
    /\ UNCHANGED <<target, playlists, audio, files, links, events>>

\* The run is reported: "ok" when failed is empty, else "partial".
Finish(w) ==
    /\ At(w, "finish")
    /\ job' = [job EXCEPT ![w] = Idle]
    /\ UNCHANGED <<target, playlists, audio, files, links, items, events>>

-----------------------------------------------------------------------------

\* A statement of import_entry fails: the entry is counted and the loop goes on.
EntryError(w) ==
    /\ DbFails
    /\ job[w].at \in {"lookup", "commit", "link"}
    /\ Goto(w, "failed")
    /\ UNCHANGED <<target, playlists, audio, files, links, items, events>>

\* ensure_playlist fails (`?`), or the run is stopped from outside.
Stop(w) ==
    /\ ~At(w, "idle")
    /\ "stop" \in Faults \/ (DbFails /\ job[w].at \in {"find", "create"})
    /\ job' = [job EXCEPT ![w] = Idle]
    /\ UNCHANGED <<target, playlists, audio, files, links, items, events>>

Step(w) ==
    \/ FindPlaylist(w) \/ CreatePlaylist(w) \/ Retarget(w)
    \/ Lookup(w) \/ Download(w) \/ CommitTrack(w)
    \/ CheckLinked(w) \/ ReadPosition(w) \/ InsertLink(w)
    \/ RecordOk(w) \/ RecordFailure(w) \/ Finish(w)

Next ==
    \/ \E s \in Sources, n \in Names : Rename(s, n)
    \/ \E w \in Workers, s \in Sources, listing \in Listings : Start(w, s, listing)
    \/ \E w \in Workers : Step(w) \/ DownloadFails(w) \/ EntryError(w) \/ Stop(w)

Spec == Init /\ [][Next]_vars

-----------------------------------------------------------------------------
(* The reading side.                                                       *)

\* GET /tracks/:id/stream: 404 without a track, 404 without its file.
TrackStream(v) ==
    IF audio[v] = 0 THEN "no track" ELSE IF audio[v] \in files THEN "audio" ELSE "no file"

-----------------------------------------------------------------------------
(* Properties.                                                             *)

\* Every table, file and worker holds values the program gives them.
TypeOK ==
    /\ target \in [Sources -> [name : Names, id : Nat]]
    /\ playlists \in Seq(Names)
    /\ audio \in [Videos -> Nat]
    /\ files \subseteq Nat
    /\ links \subseteq [playlist : Nat, video : Videos, position : Nat]
    /\ items \in [Sources -> [Videos -> [status : {"none", "ok", "failed"}, track : BOOLEAN]]]
    /\ job \in [Workers ->
                 [at : Phases, src : Sources \union {0}, name : Names \union {""}, known : Nat,
                  listing : Listings \union {<< >>}, playlist : Nat, entry : Nat, key : Nat,
                  position : Nat, failed : SUBSET Nat]]

\* A track that can be found can be played: its file is below storage/ before
\* the transaction makes it visible, and overlapping, failing or stopped runs
\* never leave a track whose stream is a 404.
StreamsPlay == \A v \in Videos : TrackStream(v) # "no file"

\* Runs, interleaved and interrupted, implement the library that only grows.
Library == INSTANCE MusicLibrary WITH
    tracks   <- {v \in Videos : audio[v] # 0},
    playable <- {v \in Videos : TrackStream(v) = "audio"},
    shelf    <- links

LibraryRefinement == Library!Spec

\* What an administrator reads in youtube_import_items is true: an entry shown
\* as imported is a track on a playlist, and imported_track_id is never set
\* without a track, although items are written last and their errors ignored.
ItemTruth ==
    \A s \in Sources, v \in Videos :
        /\ items[s][v].status = "ok" => audio[v] # 0 /\ \E l \in links : l.video = v
        /\ items[s][v].track => audio[v] # 0

\* A run reported "ok" did all of its work: every entry of the listing is a
\* track and on the run's playlist, whatever other runs did meanwhile.
OkRunIsComplete ==
    \A w \in Workers :
        At(w, "finish") /\ job[w].failed = {} =>
            \A i \in DOMAIN job[w].listing :
                /\ audio[job[w].listing[i]] # 0
                /\ Linked(job[w].playlist, job[w].listing[i])

\* The statements of run_source_import in the order of the program.
Place == [find |-> 1, create |-> 2, retarget |-> 3, lookup |-> 4, download |-> 5,
          commit |-> 6, linked |-> 7, position |-> 8, link |-> 9, record |-> 10,
          failed |-> 11, finish |-> 12]

\* A run comes to its end whatever fails and whoever interferes: each step of
\* it goes on to a later statement of the entry at hand or to a later entry of
\* the same listing, or ends the run.  No failure, lost race or unlucky
\* interleaving makes a run handle an entry twice or go round for ever.
RunsAdvance ==
    [][\A w \in Workers :
          ~At(w, "idle") /\ job'[w] # job[w] /\ job'[w].at # "idle" =>
              /\ job'[w].listing = job[w].listing
              /\ job'[w].entry \in job[w].entry .. Len(job[w].listing)
              /\ job'[w].entry = job[w].entry => Place[job[w].at] < Place[job'[w].at]]_vars

\* Without failing statements an import keeps the order of the listing: what
\* it appends comes after every earlier entry it did not fail on, also when
\* other runs append to the same playlist.
OrderKept ==
    [][\A w \in Workers :
          At(w, "link") /\ links' # links /\ job'[w] # job[w] =>
              \A i \in 1..(job[w].entry - 1) \ job[w].failed :
                  \A l \in LinksOf(job[w].playlist) :
                      l.video = job[w].listing[i] => l.position < job[w].position]_vars

\* playlists.name is not UNIQUE, but find-or-create makes at most one copy of
\* a name per worker: a race duplicates a playlist, later runs do not.
CopiesBound ==
    \A n \in Names :
        Cardinality(Named(n)) + Cardinality({w \in Workers : At(w, "create") /\ job[w].name = n})
            <= Cardinality(Workers)

\* A run that is alone and whose downloads work fails on no entry, wherever
\* earlier runs were stopped: running the source again is the repair.
RerunHeals == \A w \in Workers : job[w].failed = {}

\* src/README.md, "Import behavior": "Imported tracks are linked into the
\* configured target playlist."  With no run under way, every track is.
ImportedIsLinked ==
    (\A w \in Workers : At(w, "idle")) =>
        \A v \in Videos : audio[v] # 0 => \E l \in links : l.video = v
=============================================================================
