------------------------ MODULE LibraryImportProofs ------------------------
(***************************************************************************)
(* Theorems about LibraryImport, for all sources, listings, workers and    *)
(* faults.                                                                 *)
(*                                                                         *)
(* A worker acts on what it learnt several statements ago: that its file   *)
(* was copied, that the track exists, that it is linked.  Knows(w) says    *)
(* that what a worker believes of the entry at hand, and of every entry it *)
(* passed without failing, is true of the tables now.  That is what        *)
(* StreamsPlay and OkRunIsComplete need to be inductive, and it is kept    *)
(* because no step of any worker removes a file, a track or a link         *)
(* (Grows).                                                                *)
(***************************************************************************)
EXTENDS LibraryImport, SequenceTheorems, FiniteSetTheorems, TLAPS

JobRecords == [at : Phases, src : Sources \union {0}, name : Names \union {""}, known : Nat,
               listing : Listings \union {<< >>}, playlist : Nat, entry : Nat, key : Nat,
               position : Nat, failed : SUBSET Nat]

\* Entry i of w's listing is a track on w's playlist.
Done(w, i) ==
    /\ audio[job[w].listing[i]] # 0
    /\ Linked(job[w].playlist, job[w].listing[i])

\* Whose run it is, and where it is in a listing.
Bounds(w) ==
    /\ job[w].src \in Sources /\ job[w].name \in Names
    /\ job[w].listing \in Listings
    /\ job[w].entry \in 1..Len(job[w].listing)
    /\ At(w, "finish") => job[w].entry = Len(job[w].listing)

Knows(w) ==
    /\ At(w, "commit") => job[w].key \in files
    /\ job[w].at \in {"linked", "position", "link", "record"} => audio[Video(w)] # 0
    /\ At(w, "record") => Linked(job[w].playlist, Video(w))
    /\ job[w].at \in {"find", "create"} => job[w].entry = 1
    /\ \A i \in DOMAIN job[w].listing \ job[w].failed :
          i < job[w].entry \/ At(w, "finish") => Done(w, i)

JobsKnow == \A w \in Workers : ~At(w, "idle") => Bounds(w) /\ Knows(w)

FilesOK == IsFiniteSet(files) /\ 0 \notin files

IInv == TypeOK /\ FilesOK /\ StreamsPlay /\ JobsKnow

-----------------------------------------------------------------------------

\* A non-empty listing has a first entry and its entries are videos.
LEMMA ListingFacts ==
    ASSUME NEW l \in Listings
    PROVE  /\ Len(l) \in Nat \ {0} /\ DOMAIN l = 1..Len(l)
           /\ \A i \in 1..Len(l) : l[i] \in Videos
  <1>1. l \in Seq(Videos) /\ l # << >>
    BY ListingsAssumption
  <1>2. l \in [1..Len(l) -> Videos] /\ Len(l) \in Nat /\ DOMAIN l = 1..Len(l)
    BY <1>1, LenProperties
  <1>3. Len(l) # 0
    BY <1>1, EmptySeq
  <1> QED
    BY <1>2, <1>3

\* The entry at hand is a video.
LEMMA VideoIsVideo ==
    ASSUME NEW w \in Workers, Bounds(w)
    PROVE  /\ Video(w) \in Videos /\ job[w].entry \in Nat \ {0}
           /\ Len(job[w].listing) \in Nat \ {0}
  BY ListingFacts DEF Bounds, Video

LEMMA JobUpdate ==
    ASSUME TypeOK, NEW w \in Workers, NEW c \in JobRecords, job' = [job EXCEPT ![w] = c]
    PROVE  /\ job' \in [Workers -> JobRecords]
           /\ job'[w] = c /\ \A v \in Workers \ {w} : job'[v] = job[v]
  BY DEF TypeOK, JobRecords

\* A worker that only moves on to another phase.
LEMMA GotoFacts ==
    ASSUME TypeOK, NEW w \in Workers, NEW p \in Phases, Goto(w, p)
    PROVE  /\ job' \in [Workers -> JobRecords]
           /\ job'[w] = [job[w] EXCEPT !.at = p]
           /\ job'[w].at = p
           /\ job'[w].src = job[w].src /\ job'[w].name = job[w].name
           /\ job'[w].listing = job[w].listing /\ job'[w].entry = job[w].entry
           /\ job'[w].playlist = job[w].playlist /\ job'[w].key = job[w].key
           /\ job'[w].failed = job[w].failed
           /\ \A v \in Workers \ {w} : job'[v] = job[v]
  <1> DEFINE c == [job[w] EXCEPT !.at = p]
  <1>0. job[w] \in JobRecords
    BY DEF TypeOK, JobRecords
  <1>1. c \in JobRecords
    BY <1>0 DEF JobRecords
  <1>2. job' = [job EXCEPT ![w] = c]
    BY DEF Goto
  <1>3. job' \in [Workers -> JobRecords] /\ job'[w] = c /\ \A v \in Workers \ {w} : job'[v] = job[v]
    BY <1>1, <1>2, JobUpdate
  <1> QED
    BY <1>0, <1>3 DEF JobRecords

-----------------------------------------------------------------------------

\* No step takes a file, a track or a link away.
Grows ==
    /\ files \subseteq files' /\ links \subseteq links'
    /\ \A v \in Videos : audio[v] # 0 => audio'[v] = audio[v]

LEMMA DoneStays ==
    ASSUME NEW w \in Workers, Bounds(w), Grows, NEW i \in 1..Len(job[w].listing), Done(w, i),
           job'[w].listing = job[w].listing, job'[w].playlist = job[w].playlist
    PROVE  Done(w, i)'
  <1>1. job[w].listing[i] \in Videos
    BY ListingFacts DEF Bounds
  <1>2. PICK l \in links : l.playlist = job[w].playlist /\ l.video = job[w].listing[i]
    BY DEF Done, Linked, LinksOf
  <1>3. l \in links'
    BY DEF Grows
  <1> QED
    BY <1>1, <1>2, <1>3 DEF Done, Linked, LinksOf, Grows

\* What a worker knows stays true while another one moves.
LEMMA OthersKnow ==
    ASSUME TypeOK, NEW w \in Workers, Bounds(w), Knows(w), job'[w] = job[w], Grows
    PROVE  Bounds(w)' /\ Knows(w)'
  <1>1. Bounds(w)'
    BY DEF Bounds, At
  <1>2. Video(w) \in Videos /\ Video(w)' = Video(w)
    BY VideoIsVideo DEF Video
  <1>3. (\A i \in DOMAIN job[w].listing \ job[w].failed :
            i < job[w].entry \/ At(w, "finish") => Done(w, i))'
    BY DoneStays, ListingFacts DEF Knows, Bounds, At
  <1>4. Linked(job[w].playlist, Video(w)) => Linked(job[w].playlist, Video(w))'
    BY <1>2 DEF Linked, LinksOf, Grows
  <1>5. (At(w, "commit") => job[w].key \in files)'
    BY DEF Knows, At, Grows
  <1>6. (job[w].at \in {"linked", "position", "link", "record"} => audio[Video(w)] # 0)'
    BY <1>2 DEF Knows, Grows
  <1>7. (At(w, "record") => Linked(job[w].playlist, Video(w)))'
    BY <1>4 DEF Knows, At
  <1>8. (job[w].at \in {"find", "create"} => job[w].entry = 1)'
    BY DEF Knows
  <1> QED
    BY <1>1, <1>3, <1>5, <1>6, <1>7, <1>8 DEF Knows

\* A worker that stays at its entry takes along what it knows of the earlier
\* ones; of the entry at hand it must know what its new phase requires.
LEMMA SameEntryKnows ==
    ASSUME TypeOK, NEW w \in Workers, Bounds(w), Knows(w), Grows, ~At(w, "finish"),
           job'[w].at \in Phases \ {"idle", "find", "finish"},
           job'[w].src = job[w].src, job'[w].name = job[w].name,
           job'[w].listing = job[w].listing, job'[w].entry = job[w].entry,
           job'[w].playlist = job[w].playlist, job'[w].failed = job[w].failed,
           job'[w].at = "commit" => job'[w].key \in files',
           job'[w].at \in {"linked", "position", "link", "record"} => audio'[Video(w)] # 0,
           job'[w].at = "record" => \E l \in links' : l.playlist = job[w].playlist /\ l.video = Video(w),
           job'[w].at = "create" => job[w].entry = 1
    PROVE  Bounds(w)' /\ Knows(w)'
  <1>1. Bounds(w)'
    BY DEF Bounds, At
  <1>2. Video(w)' = Video(w)
    BY DEF Video
  <1>3. \A i \in DOMAIN job[w].listing \ job[w].failed : i < job[w].entry => Done(w, i)'
    BY DoneStays, ListingFacts DEF Knows, Bounds
  <1>4. At(w, "record")' => Linked(job[w].playlist, Video(w))'
    BY <1>2 DEF Linked, LinksOf, At
  <1> QED
    BY <1>1, <1>2, <1>3, <1>4 DEF Knows, At

\* The step of one worker: enough to look at that worker.
LEMMA OneWorkerMoves ==
    ASSUME IInv, Grows, NEW w \in Workers,
           \A v \in Workers \ {w} : job'[v] = job[v],
           job'[w].at = "idle" \/ (Bounds(w)' /\ Knows(w)')
    PROVE  JobsKnow'
  <1>1. ASSUME NEW v \in Workers \ {w}, ~At(v, "idle")'
        PROVE  Bounds(v)' /\ Knows(v)'
    <2>1. job'[v] = job[v] /\ ~At(v, "idle")
      BY <1>1 DEF At
    <2>2. Bounds(v) /\ Knows(v) /\ TypeOK
      BY <2>1 DEF IInv, JobsKnow
    <2> QED
      BY <2>1, <2>2, OthersKnow
  <1>2. ~At(w, "idle")' => Bounds(w)' /\ Knows(w)'
    BY DEF At
  <1> QED
    BY <1>1, <1>2 DEF JobsKnow

\* A step that leaves tracks and files alone.
LEMMA StreamsFrame ==
    ASSUME IInv, UNCHANGED <<audio, files>>
    PROVE  FilesOK' /\ StreamsPlay'
  BY DEF IInv, FilesOK, StreamsPlay, TrackStream

-----------------------------------------------------------------------------

\* A worker that goes idle, having changed nothing else.
LEMMA GoesIdle ==
    ASSUME IInv, NEW w \in Workers, job' = [job EXCEPT ![w] = Idle],
           UNCHANGED <<target, playlists, audio, files, links, items, events>>
    PROVE  IInv'
  <1>1. Idle \in JobRecords
    BY DEF Idle, JobRecords, Phases
  <1>2. job' \in [Workers -> JobRecords] /\ job'[w] = Idle
        /\ \A v \in Workers \ {w} : job'[v] = job[v]
    BY <1>1, JobUpdate DEF IInv
  <1>3. job'[w].at = "idle"
    BY <1>2 DEF Idle
  <1>4. TypeOK'
    BY <1>2 DEF IInv, TypeOK, JobRecords
  <1>5. Grows
    BY DEF Grows
  <1> QED
    BY <1>2, <1>3, <1>4, <1>5, OneWorkerMoves, StreamsFrame DEF IInv

\* A worker that moves to another phase of the same entry, having changed
\* nothing else.
LEMMA MovesOn ==
    ASSUME IInv, NEW w \in Workers, NEW p \in Phases \ {"idle", "find", "finish"},
           Goto(w, p), Bounds(w), Knows(w), ~At(w, "finish"),
           UNCHANGED <<target, playlists, audio, files, links, items, events>>,
           p = "commit" => job[w].key \in files,
           p \in {"linked", "position", "link", "record"} => audio[Video(w)] # 0,
           p = "record" => Linked(job[w].playlist, Video(w)),
           p = "create" => job[w].entry = 1
    PROVE  IInv'
  <1>1. /\ job' \in [Workers -> JobRecords]
        /\ job'[w].at = p
        /\ job'[w].src = job[w].src /\ job'[w].name = job[w].name
        /\ job'[w].listing = job[w].listing /\ job'[w].entry = job[w].entry
        /\ job'[w].playlist = job[w].playlist /\ job'[w].key = job[w].key
        /\ job'[w].failed = job[w].failed
        /\ \A v \in Workers \ {w} : job'[v] = job[v]
    BY GotoFacts DEF IInv
  <1>2. Grows
    BY DEF Grows
  <1>3. p = "record" => \E l \in links' : l.playlist = job[w].playlist /\ l.video = Video(w)
    BY DEF Linked, LinksOf
  <1>4. Bounds(w)' /\ Knows(w)'
    BY <1>1, <1>2, <1>3, SameEntryKnows DEF IInv
  <1>5. TypeOK'
    BY <1>1 DEF IInv, TypeOK, JobRecords
  <1> QED
    BY <1>1, <1>2, <1>4, <1>5, OneWorkerMoves, StreamsFrame DEF IInv

\* Before the loop there is nothing to know.
LEMMA FirstEntryKnows ==
    ASSUME TypeOK, NEW w \in Workers, Bounds(w)', job'[w].entry = 1,
           job'[w].at \in {"find", "retarget"}
    PROVE  Knows(w)'
  <1>1. \A i \in DOMAIN job'[w].listing : i \in Nat \ {0}
    BY ListingFacts DEF Bounds
  <1>2. (\A i \in DOMAIN job[w].listing \ job[w].failed :
            i < job[w].entry \/ At(w, "finish") => Done(w, i))'
    BY <1>1 DEF At
  <1> QED
    BY <1>2 DEF Knows, At

-----------------------------------------------------------------------------
(* One lemma per action that does more than move on.                       *)

LEMMA StartKeeps ==
    ASSUME IInv, NEW w \in Workers, NEW s \in Sources, NEW l \in Listings, Start(w, s, l)
    PROVE  IInv'
  <1> DEFINE c == [Idle EXCEPT !.at = "find", !.src = s, !.listing = l,
                               !.name = target[s].name, !.known = target[s].id]
  <1>1. target[s] \in [name : Names, id : Nat]
    BY DEF IInv, TypeOK
  <1>2. c \in JobRecords /\ c.at = "find" /\ c.src = s /\ c.name = target[s].name
        /\ c.listing = l /\ c.entry = 1
    BY <1>1 DEF Idle, JobRecords, Phases
  <1> HIDE DEF c
  <1>3. job' \in [Workers -> JobRecords] /\ job'[w] = c
        /\ \A v \in Workers \ {w} : job'[v] = job[v]
    BY <1>2, JobUpdate DEF Start, c, IInv
  <1>4. UNCHANGED <<target, playlists, audio, files, links, items>>
    BY DEF Start
  <1>5. TypeOK'
    BY <1>3, <1>4 DEF IInv, TypeOK, JobRecords
  <1>6. Grows
    BY <1>4 DEF Grows
  <1>7. Bounds(w)'
    BY <1>1, <1>2, <1>3, ListingFacts DEF Bounds, At
  <1>8. Knows(w)'
    BY <1>2, <1>3, <1>7, FirstEntryKnows DEF IInv
  <1> QED
    BY <1>3, <1>4, <1>5, <1>6, <1>7, <1>8, OneWorkerMoves, StreamsFrame DEF IInv

\* The playlist of the run is found or created.
LEMMA PlaylistChosen ==
    ASSUME IInv, NEW w \in Workers, job[w].at \in {"find", "create"}, NEW p \in Nat,
           job' = [job EXCEPT ![w].at = "retarget", ![w].playlist = p],
           playlists' \in Seq(Names),
           UNCHANGED <<target, audio, files, links, items, events>>
    PROVE  IInv'
  <1> DEFINE c == [job[w] EXCEPT !.at = "retarget", !.playlist = p]
  <1>1. job[w] \in JobRecords /\ Bounds(w) /\ Knows(w)
    BY DEF IInv, TypeOK, JobRecords, JobsKnow, At
  <1>2. /\ c \in JobRecords /\ c.at = "retarget" /\ c.src = job[w].src /\ c.name = job[w].name
        /\ c.listing = job[w].listing /\ c.entry = job[w].entry
        /\ job' = [job EXCEPT ![w] = c]
    BY <1>1 DEF JobRecords, Phases
  <1> HIDE DEF c
  <1>3. job' \in [Workers -> JobRecords] /\ job'[w] = c
        /\ \A v \in Workers \ {w} : job'[v] = job[v]
    BY <1>2, JobUpdate DEF IInv
  <1>4. TypeOK'
    BY <1>3 DEF IInv, TypeOK, JobRecords
  <1>5. Grows
    BY DEF Grows
  <1>6. Bounds(w)' /\ job'[w].entry = 1
    BY <1>1, <1>2, <1>3 DEF Bounds, Knows, At
  <1>7. Knows(w)'
    BY <1>2, <1>3, <1>6, FirstEntryKnows DEF IInv
  <1> QED
    BY <1>3, <1>4, <1>5, <1>6, <1>7, OneWorkerMoves, StreamsFrame DEF IInv

LEMMA FindPlaylistKeeps == ASSUME IInv, NEW w \in Workers, FindPlaylist(w) PROVE IInv'
  <1>1. Bounds(w) /\ Knows(w) /\ job[w].entry = 1
    BY DEF FindPlaylist, At, IInv, JobsKnow, Knows
  <1>2. CASE Named(job[w].name) = {}
    <2>1. Goto(w, "create") /\ "create" \in Phases \ {"idle", "find", "finish"}
      BY <1>2 DEF FindPlaylist, Phases
    <2> QED
      BY <1>1, <2>1, MovesOn DEF FindPlaylist, At
  <1>3. CASE Named(job[w].name) # {}
    <2>1. PICK p \in Named(job[w].name) :
             job' = [job EXCEPT ![w].at = "retarget", ![w].playlist = p]
      BY <1>3 DEF FindPlaylist
    <2>2. playlists \in Seq(Names) /\ p \in Nat
      <3>1. playlists \in Seq(Names)
        BY DEF IInv, TypeOK
      <3>2. DOMAIN playlists = 1..Len(playlists)
        BY <3>1, LenProperties
      <3> QED
        BY <3>1, <3>2 DEF Named
    <2>3. UNCHANGED <<target, playlists, audio, files, links, items, events>>
          /\ job[w].at = "find"
      BY DEF FindPlaylist, At
    <2> QED
      BY <2>1, <2>2, <2>3, PlaylistChosen
  <1> QED
    BY <1>2, <1>3

LEMMA CreatePlaylistKeeps == ASSUME IInv, NEW w \in Workers, CreatePlaylist(w) PROVE IInv'
  <1>1. job[w].name \in Names
    BY DEF CreatePlaylist, At, IInv, JobsKnow, Bounds
  <1>2. playlists \in Seq(Names)
    BY DEF IInv, TypeOK
  <1>3. playlists' \in Seq(Names) /\ Len(playlists) + 1 \in Nat
    BY <1>1, <1>2, AppendProperties, LenProperties DEF CreatePlaylist
  <1>4. PICK p \in Nat : job' = [job EXCEPT ![w].at = "retarget", ![w].playlist = p]
    BY <1>3 DEF CreatePlaylist
  <1>5. job[w].at = "create" /\ UNCHANGED <<target, audio, files, links, items, events>>
    BY DEF CreatePlaylist, At
  <1> QED
    BY <1>3, <1>4, <1>5, PlaylistChosen

LEMMA RetargetKeeps == ASSUME IInv, NEW w \in Workers, Retarget(w) PROVE IInv'
  <1>1. Bounds(w) /\ Knows(w)
    BY DEF Retarget, At, IInv, JobsKnow
  <1>2. /\ job' \in [Workers -> JobRecords] /\ job'[w].at = "lookup"
        /\ job'[w].src = job[w].src /\ job'[w].name = job[w].name
        /\ job'[w].listing = job[w].listing /\ job'[w].entry = job[w].entry
        /\ job'[w].playlist = job[w].playlist /\ job'[w].failed = job[w].failed
        /\ \A v \in Workers \ {w} : job'[v] = job[v]
    BY GotoFacts DEF Retarget, IInv, Phases
  <1>3. target' \in [Sources -> [name : Names, id : Nat]]
    <2>1. job[w].playlist \in Nat /\ job[w].src \in Sources
      BY <1>1 DEF IInv, TypeOK, Bounds
    <2>2. CASE target' = [target EXCEPT ![job[w].src].id = job[w].playlist]
      <3>1. target[job[w].src] \in [name : Names, id : Nat]
        BY <2>1 DEF IInv, TypeOK
      <3>2. [target[job[w].src] EXCEPT !.id = job[w].playlist] \in [name : Names, id : Nat]
        BY <2>1, <3>1
      <3> QED
        BY <2>1, <2>2, <3>2 DEF IInv, TypeOK
    <2> QED
      BY <2>2 DEF Retarget, IInv, TypeOK
  <1>4. Grows /\ UNCHANGED <<playlists, audio, files, links, items>>
    BY DEF Retarget, Grows
  <1>5. TypeOK'
    BY <1>2, <1>3, <1>4 DEF IInv, TypeOK, JobRecords
  <1>6. Bounds(w)' /\ Knows(w)'
    BY <1>1, <1>2, <1>4, SameEntryKnows DEF IInv, Retarget, At, Phases
  <1> QED
    BY <1>2, <1>4, <1>5, <1>6, OneWorkerMoves, StreamsFrame DEF IInv

LEMMA LookupKeeps == ASSUME IInv, NEW w \in Workers, Lookup(w) PROVE IInv'
  <1>1. Bounds(w) /\ Knows(w) /\ ~At(w, "finish")
    BY DEF Lookup, At, IInv, JobsKnow
  <1>2. CASE audio[Video(w)] # 0
    BY <1>1, <1>2, MovesOn DEF Lookup, Phases
  <1>3. CASE audio[Video(w)] = 0
    BY <1>1, <1>3, MovesOn DEF Lookup, Phases
  <1> QED
    BY <1>2, <1>3

LEMMA DownloadKeeps == ASSUME IInv, NEW w \in Workers, Download(w) PROVE IInv'
  <1> DEFINE key == Cardinality(files) + 1
             c == [job[w] EXCEPT !.at = "commit", !.key = key]
  <1>1. job[w] \in JobRecords /\ Bounds(w) /\ Knows(w) /\ At(w, "download")
    BY DEF Download, IInv, TypeOK, JobRecords, JobsKnow, At
  <1>2. key \in Nat \ {0}
    BY FS_CardinalityType DEF IInv, FilesOK
  <1>3. files' = files \union {key} /\ job' = [job EXCEPT ![w] = c]
        /\ UNCHANGED <<target, playlists, audio, links, items>>
    BY DEF Download
  <1> HIDE DEF key
  <1>4. FilesOK' /\ files' \subseteq Nat
    BY <1>2, <1>3, FS_AddElement DEF IInv, FilesOK, TypeOK
  <1>5. StreamsPlay'
    BY <1>3 DEF IInv, StreamsPlay, TrackStream
  <1>6. /\ c \in JobRecords /\ c.at = "commit" /\ c.key = key
        /\ c.src = job[w].src /\ c.name = job[w].name /\ c.listing = job[w].listing
        /\ c.entry = job[w].entry /\ c.playlist = job[w].playlist /\ c.failed = job[w].failed
    BY <1>1, <1>2 DEF JobRecords, Phases
  <1> HIDE DEF c
  <1>7. job' \in [Workers -> JobRecords] /\ job'[w] = c
        /\ \A v \in Workers \ {w} : job'[v] = job[v]
    BY <1>3, <1>6, JobUpdate DEF IInv
  <1>8. TypeOK'
    BY <1>3, <1>4, <1>7 DEF IInv, TypeOK, JobRecords
  <1>9. Grows
    BY <1>3 DEF Grows
  <1>10. Bounds(w)' /\ Knows(w)'
    BY <1>1, <1>3, <1>6, <1>7, <1>9, SameEntryKnows DEF IInv, At, Phases
  <1> QED
    BY <1>4, <1>5, <1>7, <1>8, <1>9, <1>10, OneWorkerMoves DEF IInv

LEMMA CommitTrackKeeps == ASSUME IInv, NEW w \in Workers, CommitTrack(w) PROVE IInv'
  <1>1. Bounds(w) /\ Knows(w) /\ ~At(w, "finish")
    BY DEF CommitTrack, At, IInv, JobsKnow
  <1>2. CASE audio[Video(w)] # 0
    BY <1>1, <1>2, MovesOn DEF CommitTrack, Phases
  <1>3. CASE audio[Video(w)] = 0
    <2>1. /\ audio' = [audio EXCEPT ![Video(w)] = job[w].key] /\ Goto(w, "linked")
          /\ UNCHANGED <<target, playlists, files, links, items>>
      BY <1>3 DEF CommitTrack
    <2>2. Video(w) \in Videos
      BY <1>1, VideoIsVideo
    <2>3. job[w].key \in files /\ job[w].key \in Nat \ {0} /\ audio \in [Videos -> Nat]
      BY <1>1 DEF CommitTrack, Knows, IInv, FilesOK, TypeOK
    <2>4. /\ audio' \in [Videos -> Nat] /\ audio'[Video(w)] = job[w].key
          /\ \A v \in Videos \ {Video(w)} : audio'[v] = audio[v]
      BY <2>1, <2>2, <2>3
    <2>5. StreamsPlay' /\ FilesOK'
      BY <2>1, <2>3, <2>4 DEF IInv, StreamsPlay, TrackStream, FilesOK
    <2>6. Grows
      BY <2>1, <2>4, <1>3 DEF Grows
    <2>7. /\ job' \in [Workers -> JobRecords] /\ job'[w].at = "linked"
          /\ job'[w].src = job[w].src /\ job'[w].name = job[w].name
          /\ job'[w].listing = job[w].listing /\ job'[w].entry = job[w].entry
          /\ job'[w].playlist = job[w].playlist /\ job'[w].failed = job[w].failed
          /\ \A v \in Workers \ {w} : job'[v] = job[v]
      BY <2>1, GotoFacts DEF IInv, Phases
    <2>8. TypeOK'
      BY <2>1, <2>4, <2>7 DEF IInv, TypeOK, JobRecords
    <2>9. audio'[Video(w)] # 0
      BY <2>3, <2>4
    <2>10. Bounds(w)' /\ Knows(w)'
      BY <1>1, <2>6, <2>7, <2>9, SameEntryKnows DEF IInv, Phases
    <2> QED
      BY <2>5, <2>6, <2>7, <2>8, <2>10, OneWorkerMoves DEF IInv
  <1> QED
    BY <1>2, <1>3

LEMMA CheckLinkedKeeps == ASSUME IInv, NEW w \in Workers, CheckLinked(w) PROVE IInv'
  <1>1. Bounds(w) /\ Knows(w) /\ ~At(w, "finish") /\ audio[Video(w)] # 0
    BY DEF CheckLinked, At, IInv, JobsKnow, Knows
  <1>2. CASE Linked(job[w].playlist, Video(w)) /\ Goto(w, "record")
    BY <1>1, <1>2, MovesOn DEF CheckLinked, Phases
  <1>3. CASE Goto(w, "position")
    BY <1>1, <1>3, MovesOn DEF CheckLinked, Phases
  <1> QED
    BY <1>2, <1>3 DEF CheckLinked

LEMMA ReadPositionKeeps == ASSUME IInv, NEW w \in Workers, ReadPosition(w) PROVE IInv'
  <1>1. job[w] \in JobRecords /\ Bounds(w) /\ Knows(w) /\ At(w, "position")
    BY DEF ReadPosition, IInv, TypeOK, JobRecords, JobsKnow, At
  <1>2. PICK n \in Nat : job' = [job EXCEPT ![w].at = "link", ![w].position = n]
    <2>1. NextPosition(job[w].playlist) \subseteq Nat
      <3>1. links \subseteq [playlist : Nat, video : Videos, position : Nat]
        BY DEF IInv, TypeOK
      <3>2. \A l \in LinksOf(job[w].playlist) : l.position \in Nat
        BY <3>1 DEF LinksOf
      <3>3. \A l \in LinksOf(job[w].playlist) : l.position + 1 \in Nat
        BY <3>2
      <3> QED
        BY <3>3 DEF NextPosition
    <2>2. job[w].entry \in Nat
      BY <1>1 DEF JobRecords
    <2>3. PICK next \in NextPosition(job[w].playlist)
                        \union (IF DbFails THEN {job[w].entry} ELSE {}) :
             job' = [job EXCEPT ![w].at = "link",
                        ![w].position = IF next < job[w].entry THEN job[w].entry ELSE next]
      BY DEF ReadPosition
    <2>4. (IF next < job[w].entry THEN job[w].entry ELSE next) \in Nat
      BY <2>1, <2>2
    <2> QED
      BY <2>3, <2>4
  <1> DEFINE c == [job[w] EXCEPT !.at = "link", !.position = n]
  <1>3. /\ c \in JobRecords /\ c.at = "link" /\ c.src = job[w].src /\ c.name = job[w].name
        /\ c.listing = job[w].listing /\ c.entry = job[w].entry
        /\ c.playlist = job[w].playlist /\ c.failed = job[w].failed
        /\ job' = [job EXCEPT ![w] = c]
    BY <1>1, <1>2 DEF JobRecords, Phases
  <1> HIDE DEF c
  <1>4. job' \in [Workers -> JobRecords] /\ job'[w] = c
        /\ \A v \in Workers \ {w} : job'[v] = job[v]
    BY <1>3, JobUpdate DEF IInv
  <1>5. UNCHANGED <<target, playlists, audio, files, links, items>> /\ Grows
    BY DEF ReadPosition, Grows
  <1>6. TypeOK'
    BY <1>4, <1>5 DEF IInv, TypeOK, JobRecords
  <1>7. audio[Video(w)] # 0
    BY <1>1 DEF Knows, At
  <1>8. Bounds(w)' /\ Knows(w)'
    BY <1>1, <1>3, <1>4, <1>5, <1>7, SameEntryKnows DEF IInv, At, Phases
  <1> QED
    BY <1>4, <1>5, <1>6, <1>8, OneWorkerMoves, StreamsFrame DEF IInv

LEMMA InsertLinkKeeps == ASSUME IInv, NEW w \in Workers, InsertLink(w) PROVE IInv'
  <1> DEFINE row == Row(job[w].playlist, Video(w), job[w].position)
             conflict == \E l \in LinksOf(row.playlist) :
                            l.video = row.video \/ l.position = row.position
  <1>1. job[w] \in JobRecords /\ Bounds(w) /\ Knows(w) /\ At(w, "link")
    BY DEF InsertLink, IInv, TypeOK, JobRecords, JobsKnow, At
  <1>2. CASE conflict
    BY <1>1, <1>2, MovesOn DEF InsertLink, Phases, At
  <1>3. CASE ~conflict
    <2>1. /\ Goto(w, "record") /\ links' = links \union {row}
          /\ UNCHANGED <<target, playlists, audio, files, items>>
      BY <1>3 DEF InsertLink
    <2>2. Video(w) \in Videos /\ job[w].playlist \in Nat /\ job[w].position \in Nat
      BY <1>1, VideoIsVideo DEF JobRecords
    <2>3. /\ row \in [playlist : Nat, video : Videos, position : Nat]
          /\ row.playlist = job[w].playlist /\ row.video = Video(w)
      BY <2>2 DEF Row
    <2> HIDE DEF row
    <2>4. Grows
      BY <2>1 DEF Grows
    <2>5. /\ job' \in [Workers -> JobRecords] /\ job'[w].at = "record"
          /\ job'[w].src = job[w].src /\ job'[w].name = job[w].name
          /\ job'[w].listing = job[w].listing /\ job'[w].entry = job[w].entry
          /\ job'[w].playlist = job[w].playlist /\ job'[w].failed = job[w].failed
          /\ \A v \in Workers \ {w} : job'[v] = job[v]
      BY <2>1, GotoFacts DEF IInv, Phases
    <2>6. links' \subseteq [playlist : Nat, video : Videos, position : Nat]
      BY <2>1, <2>3 DEF IInv, TypeOK
    <2>7. TypeOK'
      BY <2>1, <2>5, <2>6 DEF IInv, TypeOK, JobRecords
    <2>8. audio'[Video(w)] # 0
      BY <1>1, <2>1 DEF Knows, At
    <2>9. \E l \in links' : l.playlist = job[w].playlist /\ l.video = Video(w)
      BY <2>1, <2>3
    <2>10. Bounds(w)' /\ Knows(w)'
      BY <1>1, <2>4, <2>5, <2>8, <2>9, SameEntryKnows DEF IInv, Phases, At
    <2>11. StreamsPlay' /\ FilesOK'
      BY <2>1, StreamsFrame
    <2> QED
      BY <2>4, <2>5, <2>7, <2>10, <2>11, OneWorkerMoves DEF IInv
  <1> QED
    BY <1>2, <1>3

\* To the next entry, or to the end of the run, from an entry that is done or
\* counted as failed.
LEMMA AdvanceKeeps ==
    ASSUME IInv, NEW w \in Workers, job[w].at \in {"record", "failed"},
           NEW f \in SUBSET Nat, Advance(w, f), job[w].failed \subseteq f,
           Done(w, job[w].entry) \/ job[w].entry \in f,
           items' \in [Sources -> [Videos -> [status : {"none", "ok", "failed"}, track : BOOLEAN]]],
           UNCHANGED <<target, playlists, audio, files, links, events>>
    PROVE  IInv'
  <1> DEFINE last == job[w].entry = Len(job[w].listing)
             c == [job[w] EXCEPT !.at = IF last THEN "finish" ELSE "lookup",
                                 !.entry = IF last THEN @ ELSE @ + 1, !.failed = f]
  <1>1. job[w] \in JobRecords /\ Bounds(w) /\ Knows(w)
    BY DEF IInv, TypeOK, JobRecords, JobsKnow, At
  <1>2. job' = [job EXCEPT ![w] = c]
    BY DEF Advance
  <1>3. /\ c \in JobRecords /\ c.at = (IF last THEN "finish" ELSE "lookup")
        /\ c.src = job[w].src /\ c.name = job[w].name /\ c.listing = job[w].listing
        /\ c.entry = (IF last THEN job[w].entry ELSE job[w].entry + 1)
        /\ c.playlist = job[w].playlist /\ c.failed = f
    <2>1. job[w].entry \in Nat /\ job[w].entry + 1 \in Nat
      <3>1. job[w].entry \in Nat
        BY <1>1 DEF JobRecords
      <3> QED
        BY <3>1
    <2>2. CASE last
      BY <1>1, <2>1, <2>2 DEF JobRecords, Phases
    <2>3. CASE ~last
      BY <1>1, <2>1, <2>3 DEF JobRecords, Phases
    <2> QED
      BY <2>2, <2>3
  <1> HIDE DEF c
  <1>4. job' \in [Workers -> JobRecords] /\ job'[w] = c
        /\ \A v \in Workers \ {w} : job'[v] = job[v]
    BY <1>2, <1>3, JobUpdate DEF IInv
  <1>5. TypeOK'
    BY <1>4 DEF IInv, TypeOK, JobRecords
  <1>6. Grows
    BY DEF Grows
  <1>7. /\ job[w].entry \in 1..Len(job[w].listing) /\ Len(job[w].listing) \in Nat
        /\ DOMAIN job[w].listing = 1..Len(job[w].listing)
    BY <1>1, ListingFacts DEF Bounds
  <1>8. Bounds(w)'
    BY <1>1, <1>3, <1>4, <1>7 DEF Bounds, At
  <1>9. ASSUME NEW i \in (DOMAIN job[w].listing \ f), i <= job[w].entry
        PROVE  Done(w, i)'
    <2>1. CASE i = job[w].entry
      BY <1>1, <1>3, <1>4, <1>6, <1>7, <1>9, <2>1, DoneStays
    <2>2. CASE i < job[w].entry
      <3>1. Done(w, i)
        BY <1>1, <1>9, <2>2 DEF Knows
      <3> QED
        BY <1>1, <1>3, <1>4, <1>6, <1>7, <1>9, <3>1, DoneStays
    <2> QED
      BY <1>7, <1>9, <2>1, <2>2
  <1>10. (\A i \in DOMAIN job[w].listing \ job[w].failed :
            i < job[w].entry \/ At(w, "finish") => Done(w, i))'
    BY <1>3, <1>4, <1>7, <1>9 DEF At
  <1>11. Knows(w)'
    BY <1>3, <1>4, <1>10 DEF Knows, At
  <1> QED
    BY <1>4, <1>5, <1>6, <1>8, <1>11, OneWorkerMoves, StreamsFrame DEF IInv

\* Writing one item keeps the type of the table.
LEMMA ItemUpdate ==
    ASSUME TypeOK, NEW s \in Sources, NEW v \in Videos,
           NEW e \in [status : {"none", "ok", "failed"}, track : BOOLEAN],
           items' = [items EXCEPT ![s][v] = e]
    PROVE  /\ items' \in [Sources -> [Videos -> [status : {"none", "ok", "failed"}, track : BOOLEAN]]]
           /\ items'[s][v] = e
           /\ \A t \in Sources, u \in Videos : t # s \/ u # v => items'[t][u] = items[t][u]
  BY DEF TypeOK

LEMMA RecordOkKeeps == ASSUME IInv, NEW w \in Workers, RecordOk(w) PROVE IInv'
  <1>1. Bounds(w) /\ Knows(w) /\ At(w, "record")
    BY DEF RecordOk, At, IInv, JobsKnow
  <1>2. Video(w) \in Videos /\ job[w].src \in Sources
    BY <1>1, VideoIsVideo DEF Bounds
  <1>3. items[job[w].src][Video(w)] \in [status : {"none", "ok", "failed"}, track : BOOLEAN]
    <2>1. items \in [Sources -> [Videos -> [status : {"none", "ok", "failed"}, track : BOOLEAN]]]
      BY DEF IInv, TypeOK
    <2> QED
      BY <1>2, <2>1
  <1>4. PICK e \in [status : {"none", "ok", "failed"}, track : BOOLEAN] :
           items' = [items EXCEPT ![job[w].src][Video(w)] = e]
    BY <1>3 DEF RecordOk
  <1>5. items' \in [Sources -> [Videos -> [status : {"none", "ok", "failed"}, track : BOOLEAN]]]
    BY <1>2, <1>4, ItemUpdate DEF IInv
  <1>6. Done(w, job[w].entry)
    BY <1>1 DEF Knows, Done, At, Video
  <1>7. job[w].failed \in SUBSET Nat
    BY DEF IInv, TypeOK
  <1> QED
    BY <1>1, <1>5, <1>6, <1>7, AdvanceKeeps DEF RecordOk, At

LEMMA RecordFailureKeeps == ASSUME IInv, NEW w \in Workers, RecordFailure(w) PROVE IInv'
  <1>1. Bounds(w) /\ Knows(w) /\ At(w, "failed")
    BY DEF RecordFailure, At, IInv, JobsKnow
  <1>2. Video(w) \in Videos /\ job[w].src \in Sources
    BY <1>1, VideoIsVideo DEF Bounds
  <1>3. items[job[w].src][Video(w)] \in [status : {"none", "ok", "failed"}, track : BOOLEAN]
    <2>1. items \in [Sources -> [Videos -> [status : {"none", "ok", "failed"}, track : BOOLEAN]]]
      BY DEF IInv, TypeOK
    <2> QED
      BY <1>2, <2>1
  <1>4. items' \in [Sources -> [Videos -> [status : {"none", "ok", "failed"}, track : BOOLEAN]]]
    <2>1. CASE UNCHANGED items
      BY <2>1 DEF IInv, TypeOK
    <2>2. CASE items' = [items EXCEPT ![job[w].src][Video(w)].status = "failed"]
      <3> DEFINE e == [items[job[w].src][Video(w)] EXCEPT !.status = "failed"]
      <3>1. e \in [status : {"none", "ok", "failed"}, track : BOOLEAN]
        BY <1>3
      <3>2. items' = [items EXCEPT ![job[w].src][Video(w)] = e]
        BY <2>2
      <3> QED
        BY <1>2, <3>1, <3>2, ItemUpdate DEF IInv
    <2> QED
      BY <2>1, <2>2 DEF RecordFailure
  <1>5. job[w].failed \union {job[w].entry} \in SUBSET Nat
    BY DEF IInv, TypeOK
  <1> QED
    BY <1>1, <1>4, <1>5, AdvanceKeeps DEF RecordFailure, At

\* A new name for a target concerns no worker.
LEMMA RenameKeeps ==
    ASSUME IInv, NEW s \in Sources, NEW n \in Names, Rename(s, n)
    PROVE  IInv'
  <1>1. target' \in [Sources -> [name : Names, id : Nat]]
    <2>1. target[s] \in [name : Names, id : Nat] /\ target \in [Sources -> [name : Names, id : Nat]]
      BY DEF IInv, TypeOK
    <2>2. [target[s] EXCEPT !.name = n] \in [name : Names, id : Nat]
      BY <2>1
    <2> QED
      BY <2>1, <2>2 DEF Rename
  <1>2. UNCHANGED <<playlists, audio, files, links, items, job>> /\ Grows
    BY DEF Rename, Grows
  <1>3. TypeOK'
    BY <1>1, <1>2 DEF IInv, TypeOK
  <1>4. JobsKnow'
    BY <1>2, OthersKnow DEF IInv, JobsKnow, At
  <1> QED
    BY <1>2, <1>3, <1>4, StreamsFrame DEF IInv

\* An entry that is given up: a failed download or statement.
LEMMA GivesUpKeeps ==
    ASSUME IInv, NEW w \in Workers, DownloadFails(w) \/ EntryError(w)
    PROVE  IInv'
  <1>1. /\ job[w].at \in {"download", "lookup", "commit", "link"} /\ Goto(w, "failed")
        /\ UNCHANGED <<target, playlists, audio, files, links, items, events>>
    BY DEF DownloadFails, EntryError, At
  <1>2. Bounds(w) /\ Knows(w) /\ ~At(w, "finish")
    BY <1>1 DEF IInv, JobsKnow, At
  <1> QED
    BY <1>1, <1>2, MovesOn DEF Phases

-----------------------------------------------------------------------------
(* The inductive invariant.                                                *)

LEMMA InitEstablishes == ASSUME Init PROVE IInv
  <1>1. Idle \in JobRecords /\ Idle.at = "idle"
    BY DEF Idle, JobRecords, Phases
  <1>2. job \in [Workers -> JobRecords] /\ JobsKnow
    BY <1>1 DEF Init, JobsKnow, At
  <1>3. TypeOK
    <2>1. playlists \in Seq(Names)
      BY EmptySeq DEF Init
    <2>2. target \in [Sources -> [name : Names, id : Nat]]
      BY DEF Init
    <2>3. items \in [Sources -> [Videos -> [status : {"none", "ok", "failed"}, track : BOOLEAN]]]
      BY DEF Init
    <2>4. audio \in [Videos -> Nat] /\ files \subseteq Nat
          /\ links \subseteq [playlist : Nat, video : Videos, position : Nat]
      BY DEF Init
    <2> QED
      BY <1>2, <2>1, <2>2, <2>3, <2>4 DEF TypeOK, JobRecords
  <1>4. FilesOK /\ StreamsPlay
    BY FS_EmptySet DEF Init, FilesOK, StreamsPlay, TrackStream
  <1> QED
    BY <1>2, <1>3, <1>4 DEF IInv

LEMMA StepKeeps == ASSUME IInv, NEW w \in Workers, Step(w) PROVE IInv'
  <1>1. CASE FindPlaylist(w)    BY <1>1, FindPlaylistKeeps
  <1>2. CASE CreatePlaylist(w)  BY <1>2, CreatePlaylistKeeps
  <1>3. CASE Retarget(w)        BY <1>3, RetargetKeeps
  <1>4. CASE Lookup(w)          BY <1>4, LookupKeeps
  <1>5. CASE Download(w)        BY <1>5, DownloadKeeps
  <1>6. CASE CommitTrack(w)     BY <1>6, CommitTrackKeeps
  <1>7. CASE CheckLinked(w)     BY <1>7, CheckLinkedKeeps
  <1>8. CASE ReadPosition(w)    BY <1>8, ReadPositionKeeps
  <1>9. CASE InsertLink(w)      BY <1>9, InsertLinkKeeps
  <1>10. CASE RecordOk(w)       BY <1>10, RecordOkKeeps
  <1>11. CASE RecordFailure(w)  BY <1>11, RecordFailureKeeps
  <1>12. CASE Finish(w)         BY <1>12, GoesIdle DEF Finish
  <1> QED
    BY <1>1, <1>2, <1>3, <1>4, <1>5, <1>6, <1>7, <1>8, <1>9, <1>10, <1>11, <1>12 DEF Step

LEMMA NothingMovesKeeps == ASSUME IInv, UNCHANGED vars PROVE IInv'
  <1>1. Grows
    BY DEF Grows, vars
  <1>2. JobsKnow'
    BY <1>1, OthersKnow DEF IInv, JobsKnow, At, vars
  <1> QED
    BY <1>2, StreamsFrame DEF IInv, TypeOK, vars

LEMMA NextKeeps == ASSUME IInv, [Next]_vars PROVE IInv'
  <1>1. CASE \E s \in Sources, n \in Names : Rename(s, n)
    BY <1>1, RenameKeeps
  <1>2. CASE \E w \in Workers, s \in Sources, listing \in Listings : Start(w, s, listing)
    BY <1>2, StartKeeps
  <1>3. CASE \E w \in Workers : Step(w)
    BY <1>3, StepKeeps
  <1>4. CASE \E w \in Workers : DownloadFails(w) \/ EntryError(w)
    BY <1>4, GivesUpKeeps
  <1>5. CASE \E w \in Workers : Stop(w)
    BY <1>5, GoesIdle DEF Stop
  <1>6. CASE UNCHANGED vars
    BY <1>6, NothingMovesKeeps
  <1> QED
    BY <1>1, <1>2, <1>3, <1>4, <1>5, <1>6 DEF Next

LEMMA IInvHolds == Spec => []IInv
  <1>1. Init => IInv
    BY InitEstablishes
  <1>2. IInv /\ [Next]_vars => IInv'
    BY NextKeeps
  <1> QED
    BY <1>1, <1>2, PTL DEF Spec

\* Every table, file and worker always holds values the program gives them.
THEOREM LibraryTypeCorrect == Spec => []TypeOK
  <1>1. IInv => TypeOK
    BY DEF IInv
  <1> QED
    BY <1>1, IInvHolds, PTL

\* A track that can be found can be played: overlapping, failing or stopped
\* runs never commit a track whose file below storage/ is missing.
THEOREM TracksArePlayable == Spec => []StreamsPlay
  <1>1. IInv => StreamsPlay
    BY DEF IInv
  <1> QED
    BY <1>1, IInvHolds, PTL

\* A run that reaches its end without a failed entry has every entry of its
\* listing in the library and on its playlist, whatever other runs did.
THEOREM OkMeansComplete == Spec => []OkRunIsComplete
  <1>1. ASSUME IInv, NEW w \in Workers, At(w, "finish"), job[w].failed = {}
        PROVE  \A i \in DOMAIN job[w].listing :
                  /\ audio[job[w].listing[i]] # 0
                  /\ Linked(job[w].playlist, job[w].listing[i])
    BY <1>1 DEF IInv, JobsKnow, Knows, Done, At
  <1>2. IInv => OkRunIsComplete
    BY <1>1 DEF OkRunIsComplete
  <1> QED
    BY <1>2, IInvHolds, PTL

-----------------------------------------------------------------------------
(* The library that only grows.                                            *)

\* A step that adds neither a track nor a link is not seen by a listener.
LEMMA QuietStep ==
    ASSUME IInv, IInv', UNCHANGED <<audio, links>>
    PROVE  UNCHANGED Library!vars
  <1>1. /\ {v \in Videos : TrackStream(v) = "audio"} = {v \in Videos : audio[v] # 0}
        /\ {v \in Videos : TrackStream(v) = "audio"}' = {v \in Videos : audio[v] # 0}'
    BY DEF IInv, StreamsPlay, TrackStream
  <1>2. {v \in Videos : audio[v] # 0}' = {v \in Videos : audio[v] # 0}
    OBVIOUS
  <1> QED
    BY <1>1, <1>2 DEF Library!vars

LEMMA CommitTrackAdds ==
    ASSUME IInv, IInv', NEW w \in Workers, CommitTrack(w)
    PROVE  [Library!Next]_(Library!vars)
  <1> DEFINE tracks == {v \in Videos : audio[v] # 0}
             playable == {v \in Videos : TrackStream(v) = "audio"}
  <1>1. Bounds(w) /\ Knows(w)
    BY DEF CommitTrack, At, IInv, JobsKnow
  <1>2. CASE audio[Video(w)] # 0
    BY <1>2, QuietStep DEF CommitTrack
  <1>3. CASE audio[Video(w)] = 0
    <2>1. /\ audio' = [audio EXCEPT ![Video(w)] = job[w].key] /\ UNCHANGED links
      BY <1>3 DEF CommitTrack
    <2>2. Video(w) \in Videos
      BY <1>1, VideoIsVideo
    <2>3. job[w].key # 0 /\ audio \in [Videos -> Nat]
      BY <1>1 DEF CommitTrack, Knows, IInv, FilesOK, TypeOK
    <2>4. PICK v \in Videos : tracks' = tracks \union {v} /\ v \notin tracks
      BY <1>3, <2>1, <2>2, <2>3
    <2>5. playable = tracks /\ playable' = tracks'
      BY DEF IInv, StreamsPlay, TrackStream
    <2>6. Library!AddTrack(v)
      BY <2>1, <2>4, <2>5 DEF Library!AddTrack
    <2> QED
      BY <2>6 DEF Library!Next
  <1> QED
    BY <1>2, <1>3

LEMMA InsertLinkPlaces ==
    ASSUME IInv, IInv', NEW w \in Workers, InsertLink(w)
    PROVE  [Library!Next]_(Library!vars)
  <1> DEFINE tracks == {v \in Videos : audio[v] # 0}
             playable == {v \in Videos : TrackStream(v) = "audio"}
             row == Row(job[w].playlist, Video(w), job[w].position)
             conflict == \E l \in LinksOf(row.playlist) :
                            l.video = row.video \/ l.position = row.position
  <1>1. Bounds(w) /\ Knows(w) /\ At(w, "link")
    BY DEF InsertLink, At, IInv, JobsKnow
  <1>2. CASE conflict
    BY <1>2, QuietStep DEF InsertLink
  <1>3. CASE ~conflict
    <2>1. links' = links \union {row} /\ UNCHANGED <<audio, files>>
      BY <1>3 DEF InsertLink
    <2>2. row = [playlist |-> row.playlist, video |-> row.video, position |-> row.position]
          /\ row.video = Video(w)
      BY DEF Row
    <2>3. row \notin links
      BY <1>3 DEF LinksOf
    <2>4. row.video \in tracks
      BY <1>1, <2>2, VideoIsVideo DEF Knows, At
    <2>5. \A l \in links : l.playlist = row.playlist =>
             l.video # row.video /\ l.position # row.position
      BY <1>3 DEF LinksOf
    <2> HIDE DEF row
    <2>6. tracks' = tracks /\ playable' = playable
      BY <2>1 DEF TrackStream
    <2>7. Library!Place(row.playlist, row.video, row.position)
      BY <2>1, <2>2, <2>4, <2>5, <2>6 DEF Library!Place
    <2>8. row \in links' \ links
      BY <2>1, <2>3
    <2> QED
      BY <2>7, <2>8 DEF Library!Next
  <1> QED
    BY <1>2, <1>3

\* Runs, interleaved, failing and stopped anywhere, implement the library
\* that only grows and never shows a track it cannot play.
THEOREM LibraryImplemented == Spec => LibraryRefinement
  <1>1. Init => Library!Init
    BY DEF Init, Library!Init, TrackStream
  <1>2. IInv /\ IInv' /\ [Next]_vars => [Library!Next]_(Library!vars)
    <2> SUFFICES ASSUME IInv, IInv', [Next]_vars PROVE [Library!Next]_(Library!vars)
      OBVIOUS
    <2>1. CASE \E w \in Workers : CommitTrack(w)
      BY <2>1, CommitTrackAdds
    <2>2. CASE \E w \in Workers : InsertLink(w)
      BY <2>2, InsertLinkPlaces
    <2>3. CASE UNCHANGED <<audio, links>>
      BY <2>3, QuietStep
    <2>4. ASSUME NEW w \in Workers, Step(w), ~CommitTrack(w), ~InsertLink(w)
          PROVE  UNCHANGED <<audio, links>>
      BY <2>4 DEF Step, FindPlaylist, CreatePlaylist, Retarget, Lookup, Download,
                  CheckLinked, ReadPosition, RecordOk, RecordFailure, Finish
    <2> QED
      BY <2>1, <2>2, <2>3, <2>4
         DEF Next, vars, Rename, Start, DownloadFails, EntryError, Stop
  <1> QED
    BY <1>1, <1>2, IInvHolds, PTL DEF Spec, LibraryRefinement, Library!Spec

-----------------------------------------------------------------------------
(* What youtube_import_items says.                                         *)

LEMMA NextGrows == ASSUME IInv, [Next]_vars PROVE Grows
  <1>1. CASE \E w \in Workers : CommitTrack(w)
    <2>1. PICK w \in Workers : CommitTrack(w)
      BY <1>1
    <2>2. Video(w) \in Videos
      BY <2>1, VideoIsVideo DEF CommitTrack, At, IInv, JobsKnow
    <2>3. audio \in [Videos -> Nat] /\ files \subseteq files' /\ links \subseteq links'
      BY <2>1 DEF CommitTrack, IInv, TypeOK
    <2> QED
      BY <2>1, <2>2, <2>3 DEF CommitTrack, Grows
  <1>2. CASE files \subseteq files' /\ links \subseteq links' /\ UNCHANGED audio
    BY <1>2 DEF Grows
  <1>3. ASSUME NEW w \in Workers, Step(w), ~CommitTrack(w)
        PROVE  files \subseteq files' /\ links \subseteq links' /\ UNCHANGED audio
    BY <1>3 DEF Step, FindPlaylist, CreatePlaylist, Retarget, Lookup, Download,
                CheckLinked, ReadPosition, InsertLink, RecordOk, RecordFailure, Finish
  <1> QED
    BY <1>1, <1>2, <1>3 DEF Next, vars, Rename, Start, DownloadFails, EntryError, Stop

\* An item is true of the tables.
ItemIsTrue(e, v) ==
    /\ e.status = "ok" => audio[v] # 0 /\ \E l \in links : l.video = v
    /\ e.track => audio[v] # 0

\* Tables that grow leave true items true.
LEMMA ItemStaysTrue ==
    ASSUME Grows, NEW e, NEW v \in Videos, ItemIsTrue(e, v)
    PROVE  ItemIsTrue(e, v)'
  BY DEF Grows, ItemIsTrue

\* A run writes "ok" once the track is there and linked, and a failure keeps
\* the track an item already had.
LEMMA WrittenItemIsTrue ==
    ASSUME IInv, ItemTruth, NEW w \in Workers, RecordOk(w) \/ RecordFailure(w)
    PROVE  ItemTruth'
  <1>1. /\ Bounds(w) /\ Knows(w) /\ job[w].at \in {"record", "failed"}
        /\ UNCHANGED <<audio, links>>
    BY DEF RecordOk, RecordFailure, At, IInv, JobsKnow
  <1>2. Video(w) \in Videos /\ job[w].src \in Sources
    BY <1>1, VideoIsVideo DEF Bounds
  <1> DEFINE old == items[job[w].src][Video(w)]
  <1>3. items \in [Sources -> [Videos -> [status : {"none", "ok", "failed"}, track : BOOLEAN]]]
        /\ old \in [status : {"none", "ok", "failed"}, track : BOOLEAN]
    <2>1. items \in [Sources -> [Videos -> [status : {"none", "ok", "failed"}, track : BOOLEAN]]]
      BY DEF IInv, TypeOK
    <2> QED
      BY <1>2, <2>1
  <1>4. ItemIsTrue(old, Video(w))
    BY <1>2 DEF ItemTruth, ItemIsTrue
  <1>5. PICK e \in [status : {"none", "ok", "failed"}, track : BOOLEAN] :
           items' = [items EXCEPT ![job[w].src][Video(w)] = e] /\ ItemIsTrue(e, Video(w))
    <2>1. CASE RecordOk(w)
      <3>1. audio[Video(w)] # 0 /\ \E l \in links : l.video = Video(w)
        BY <1>1, <2>1 DEF RecordOk, Knows, At, Linked, LinksOf
      <3>2. PICK e \in {[status |-> "ok", track |-> TRUE], old, [old EXCEPT !.status = "ok"]} :
               items' = [items EXCEPT ![job[w].src][Video(w)] = e]
        BY <2>1 DEF RecordOk
      <3>3. e \in [status : {"none", "ok", "failed"}, track : BOOLEAN]
        <4> HIDE DEF old
        <4>1. [old EXCEPT !.status = "ok"] \in [status : {"none", "ok", "failed"}, track : BOOLEAN]
          BY <1>3
        <4>2. [status |-> "ok", track |-> TRUE] \in [status : {"none", "ok", "failed"}, track : BOOLEAN]
          OBVIOUS
        <4> QED
          BY <1>3, <3>2, <4>1, <4>2
      <3>4. ItemIsTrue(e, Video(w))
        BY <3>1 DEF ItemIsTrue
      <3> QED
        BY <3>2, <3>3, <3>4
    <2>2. CASE RecordFailure(w)
      <3> DEFINE bad == [old EXCEPT !.status = "failed"]
      <3>1. bad \in [status : {"none", "ok", "failed"}, track : BOOLEAN]
            /\ bad.status = "failed" /\ bad.track = old.track
        BY <1>3
      <3>2. ItemIsTrue(bad, Video(w))
        BY <1>4, <3>1 DEF ItemIsTrue
      <3>3. items' = [items EXCEPT ![job[w].src][Video(w)] = bad]
            \/ items' = [items EXCEPT ![job[w].src][Video(w)] = old]
        BY <1>3, <2>2 DEF RecordFailure
      <3> QED
        BY <1>3, <1>4, <3>1, <3>2, <3>3
    <2> QED
      BY <2>1, <2>2
  <1> HIDE DEF old
  <1>6. /\ items'[job[w].src][Video(w)] = e
        /\ \A t \in Sources, u \in Videos :
              t # job[w].src \/ u # Video(w) => items'[t][u] = items[t][u]
    <2>1. PICK t \in Sources, u \in Videos : t = job[w].src /\ u = Video(w)
      BY <1>2
    <2>2. items' = [items EXCEPT ![t][u] = e]
      BY <1>5, <2>1
    <2>3. PICK Items : items \in [Sources -> [Videos -> Items]]
      BY <1>3
    <2>4. /\ items'[t][u] = e
          /\ \A x \in Sources, y \in Videos : x # t \/ y # u => items'[x][y] = items[x][y]
      BY <2>2, <2>3
    <2> QED
      BY <2>1, <2>4
  <1>7. ASSUME NEW s \in Sources, NEW v \in Videos
        PROVE  ItemIsTrue(items'[s][v], v)
    <2>1. CASE s = job[w].src /\ v = Video(w)
      <3>1. items'[s][v] = e
        BY <1>6, <2>1
      <3> QED
        BY <1>5, <2>1, <3>1
    <2>2. CASE s # job[w].src \/ v # Video(w)
      <3>1. items'[s][v] = items[s][v]
        BY <1>6, <2>2
      <3> QED
        BY <3>1 DEF ItemTruth, ItemIsTrue
    <2> QED
      BY <2>1, <2>2
  <1> QED
    BY <1>1, <1>7 DEF ItemTruth, ItemIsTrue

\* An item shown as imported is a track on a playlist, and its track id is
\* never set without a track, whatever failed or stopped in between.
THEOREM ItemsAreTrue == Spec => []ItemTruth
  <1>1. Init => ItemTruth
    BY DEF Init, ItemTruth
  <1>2. IInv /\ ItemTruth /\ [Next]_vars => ItemTruth'
    <2> SUFFICES ASSUME IInv, ItemTruth, [Next]_vars PROVE ItemTruth'
      OBVIOUS
    <2>1. CASE UNCHANGED items
      <3>1. Grows
        BY NextGrows
      <3>2. \A s \in Sources, v \in Videos : ItemIsTrue(items[s][v], v)
        BY DEF ItemTruth, ItemIsTrue
      <3>3. \A s \in Sources, v \in Videos : ItemIsTrue(items[s][v], v)'
        BY <2>1, <3>1, <3>2, ItemStaysTrue DEF Grows, ItemIsTrue
      <3> QED
        BY <3>3 DEF ItemTruth, ItemIsTrue
    <2>2. CASE \E w \in Workers : RecordOk(w) \/ RecordFailure(w)
      BY <2>2, WrittenItemIsTrue
    <2>3. ASSUME NEW w \in Workers, Step(w), ~RecordOk(w), ~RecordFailure(w)
          PROVE  UNCHANGED items
      BY <2>3 DEF Step, FindPlaylist, CreatePlaylist, Retarget, Lookup, Download,
                  CommitTrack, CheckLinked, ReadPosition, InsertLink, Finish
    <2> QED
      BY <2>1, <2>2, <2>3 DEF Next, vars, Rename, Start, DownloadFails, EntryError, Stop
  <1> QED
    BY <1>1, <1>2, IInvHolds, PTL DEF Spec

-----------------------------------------------------------------------------
(* Which steps make a worker create a playlist or insert a link.           *)

LEMMA JobMoves ==
    ASSUME IInv, [Next]_vars, NEW v \in Workers
    PROVE  \/ job'[v] = job[v]
           \/ FindPlaylist(v) \/ ReadPosition(v)
           \/ job'[v].at \notin {"create", "link"}
  <1> DEFINE Moved == \/ job'[v] = job[v]
                      \/ FindPlaylist(v) \/ ReadPosition(v)
                      \/ job'[v].at \notin {"create", "link"}
  <1>0. ASSUME NEW w \in Workers
        PROVE  job[w] \in JobRecords /\ job \in [Workers -> JobRecords]
    BY DEF IInv, TypeOK, JobRecords
  <1>1. ASSUME UNCHANGED job
        PROVE  Moved
    BY <1>1
  <1>2. ASSUME NEW w \in Workers, NEW c, job' = [job EXCEPT ![w] = c],
               c.at \notin {"create", "link"} \/ w # v
        PROVE  Moved
    BY <1>0, <1>2
  <1>3. ASSUME NEW w \in Workers, NEW p, p \notin {"create", "link"} \/ w # v, Goto(w, p)
        PROVE  Moved
    <2>1. [job[w] EXCEPT !.at = p].at = p
      BY <1>0 DEF JobRecords
    <2> QED
      BY <1>2, <1>3, <2>1 DEF Goto
  <1>4. ASSUME NEW w \in Workers, job' = [job EXCEPT ![w] = Idle]
        PROVE  Moved
    <2>1. Idle.at \notin {"create", "link"}
      BY DEF Idle
    <2> QED
      BY <1>2, <1>4, <2>1
  <1>5. ASSUME NEW w \in Workers, NEW f, Advance(w, f)
        PROVE  Moved
    <2> DEFINE last == job[w].entry = Len(job[w].listing)
               c == [job[w] EXCEPT !.at = IF last THEN "finish" ELSE "lookup",
                                   !.entry = IF last THEN @ ELSE @ + 1, !.failed = f]
    <2>1. job' = [job EXCEPT ![w] = c]
      BY <1>5 DEF Advance
    <2>2. c.at \notin {"create", "link"}
      BY <1>0 DEF JobRecords
    <2> HIDE DEF c
    <2> QED
      BY <1>2, <1>5, <2>1, <2>2
  <1>6. ASSUME NEW w \in Workers, FindPlaylist(w)
        PROVE  Moved
    <2>1. CASE w = v
      BY <1>6, <2>1
    <2>2. CASE w # v
      BY <1>2, <1>3, <1>6, <2>2 DEF FindPlaylist
    <2> QED
      BY <2>1, <2>2
  <1>7. ASSUME NEW w \in Workers, CreatePlaylist(w) \/ Download(w)
        PROVE  Moved
    <2>1. ASSUME CreatePlaylist(w)
          PROVE  Moved
      <3> DEFINE c == [job[w] EXCEPT !.at = "retarget", !.playlist = Len(playlists) + 1]
      <3>1. job' = [job EXCEPT ![w] = c]
        BY <2>1 DEF CreatePlaylist
      <3>2. c.at \notin {"create", "link"}
        BY <1>0 DEF JobRecords
      <3> HIDE DEF c
      <3> QED
        BY <1>2, <3>1, <3>2
    <2>2. ASSUME Download(w)
          PROVE  Moved
      <3> DEFINE c == [job[w] EXCEPT !.at = "commit", !.key = Cardinality(files) + 1]
      <3>1. job' = [job EXCEPT ![w] = c]
        BY <2>2 DEF Download
      <3>2. c.at \notin {"create", "link"}
        BY <1>0 DEF JobRecords
      <3> HIDE DEF c
      <3> QED
        BY <1>2, <3>1, <3>2
    <2> QED
      BY <1>7, <2>1, <2>2
  <1>8. ASSUME NEW w \in Workers, ReadPosition(w)
        PROVE  Moved
    <2>1. CASE w = v
      BY <1>8, <2>1
    <2>2. CASE w # v
      <3>1. PICK n : job' = [job EXCEPT ![w].at = "link", ![w].position = n]
        BY <1>8 DEF ReadPosition
      <3>2. job' = [job EXCEPT ![w] = [job[w] EXCEPT !.at = "link", !.position = n]]
        BY <3>1
      <3> QED
        BY <1>2, <2>2, <3>2
    <2> QED
      BY <2>1, <2>2
  <1>9. ASSUME NEW w \in Workers, Step(w)
        PROVE  Moved
    <2>1. CASE Retarget(w) \/ Lookup(w) \/ CommitTrack(w) \/ CheckLinked(w) \/ InsertLink(w)
      BY <1>3, <2>1 DEF Retarget, Lookup, CommitTrack, CheckLinked, InsertLink
    <2>2. CASE RecordOk(w) \/ RecordFailure(w) \/ Finish(w)
      BY <1>4, <1>5, <2>2 DEF RecordOk, RecordFailure, Finish
    <2> QED
      BY <1>6, <1>7, <1>8, <1>9, <2>1, <2>2 DEF Step
  <1>10. ASSUME NEW w \in Workers, DownloadFails(w) \/ EntryError(w) \/ Stop(w)
         PROVE  Moved
    BY <1>3, <1>4, <1>10 DEF DownloadFails, EntryError, Stop
  <1>11. ASSUME NEW w \in Workers, NEW s, NEW listing, Start(w, s, listing)
         PROVE  Moved
    <2>1. [Idle EXCEPT !.at = "find", !.src = s, !.listing = listing,
                       !.name = target[s].name, !.known = target[s].id].at = "find"
      BY DEF Idle
    <2> QED
      BY <1>2, <1>11, <2>1 DEF Start
  <1>12. ASSUME NEW s, NEW m, Rename(s, m)
         PROVE  Moved
    BY <1>1, <1>12 DEF Rename
  <1>13. CASE UNCHANGED vars
    BY <1>1, <1>13 DEF vars
  <1> QED
    BY <1>9, <1>10, <1>11, <1>12, <1>13 DEF Next

LEMMA OnlyCreates ==
    ASSUME [Next]_vars
    PROVE  UNCHANGED playlists \/ \E w \in Workers : CreatePlaylist(w)
  <1>1. ASSUME NEW w \in Workers, Step(w), ~CreatePlaylist(w)
        PROVE  UNCHANGED playlists
    BY <1>1 DEF Step, FindPlaylist, Retarget, Lookup, Download, CommitTrack,
                CheckLinked, ReadPosition, InsertLink, RecordOk, RecordFailure, Finish
  <1> QED
    BY <1>1 DEF Next, vars, Rename, Start, DownloadFails, EntryError, Stop

LEMMA OnlyInserts ==
    ASSUME [Next]_vars
    PROVE  UNCHANGED links \/ \E w \in Workers : InsertLink(w)
  <1>1. ASSUME NEW w \in Workers, Step(w), ~InsertLink(w)
        PROVE  UNCHANGED links
    BY <1>1 DEF Step, FindPlaylist, CreatePlaylist, Retarget, Lookup, Download, CommitTrack,
                CheckLinked, ReadPosition, RecordOk, RecordFailure, Finish
  <1> QED
    BY <1>1 DEF Next, vars, Rename, Start, DownloadFails, EntryError, Stop

-----------------------------------------------------------------------------
(* Order.                                                                  *)

\* The position a worker is about to use is beyond those of the entries it has
\* passed without failing.
Ahead(w) ==
    At(w, "link") =>
        \A i \in 1..(job[w].entry - 1) \ job[w].failed :
            \A l \in LinksOf(job[w].playlist) :
                l.video = job[w].listing[i] => l.position < job[w].position

LEMMA PassedIsDone ==
    ASSUME IInv, NEW w \in Workers, At(w, "link") \/ At(w, "position"),
           NEW i \in 1..(job[w].entry - 1) \ job[w].failed
    PROVE  Linked(job[w].playlist, job[w].listing[i])
  <1>1. Bounds(w) /\ Knows(w)
    BY DEF IInv, JobsKnow, At
  <1>2. /\ Len(job[w].listing) \in Nat /\ DOMAIN job[w].listing = 1..Len(job[w].listing)
        /\ job[w].entry \in 1..Len(job[w].listing)
    BY <1>1, ListingFacts DEF Bounds
  <1>3. i \in DOMAIN job[w].listing \ job[w].failed /\ i < job[w].entry
    BY <1>2
  <1> QED
    BY <1>1, <1>3 DEF Knows, Done

\* Links that are inserted later are not of those entries: theirs are there, and
\* (playlist_id, track_id) is UNIQUE.
LEMMA AheadStays ==
    ASSUME IInv, [Next]_vars, NEW w \in Workers, Ahead(w), job'[w] = job[w]
    PROVE  Ahead(w)'
  <1> SUFFICES ASSUME At(w, "link"),
                      NEW i \in 1..(job[w].entry - 1) \ job[w].failed,
                      NEW l \in links', l.playlist = job[w].playlist,
                      l.video = job[w].listing[i]
               PROVE  l.position < job[w].position
    BY DEF Ahead, At, LinksOf
  <1>1. CASE l \in links
    BY <1>1 DEF Ahead, LinksOf
  <1>2. CASE l \notin links
    <2>1. PICK u \in Workers : InsertLink(u)
      BY <1>2, OnlyInserts
    <2>2. /\ l = Row(job[u].playlist, Video(u), job[u].position)
          /\ \A m \in LinksOf(l.playlist) : m.video # l.video
      BY <1>2, <2>1 DEF InsertLink
    <2> QED
      BY <2>2, PassedIsDone DEF Linked
  <1> QED
    BY <1>1, <1>2

\* MAX(position) + 1 is beyond every position of the playlist, and the worker
\* stays at its entry.
LEMMA ReadPositionIsFresh ==
    ASSUME IInv, "dbError" \notin Faults, NEW w \in Workers, ReadPosition(w)
    PROVE  /\ \A l \in LinksOf(job[w].playlist) : l.position < job'[w].position
           /\ job'[w].at = "link"
           /\ job'[w].playlist = job[w].playlist /\ job'[w].listing = job[w].listing
           /\ job'[w].entry = job[w].entry /\ job'[w].failed = job[w].failed
           /\ UNCHANGED <<audio, links>>
  <1>1. PICK next \in NextPosition(job[w].playlist) :
           job' = [job EXCEPT ![w].at = "link",
                              ![w].position = IF next < job[w].entry THEN job[w].entry ELSE next]
    BY DEF ReadPosition, DbFails
  <1> DEFINE p == IF next < job[w].entry THEN job[w].entry ELSE next
             c == [job[w] EXCEPT !.at = "link", !.position = p]
  <1>2. job[w] \in JobRecords /\ job \in [Workers -> JobRecords]
        /\ links \subseteq [playlist : Nat, video : Videos, position : Nat]
    BY DEF IInv, TypeOK, JobRecords
  <1>3. /\ c.at = "link" /\ c.playlist = job[w].playlist /\ c.listing = job[w].listing
        /\ c.entry = job[w].entry /\ c.failed = job[w].failed /\ c.position = p
    BY <1>2 DEF JobRecords
  <1>4. job'[w] = c /\ UNCHANGED <<audio, links>>
    BY <1>1, <1>2 DEF ReadPosition
  <1>5. \A l \in LinksOf(job[w].playlist) : l.position < p
    <2>1. \A l \in LinksOf(job[w].playlist) : l.position \in Nat /\ l.position < next
      BY <1>2 DEF NextPosition, LinksOf
    <2>2. next \in Nat
      <3>1. next = 1 \/ \E l \in LinksOf(job[w].playlist) : next = l.position + 1
        BY DEF NextPosition
      <3> QED
        BY <2>1, <3>1
    <2>3. job[w].entry \in Nat
      BY <1>2 DEF JobRecords
    <2>4. next <= p /\ p \in Nat
      BY <2>2, <2>3
    <2> HIDE DEF p
    <2> QED
      BY <2>1, <2>2, <2>4
  <1> HIDE DEF c, p
  <1> QED
    BY <1>3, <1>4, <1>5

LEMMA ReadPositionAhead ==
    ASSUME IInv, "dbError" \notin Faults, NEW w \in Workers, ReadPosition(w)
    PROVE  Ahead(w)'
  BY ReadPositionIsFresh DEF Ahead, LinksOf

\* When no statement fails, what a run appends to a playlist comes after every
\* earlier entry it did not fail on, whatever other runs append meanwhile.
THEOREM OrderIsKept ==
    ASSUME "dbError" \notin Faults
    PROVE  Spec => OrderKept
  <1> DEFINE AllAhead == \A w \in Workers : Ahead(w)
  <1>1. Init => AllAhead
    <2> SUFFICES ASSUME Init, NEW w \in Workers PROVE ~At(w, "link")
      BY DEF Ahead
    <2> QED
      BY DEF Init, At, Idle
  <1>2. IInv /\ AllAhead /\ [Next]_vars => AllAhead'
    <2> SUFFICES ASSUME IInv, AllAhead, [Next]_vars, NEW w \in Workers PROVE Ahead(w)'
      OBVIOUS
    <2>1. CASE job'[w] = job[w]
      BY <2>1, AheadStays
    <2>2. CASE ReadPosition(w)
      BY <2>2, ReadPositionAhead
    <2>3. CASE job'[w].at # "link"
      BY <2>3 DEF Ahead, At
    <2>4. FindPlaylist(w) => job'[w].at # "link"
      <3>1. job[w] \in JobRecords /\ job \in [Workers -> JobRecords]
        BY DEF IInv, TypeOK, JobRecords
      <3> QED
        BY <3>1 DEF FindPlaylist, Goto, JobRecords
    <2> QED
      BY <2>1, <2>2, <2>3, <2>4, JobMoves
  <1>3. AllAhead => [\A w \in Workers :
          At(w, "link") /\ links' # links /\ job'[w] # job[w] =>
              \A i \in 1..(job[w].entry - 1) \ job[w].failed :
                  \A l \in LinksOf(job[w].playlist) :
                      l.video = job[w].listing[i] => l.position < job[w].position]_vars
    BY DEF Ahead
  <1> QED
    BY <1>1, <1>2, <1>3, IInvHolds, PTL DEF Spec, OrderKept

-----------------------------------------------------------------------------
(* Copies of a playlist.                                                   *)

\* Workers that found no playlist of the name and have not inserted theirs.
Creating(n) == {w \in Workers : At(w, "create") /\ job[w].name = n}

\* A worker starts creating only when the name has no playlist; the other step
\* that matters is the INSERT.
LEMMA CreatingMoves ==
    ASSUME IInv, [Next]_vars, NEW n \in Names
    PROVE  \/ UNCHANGED playlists /\ (Creating(n)' \subseteq Creating(n) \/ Named(n) = {})
           \/ \E w \in Workers : CreatePlaylist(w)
  <1> SUFFICES ASSUME Named(n) # {}, NEW v \in Creating(n)'
               PROVE  v \in Creating(n)
    BY OnlyCreates
  <1>1. v \in Workers /\ job'[v].at = "create" /\ job'[v].name = n
    BY DEF Creating, At
  <1>2. job[v] \in JobRecords /\ job \in [Workers -> JobRecords]
    BY <1>1 DEF IInv, TypeOK, JobRecords
  <1>3. CASE job'[v] = job[v]
    BY <1>1, <1>3 DEF Creating, At
  <1>4. ~FindPlaylist(v)
    <2> SUFFICES ASSUME FindPlaylist(v) PROVE FALSE
      OBVIOUS
    <2>1. CASE Named(job[v].name) = {}
      <3>1. Goto(v, "create")
        BY <2>1 DEF FindPlaylist
      <3>2. job'[v].name = job[v].name
        BY <1>1, <1>2, <3>1 DEF Goto, JobRecords
      <3> QED
        BY <1>1, <2>1, <3>2
    <2>2. CASE Named(job[v].name) # {}
      <3>1. PICK p : job' = [job EXCEPT ![v].at = "retarget", ![v].playlist = p]
        BY <2>2 DEF FindPlaylist
      <3> DEFINE c == [job[v] EXCEPT !.at = "retarget", !.playlist = p]
      <3>3. c.at = "retarget" /\ job' = [job EXCEPT ![v] = c]
        BY <1>2, <3>1 DEF JobRecords
      <3> HIDE DEF c
      <3>2. job'[v].at = "retarget"
        BY <1>1, <1>2, <3>3
      <3> QED
        BY <1>1, <3>2
    <2> QED
      BY <2>1, <2>2
  <1>5. ~ReadPosition(v)
    <2> SUFFICES ASSUME ReadPosition(v) PROVE FALSE
      OBVIOUS
    <2>1. PICK p : job' = [job EXCEPT ![v].at = "link", ![v].position = p]
      BY DEF ReadPosition
    <2> DEFINE c == [job[v] EXCEPT !.at = "link", !.position = p]
    <2>3. c.at = "link" /\ job' = [job EXCEPT ![v] = c]
      BY <1>2, <2>1 DEF JobRecords
    <2> HIDE DEF c
    <2>2. job'[v].at = "link"
      BY <1>1, <1>2, <2>3
    <2> QED
      BY <1>1, <2>2
  <1> QED
    BY <1>1, <1>3, <1>4, <1>5, JobMoves

\* The INSERT adds one playlist of the worker's name and ends its creating.
LEMMA CreateMoves ==
    ASSUME IInv, NEW w \in Workers, CreatePlaylist(w), NEW n \in Names
    PROVE  \/ /\ w \in Creating(n) /\ Creating(n)' = Creating(n) \ {w}
              /\ Named(n)' = Named(n) \union {Len(playlists) + 1}
           \/ Creating(n)' = Creating(n) /\ Named(n)' = Named(n)
  <1>1. playlists \in Seq(Names) /\ job[w].name \in Names
    BY DEF CreatePlaylist, At, IInv, TypeOK, JobsKnow, Bounds
  <1>2. /\ playlists' = Append(playlists, job[w].name) /\ Len(playlists) \in Nat
        /\ DOMAIN playlists = 1..Len(playlists) /\ DOMAIN playlists' = 1..(Len(playlists) + 1)
        /\ playlists'[Len(playlists) + 1] = job[w].name
        /\ \A i \in 1..Len(playlists) : playlists'[i] = playlists[i]
    <2>1. playlists' = Append(playlists, job[w].name)
      BY DEF CreatePlaylist
    <2>2. /\ playlists' \in Seq(Names) /\ Len(playlists') = Len(playlists) + 1
          /\ playlists'[Len(playlists) + 1] = job[w].name
          /\ \A i \in 1..Len(playlists) : playlists'[i] = playlists[i]
      BY <1>1, <2>1, AppendProperties
    <2> QED
      BY <1>1, <2>1, <2>2, LenProperties
  <1>3. /\ job[w].at = "create" /\ job'[w].at = "retarget"
        /\ \A v \in Workers \ {w} : job'[v] = job[v]
    BY DEF CreatePlaylist, At, IInv, TypeOK
  <1> QED
    BY <1>2, <1>3 DEF Creating, Named, At

LEMMA CopiesFinite ==
    ASSUME TypeOK, NEW n
    PROVE  IsFiniteSet(Named(n)) /\ Cardinality(Named(n)) \in Nat
  <1>1. Len(playlists) \in Nat /\ DOMAIN playlists = 1..Len(playlists)
    BY LenProperties DEF TypeOK
  <1>2. IsFiniteSet(DOMAIN playlists)
    BY <1>1, FS_Interval
  <1>3. Named(n) \subseteq DOMAIN playlists
    BY DEF Named
  <1> QED
    BY <1>2, <1>3, FS_Subset, FS_CardinalityType

LEMMA CreatingFinite ==
    ASSUME NEW set \in SUBSET Workers
    PROVE  /\ IsFiniteSet(set) /\ Cardinality(set) \in Nat /\ Cardinality(Workers) \in Nat
           /\ Cardinality(set) <= Cardinality(Workers)
  BY WorkersAssumption, FS_Subset, FS_CardinalityType

LEMMA CopiesInductive == ASSUME IInv, CopiesBound, [Next]_vars PROVE CopiesBound'
  <1> SUFFICES ASSUME NEW n \in Names
               PROVE  Cardinality(Named(n)') + Cardinality(Creating(n)') <= Cardinality(Workers)
    BY DEF CopiesBound, Creating
  <1>1. Cardinality(Named(n)) + Cardinality(Creating(n)) <= Cardinality(Workers)
    BY DEF CopiesBound, Creating
  <1>2. /\ IsFiniteSet(Named(n)) /\ Cardinality(Named(n)) \in Nat
        /\ IsFiniteSet(Creating(n)) /\ Cardinality(Creating(n)) \in Nat
        /\ Cardinality(Workers) \in Nat
        /\ Cardinality(Creating(n)') \in Nat /\ Cardinality(Creating(n)') <= Cardinality(Workers)
    <2>1. Creating(n) \subseteq Workers /\ Creating(n)' \subseteq Workers
      BY DEF Creating
    <2> QED
      BY <2>1, CopiesFinite, CreatingFinite DEF IInv
  <1>3. CASE UNCHANGED playlists /\ Named(n) = {}
    <2>1. Named(n)' = {} /\ Cardinality({}) = 0
      BY <1>3, FS_EmptySet DEF Named
    <2> QED
      BY <1>2, <2>1
  <1>4. CASE UNCHANGED playlists /\ Creating(n)' \subseteq Creating(n)
    <2>1. Named(n)' = Named(n)
      BY <1>4 DEF Named
    <2>2. Cardinality(Creating(n)') <= Cardinality(Creating(n))
      BY <1>2, <1>4, FS_Subset
    <2> QED
      BY <1>1, <1>2, <2>1, <2>2
  <1>5. ASSUME NEW w \in Workers, CreatePlaylist(w)
        PROVE  Cardinality(Named(n)') + Cardinality(Creating(n)') <= Cardinality(Workers)
    <2>1. CASE /\ w \in Creating(n) /\ Creating(n)' = Creating(n) \ {w}
               /\ Named(n)' = Named(n) \union {Len(playlists) + 1}
      <3>1. Cardinality(Creating(n)') = Cardinality(Creating(n)) - 1
        BY <1>2, <2>1, FS_RemoveElement
      <3>2. Cardinality(Named(n) \union {Len(playlists) + 1})
               \in {Cardinality(Named(n)), Cardinality(Named(n)) + 1}
        BY <1>2, FS_AddElement
      <3> QED
        BY <1>1, <1>2, <2>1, <3>1, <3>2
    <2>2. CASE Creating(n)' = Creating(n) /\ Named(n)' = Named(n)
      BY <1>1, <2>2
    <2> QED
      BY <1>5, <2>1, <2>2, CreateMoves
  <1> QED
    BY <1>3, <1>4, <1>5, CreatingMoves

\* find-or-create, raced by any number of runs, never makes more playlists of
\* one name than there are workers.
THEOREM CopiesAreBounded == Spec => []CopiesBound
  <1>1. Init => CopiesBound
    <2> SUFFICES ASSUME Init, NEW n \in Names
                 PROVE  Cardinality(Named(n)) + Cardinality(Creating(n)) <= Cardinality(Workers)
      BY DEF CopiesBound, Creating
    <2>1. Named(n) = {}
      BY DEF Init, Named
    <2>2. \A w \in Workers : job[w].at = "idle"
      BY DEF Init, Idle
    <2>3. Creating(n) = {}
      BY <2>2 DEF Creating, At
    <2> QED
      BY <2>1, <2>3, FS_EmptySet, WorkersAssumption, FS_CardinalityType
  <1>2. IInv /\ CopiesBound /\ [Next]_vars => CopiesBound'
    BY CopiesInductive
  <1> QED
    BY <1>1, <1>2, IInvHolds, PTL DEF Spec

-----------------------------------------------------------------------------
(* The end of a run.                                                       *)

LEMMA PlaceFacts ==
    /\ Place["find"] = 1 /\ Place["create"] = 2 /\ Place["retarget"] = 3
    /\ Place["lookup"] = 4 /\ Place["download"] = 5 /\ Place["commit"] = 6
    /\ Place["linked"] = 7 /\ Place["position"] = 8 /\ Place["link"] = 9
    /\ Place["record"] = 10 /\ Place["failed"] = 11 /\ Place["finish"] = 12
  BY DEF Place

\* What RunsAdvance asks of a step of w.
GoesOn(w) ==
    /\ job'[w].listing = job[w].listing
    /\ job'[w].entry \in job[w].entry .. Len(job[w].listing)
    /\ job'[w].entry = job[w].entry => Place[job[w].at] < Place[job'[w].at]

LEMMA SameEntryGoesOn ==
    ASSUME NEW w \in Workers, Bounds(w), job'[w].listing = job[w].listing,
           job'[w].entry = job[w].entry, Place[job[w].at] < Place[job'[w].at]
    PROVE  GoesOn(w)
  BY ListingFacts DEF Bounds, GoesOn

LEMMA GotoGoesOn ==
    ASSUME IInv, NEW w \in Workers, Bounds(w), NEW p \in Phases, Goto(w, p),
           Place[job[w].at] < Place[p]
    PROVE  GoesOn(w)
  BY GotoFacts, SameEntryGoesOn DEF IInv

\* The next entry, or the end of the loop.
LEMMA AdvanceGoesOn ==
    ASSUME IInv, NEW w \in Workers, Bounds(w), job[w].at \in {"record", "failed"},
           NEW f, Advance(w, f)
    PROVE  GoesOn(w)
  <1> DEFINE last == job[w].entry = Len(job[w].listing)
             c == [job[w] EXCEPT !.at = IF last THEN "finish" ELSE "lookup",
                                 !.entry = IF last THEN @ ELSE @ + 1, !.failed = f]
  <1>1. job[w] \in JobRecords /\ job \in [Workers -> JobRecords]
    BY DEF IInv, TypeOK, JobRecords
  <1>2. job' = [job EXCEPT ![w] = c]
    BY DEF Advance
  <1>3. /\ c.at = (IF last THEN "finish" ELSE "lookup") /\ c.listing = job[w].listing
        /\ c.entry = (IF last THEN job[w].entry ELSE job[w].entry + 1)
    BY <1>1 DEF JobRecords
  <1> HIDE DEF c
  <1>4. job'[w] = c
    BY <1>1, <1>2
  <1>5. job[w].entry \in 1..Len(job[w].listing) /\ Len(job[w].listing) \in Nat
    BY ListingFacts DEF Bounds
  <1>6. CASE last
    <2>1. Place[job[w].at] < Place["finish"]
      BY PlaceFacts
    <2> QED
      BY <1>3, <1>4, <1>6, <2>1, SameEntryGoesOn
  <1>7. CASE ~last
    BY <1>3, <1>4, <1>5, <1>7 DEF GoesOn
  <1> QED
    BY <1>6, <1>7

LEMMA StepGoesOn ==
    ASSUME IInv, NEW w \in Workers, Bounds(w), Step(w) \/ DownloadFails(w) \/ EntryError(w)
    PROVE  GoesOn(w) \/ job'[w].at = "idle"
  <1>0. job[w] \in JobRecords /\ job \in [Workers -> JobRecords]
    BY DEF IInv, TypeOK, JobRecords
  <1>1. CASE Retarget(w) \/ Lookup(w) \/ CommitTrack(w) \/ CheckLinked(w) \/ InsertLink(w)
             \/ DownloadFails(w) \/ EntryError(w)
    <2>1. PICK p \in {"lookup", "linked", "download", "failed", "record", "position"} :
             Goto(w, p) /\ Place[job[w].at] < Place[p]
      <3>1. CASE Retarget(w) \/ Lookup(w) \/ CommitTrack(w)
        BY <3>1, PlaceFacts DEF Retarget, Lookup, CommitTrack, At
      <3>2. CASE CheckLinked(w) \/ InsertLink(w)
        BY <3>2, PlaceFacts DEF CheckLinked, InsertLink, At
      <3>3. CASE DownloadFails(w) \/ EntryError(w)
        BY <3>3, PlaceFacts DEF DownloadFails, EntryError, At
      <3> QED
        BY <1>1, <3>1, <3>2, <3>3
    <2> QED
      BY <2>1, GotoGoesOn DEF Phases
  <1>2. CASE FindPlaylist(w) \/ CreatePlaylist(w)
    <2>1. CASE FindPlaylist(w) /\ Named(job[w].name) = {}
      BY <2>1, PlaceFacts, GotoGoesOn DEF FindPlaylist, At, Phases
    <2>2. CASE CreatePlaylist(w) \/ Named(job[w].name) # {}
      <3>1. PICK p : job' = [job EXCEPT ![w].at = "retarget", ![w].playlist = p]
        BY <1>2, <2>2 DEF FindPlaylist, CreatePlaylist
      <3>2. /\ job'[w].at = "retarget" /\ job'[w].listing = job[w].listing
            /\ job'[w].entry = job[w].entry
        BY <1>0, <3>1 DEF JobRecords
      <3>3. job[w].at \in {"find", "create"}
        BY <1>2 DEF FindPlaylist, CreatePlaylist, At
      <3> QED
        BY <3>2, <3>3, PlaceFacts, SameEntryGoesOn
    <2> QED
      BY <1>2, <2>1, <2>2
  <1>3. CASE Download(w)
    <2>1. PICK key : job' = [job EXCEPT ![w].at = "commit", ![w].key = key]
      BY <1>3 DEF Download
    <2>2. /\ job'[w].at = "commit" /\ job'[w].listing = job[w].listing
          /\ job'[w].entry = job[w].entry
      BY <1>0, <2>1 DEF JobRecords
    <2>3. job[w].at = "download"
      BY <1>3 DEF Download, At
    <2> QED
      BY <2>2, <2>3, PlaceFacts, SameEntryGoesOn
  <1>4. CASE ReadPosition(w)
    <2>1. PICK n : job' = [job EXCEPT ![w].at = "link", ![w].position = n]
      BY <1>4 DEF ReadPosition
    <2>2. /\ job'[w].at = "link" /\ job'[w].listing = job[w].listing
          /\ job'[w].entry = job[w].entry
      BY <1>0, <2>1 DEF JobRecords
    <2>3. job[w].at = "position"
      BY <1>4 DEF ReadPosition, At
    <2> QED
      BY <2>2, <2>3, PlaceFacts, SameEntryGoesOn
  <1>5. CASE RecordOk(w) \/ RecordFailure(w)
    BY <1>5, AdvanceGoesOn DEF RecordOk, RecordFailure, At
  <1>6. CASE Finish(w)
    <2>1. Idle.at = "idle"
      BY DEF Idle
    <2> QED
      BY <1>0, <1>6, <2>1 DEF Finish
  <1> QED
    BY <1>1, <1>2, <1>3, <1>4, <1>5, <1>6 DEF Step

\* A worker's place in its run is moved by that worker alone.
LEMMA OthersStay ==
    ASSUME IInv, NEW v \in Workers, NEW w \in Workers \ {v},
           Step(v) \/ DownloadFails(v) \/ EntryError(v) \/ Stop(v)
    PROVE  job'[w] = job[w]
  <1>0. job \in [Workers -> JobRecords]
    BY DEF IInv, TypeOK, JobRecords
  <1>1. CASE FindPlaylist(v) \/ CreatePlaylist(v) \/ Download(v)
    BY <1>0, <1>1 DEF FindPlaylist, CreatePlaylist, Download, Goto
  <1>2. CASE ReadPosition(v)
    BY <1>0, <1>2 DEF ReadPosition
  <1>3. CASE Retarget(v) \/ Lookup(v) \/ CommitTrack(v) \/ CheckLinked(v) \/ InsertLink(v)
             \/ DownloadFails(v) \/ EntryError(v)
    BY <1>0, <1>3 DEF Retarget, Lookup, CommitTrack, CheckLinked, InsertLink, DownloadFails,
                      EntryError, Goto
  <1>4. CASE RecordOk(v) \/ RecordFailure(v) \/ Finish(v) \/ Stop(v)
    <2>1. PICK c : job' = [job EXCEPT ![v] = c]
      <3>1. CASE RecordOk(v)
        BY <3>1 DEF RecordOk, Advance
      <3>2. CASE RecordFailure(v)
        BY <3>2 DEF RecordFailure, Advance
      <3>3. CASE Finish(v) \/ Stop(v)
        BY <3>3 DEF Finish, Stop
      <3> QED
        BY <1>4, <3>1, <3>2, <3>3
    <2> QED
      BY <1>0, <2>1
  <1> QED
    BY <1>1, <1>2, <1>3, <1>4 DEF Step

\* A step of any worker, seen from a run under way.
LEMMA RunGoesOn ==
    ASSUME IInv, [Next]_vars, NEW w \in Workers,
           ~At(w, "idle"), job'[w] # job[w], job'[w].at # "idle"
    PROVE  GoesOn(w)
  <1>1. Bounds(w)
    BY DEF IInv, JobsKnow
  <1>2. CASE Step(w) \/ DownloadFails(w) \/ EntryError(w)
    BY <1>1, <1>2, StepGoesOn
  <1>3. ~Stop(w)
    <2>1. Idle.at = "idle"
      BY DEF Idle
    <2> QED
      BY <2>1 DEF Stop, IInv, TypeOK
  <1>4. \A v \in Workers \ {w} :
           ~(Step(v) \/ DownloadFails(v) \/ EntryError(v) \/ Stop(v))
    BY OthersStay
  <1>5. ASSUME NEW v \in Workers, NEW s, NEW listing, Start(v, s, listing)
        PROVE  FALSE
    BY <1>5 DEF Start, At, IInv, TypeOK
  <1> QED
    BY <1>2, <1>3, <1>4, <1>5 DEF Next, Rename, vars

\* A run comes to its end: whatever fails and whoever interferes, each of its
\* steps ends it or goes on in a listing of finite length.
THEOREM RunsComeToAnEnd == Spec => RunsAdvance
  <1>1. IInv /\ [Next]_vars => [\A w \in Workers :
          ~At(w, "idle") /\ job'[w] # job[w] /\ job'[w].at # "idle" =>
              /\ job'[w].listing = job[w].listing
              /\ job'[w].entry \in job[w].entry .. Len(job[w].listing)
              /\ job'[w].entry = job[w].entry => Place[job[w].at] < Place[job'[w].at]]_vars
    BY RunGoesOn DEF GoesOn
  <1> QED
    BY <1>1, IInvHolds, PTL DEF Spec, RunsAdvance

\* What is left of a run, in statements of the loop.
Left(w) == 12 * (Len(job[w].listing) - job[w].entry) + (12 - Place[job[w].at])

\* A run that starts has less than twelve steps for each entry before it, and
\* every step of it, a failing one or a lost race included, leaves it fewer.
RunsShorten ==
    [][\A w \in Workers :
          job'[w] # job[w] /\ job'[w].at # "idle" =>
              /\ Left(w)' \in 0 .. (12 * Len(job'[w].listing) - 1)
              /\ ~At(w, "idle") => Left(w)' < Left(w)]_vars

LeftFits ==
    \A w \in Workers : ~At(w, "idle") =>
        /\ job[w].entry \in 1..Len(job[w].listing) /\ Len(job[w].listing) \in Nat
        /\ Place[job[w].at] \in 1..12
        /\ Left(w) \in 0 .. (12 * Len(job[w].listing) - 1)

LEMMA IInvLeftFits == IInv => LeftFits
  <1> SUFFICES ASSUME IInv, NEW w \in Workers, ~At(w, "idle")
               PROVE  /\ job[w].entry \in 1..Len(job[w].listing) /\ Len(job[w].listing) \in Nat
                      /\ Place[job[w].at] \in 1..12
                      /\ Left(w) \in 0 .. (12 * Len(job[w].listing) - 1)
    BY DEF LeftFits
  <1>1. job[w].entry \in 1..Len(job[w].listing) /\ Len(job[w].listing) \in Nat
    BY ListingFacts DEF IInv, JobsKnow, Bounds
  <1>2. Place[job[w].at] \in 1..12
    <2>1. job[w].at \in Phases \ {"idle"}
      BY DEF IInv, TypeOK, At
    <2> QED
      BY <2>1, PlaceFacts DEF Phases
  <1>3. Left(w) \in 0 .. (12 * Len(job[w].listing) - 1)
    <2>1. PICK n, e, p : n = Len(job[w].listing) /\ e = job[w].entry /\ p = Place[job[w].at]
      OBVIOUS
    <2>2. n \in Nat /\ e \in 1..n /\ p \in 1..12
      BY <1>1, <1>2, <2>1
    <2>3. 12 * (n - e) + (12 - p) \in 0 .. (12 * n - 1)
      BY <2>2
    <2> QED
      BY <2>1, <2>3 DEF Left
  <1> QED
    BY <1>1, <1>2, <1>3

\* A run is short: at most twelve statements for each entry of its listing.
THEOREM RunsAreShort == Spec => RunsShorten
  <1>1. ASSUME IInv, LeftFits, LeftFits', [Next]_vars, NEW w \in Workers,
               job'[w] # job[w], job'[w].at # "idle"
        PROVE  /\ Left(w)' \in 0 .. (12 * Len(job'[w].listing) - 1)
               /\ ~At(w, "idle") => Left(w)' < Left(w)
    <2>1. /\ Place[job'[w].at] \in 1..12
          /\ Left(w)' \in 0 .. (12 * Len(job'[w].listing) - 1)
      <3>1. Place' = Place
        BY DEF Place
      <3>2. ~At(w, "idle")'
        BY <1>1 DEF At
      <3>3. \A v \in Workers : ~At(v, "idle")' =>
               /\ Place'[job'[v].at] \in 1..12
               /\ Left(v)' \in 0 .. (12 * Len(job'[v].listing) - 1)
        BY <1>1 DEF LeftFits
      <3> QED
        BY <3>1, <3>2, <3>3
    <2>2. ASSUME ~At(w, "idle")
          PROVE  Left(w)' < Left(w)
      <3>1. GoesOn(w)
        BY <1>1, <2>2, RunGoesOn
      <3>2. PICK n, e, f, p, q :
               /\ n = Len(job[w].listing) /\ e = job[w].entry /\ f = job'[w].entry
               /\ p = Place[job[w].at] /\ q = Place[job'[w].at]
        OBVIOUS
      <3>3. /\ n \in Nat /\ e \in 1..n /\ f \in e..n /\ p \in 1..12 /\ q \in 1..12
            /\ f = e => p < q
        BY <1>1, <2>1, <2>2, <3>1, <3>2 DEF LeftFits, GoesOn
      <3>4. 12 * (n - f) + (12 - q) < 12 * (n - e) + (12 - p)
        BY <3>3
      <3>5. Left(w) = 12 * (n - e) + (12 - p)
        BY <3>2 DEF Left
      <3>6. Left(w)' = 12 * (n - f) + (12 - q)
        <4>1. Left(w)' = 12 * (Len(job'[w].listing) - job'[w].entry) + (12 - Place[job'[w].at])
          BY DEF Left, Place
        <4> QED
          BY <3>1, <3>2, <4>1 DEF GoesOn
      <3> QED
        BY <3>4, <3>5, <3>6
    <2> QED
      BY <2>1, <2>2
  <1>2. IInv /\ LeftFits /\ LeftFits' /\ [Next]_vars => [\A w \in Workers :
          job'[w] # job[w] /\ job'[w].at # "idle" =>
              /\ Left(w)' \in 0 .. (12 * Len(job'[w].listing) - 1)
              /\ ~At(w, "idle") => Left(w)' < Left(w)]_vars
    BY <1>1
  <1> QED
    BY <1>2, IInvHolds, IInvLeftFits, PTL DEF Spec, RunsShorten

=============================================================================
