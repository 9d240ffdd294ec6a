---------------------------- MODULE LoneRunProofs ----------------------------
(***************************************************************************)
(* Theorems about LibraryImport when one run at a time is under way, which *)
(* is what the skip of running sources aims at: what the races cost, said  *)
(* the other way round.                                                    *)
(*                                                                         *)
(* Between the lookup of an entry and its INSERTs nobody else writes, so   *)
(* the worker acts on what is still true (Acts): a video it downloads is   *)
(* no track yet, an entry it links is not linked, its position is free.    *)
(* No UNIQUE index ever rejects a row, and a track is off every playlist   *)
(* only while the worker is about to link it (LinkPending).                *)
(***************************************************************************)
EXTENDS LibraryImportProofs

Alone == \A v, w \in Workers : v = w

\* What a worker is about to do is not done yet, and can be.
Acts(w) ==
    /\ job[w].at \in {"download", "commit", "failed"} => audio[Video(w)] = 0
    /\ job[w].at \in {"position", "link"} => ~Linked(job[w].playlist, Video(w))
    /\ At(w, "link") => \A l \in LinksOf(job[w].playlist) : l.position < job[w].position

AllAct == \A w \in Workers : Acts(w)

-----------------------------------------------------------------------------

LEMMA IdleFacts == Idle.at = "idle" /\ Idle.failed = {}
  BY DEF Idle

\* In the other phases there is nothing to show.
LEMMA QuietActs ==
    ASSUME NEW w,
           job'[w].at \notin {"download", "commit", "failed", "position", "link"}
    PROVE  Acts(w)'
  BY DEF Acts, At

\* A worker that stays at its entry while nothing is written.
LEMMA GotoActs ==
    ASSUME IInv, NEW w \in Workers, NEW p \in Phases \ {"link"}, Goto(w, p),
           UNCHANGED <<audio, links>>,
           p \in {"download", "commit", "failed"} => audio[Video(w)] = 0,
           p = "position" => ~Linked(job[w].playlist, Video(w))
    PROVE  Acts(w)'
  <1>1. /\ job'[w].at = p /\ job'[w].listing = job[w].listing
        /\ job'[w].entry = job[w].entry /\ job'[w].playlist = job[w].playlist
    BY GotoFacts DEF IInv
  <1>2. Video(w)' = Video(w)
    BY <1>1 DEF Video
  <1> QED
    BY <1>1, <1>2 DEF Acts, At, Linked, LinksOf

\* Where the steps that leave or enter an entry lead.
LEMMA BetweenEntries ==
    ASSUME IInv, NEW w \in Workers,
           \/ FindPlaylist(w) \/ CreatePlaylist(w) \/ Retarget(w)
           \/ RecordOk(w) \/ RecordFailure(w) \/ Finish(w) \/ Stop(w)
           \/ \E s \in Sources, listing \in Listings : Start(w, s, listing)
    PROVE  job'[w].at \in {"idle", "find", "create", "retarget", "lookup", "finish"}
  <1>0. job[w] \in JobRecords /\ job \in [Workers -> JobRecords]
    BY DEF IInv, TypeOK, JobRecords
  <1>1. ASSUME NEW p, Goto(w, p)
        PROVE  job'[w].at = p
    BY <1>0, <1>1 DEF Goto, JobRecords
  <1>2. ASSUME NEW f, Advance(w, f)
        PROVE  job'[w].at \in {"lookup", "finish"}
    <2> DEFINE last == job[w].entry = Len(job[w].listing)
               c == [job[w] EXCEPT !.at = IF last THEN "finish" ELSE "lookup",
                                   !.entry = IF last THEN @ ELSE @ + 1, !.failed = f]
    <2>1. job' = [job EXCEPT ![w] = c]
      BY <1>2 DEF Advance
    <2>2. c.at \in {"lookup", "finish"}
      BY <1>0 DEF JobRecords
    <2> HIDE DEF c
    <2> QED
      BY <1>0, <2>1, <2>2
  <1>3. CASE FindPlaylist(w)
    <2>1. CASE Named(job[w].name) = {}
      BY <1>1, <1>3, <2>1 DEF FindPlaylist
    <2>2. CASE Named(job[w].name) # {}
      <3>1. PICK p : job' = [job EXCEPT ![w].at = "retarget", ![w].playlist = p]
        BY <1>3, <2>2 DEF FindPlaylist
      <3> QED
        BY <1>0, <3>1 DEF JobRecords
    <2> QED
      BY <2>1, <2>2
  <1>4. CASE CreatePlaylist(w)
    BY <1>0, <1>4 DEF CreatePlaylist, JobRecords
  <1>5. CASE Retarget(w)
    BY <1>1, <1>5 DEF Retarget
  <1>6. CASE RecordOk(w) \/ RecordFailure(w)
    BY <1>2, <1>6 DEF RecordOk, RecordFailure
  <1>7. CASE Finish(w) \/ Stop(w)
    BY <1>0, <1>7, IdleFacts DEF Finish, Stop
  <1>8. CASE \E s \in Sources, listing \in Listings : Start(w, s, listing)
    <2>1. PICK s \in Sources, listing \in Listings : Start(w, s, listing)
      BY <1>8
    <2>2. [Idle EXCEPT !.at = "find", !.src = s, !.listing = listing,
                       !.name = target[s].name, !.known = target[s].id].at = "find"
      BY DEF Idle
    <2> QED
      BY <1>0, <2>1, <2>2 DEF Start
  <1> QED
    BY <1>3, <1>4, <1>5, <1>6, <1>7, <1>8

\* A lone worker's row is never rejected.
LEMMA LoneInsertWorks ==
    ASSUME IInv, NEW w \in Workers, Acts(w), InsertLink(w)
    PROVE  /\ Goto(w, "record")
           /\ links' = links \union {Row(job[w].playlist, Video(w), job[w].position)}
  <1> DEFINE row == Row(job[w].playlist, Video(w), job[w].position)
  <1>1. job[w].at = "link"
    BY DEF InsertLink, At
  <1>2. \A l \in LinksOf(job[w].playlist) : l.position \in Nat
    BY DEF IInv, TypeOK, LinksOf
  <1>3. ASSUME NEW l \in LinksOf(job[w].playlist)
        PROVE  l.video # Video(w) /\ l.position # job[w].position
    BY <1>1, <1>2 DEF Acts, At, Linked
  <1>4. row.playlist = job[w].playlist /\ row.video = Video(w) /\ row.position = job[w].position
    BY DEF Row
  <1>5. ~ \E l \in LinksOf(row.playlist) : l.video = row.video \/ l.position = row.position
    BY <1>3, <1>4
  <1> QED
    BY <1>5 DEF InsertLink

LEMMA StepActs ==
    ASSUME IInv, "dbError" \notin Faults, NEW w \in Workers, Acts(w),
           Step(w) \/ DownloadFails(w)
    PROVE  Acts(w)'
  <1>1. CASE \/ FindPlaylist(w) \/ CreatePlaylist(w) \/ Retarget(w)
             \/ RecordOk(w) \/ RecordFailure(w) \/ Finish(w)
    BY <1>1, BetweenEntries, QuietActs
  <1>2. CASE Lookup(w)
    BY <1>2, GotoActs DEF Lookup, Phases
  <1>3. CASE Download(w)
    <2> DEFINE c == [job[w] EXCEPT !.at = "commit", !.key = Cardinality(files) + 1]
    <2>1. job[w] \in JobRecords /\ job \in [Workers -> JobRecords]
      BY DEF IInv, TypeOK, JobRecords
    <2>2. c.at = "commit" /\ c.listing = job[w].listing /\ c.entry = job[w].entry
      BY <2>1 DEF JobRecords
    <2>3. job'[w] = c
      BY <1>3, <2>1 DEF Download
    <2> HIDE DEF c
    <2>4. Video(w)' = Video(w) /\ audio[Video(w)] = 0 /\ audio' = audio
      BY <1>3, <2>2, <2>3 DEF Download, Video, Acts, At
    <2> QED
      BY <2>2, <2>3, <2>4 DEF Acts, At
  <1>4. CASE DownloadFails(w)
    BY <1>4, GotoActs DEF DownloadFails, Acts, At, Phases
  <1>5. CASE CommitTrack(w)
    <2>1. Goto(w, "linked")
      BY <1>5 DEF CommitTrack, Acts, At
    <2> QED
      BY <2>1, GotoFacts, QuietActs DEF IInv, Phases
  <1>6. CASE CheckLinked(w)
    BY <1>6, GotoActs DEF CheckLinked, DbFails, Phases
  <1>7. CASE ReadPosition(w)
    <2>1. /\ \A l \in LinksOf(job[w].playlist) : l.position < job'[w].position
          /\ job'[w].at = "link" /\ job'[w].playlist = job[w].playlist
          /\ Video(w)' = Video(w) /\ links' = links
      BY <1>7, ReadPositionIsFresh DEF Video
    <2>2. ~Linked(job[w].playlist, Video(w))
      BY <1>7 DEF ReadPosition, Acts, At
    <2> QED
      BY <2>1, <2>2 DEF Acts, At, Linked, LinksOf
  <1>8. CASE InsertLink(w)
    BY <1>8, LoneInsertWorks, GotoFacts, QuietActs DEF IInv, Phases
  <1> QED
    BY <1>1, <1>2, <1>3, <1>4, <1>5, <1>6, <1>7, <1>8 DEF Step

\* Of a single worker nobody else moves; what others do not do keeps what it
\* is about to do.
LEMMA LoneNextActs ==
    ASSUME Alone, "dbError" \notin Faults, IInv, AllAct, [Next]_vars
    PROVE  AllAct'
  <1> SUFFICES ASSUME NEW w \in Workers PROVE Acts(w)'
    BY DEF AllAct
  <1>1. Acts(w)
    BY DEF AllAct
  <1>2. CASE UNCHANGED <<job, audio, links>>
    BY <1>1, <1>2 DEF Acts, At, Video, Linked, LinksOf
  <1>3. CASE Step(w) \/ DownloadFails(w)
    BY <1>1, <1>3, StepActs
  <1>4. CASE Stop(w) \/ \E s \in Sources, listing \in Listings : Start(w, s, listing)
    BY <1>4, BetweenEntries, QuietActs
  <1>5. ~EntryError(w)
    BY DEF EntryError, DbFails
  <1>6. \A v \in Workers : v = w
    BY DEF Alone
  <1> QED
    BY <1>2, <1>3, <1>4, <1>5, <1>6 DEF Next, Rename, vars

LEMMA LoneRunsAct ==
    ASSUME Alone, "dbError" \notin Faults
    PROVE  Spec => []AllAct
  <1>1. Init => AllAct
    BY IdleFacts DEF Init, AllAct, Acts, At
  <1>2. IInv /\ AllAct /\ [Next]_vars => AllAct'
    BY LoneNextActs
  <1> QED
    BY <1>1, <1>2, IInvHolds, PTL DEF Spec

-----------------------------------------------------------------------------
(* Running a source again is the repair.                                   *)

NoneFails == RerunHeals /\ \A w \in Workers : ~At(w, "failed")

\* Only a failed download or a rejected row fails an entry.
LEMMA StepFailsNothing ==
    ASSUME IInv, NEW w \in Workers, Acts(w), Step(w), job[w].failed = {}, ~At(w, "failed")
    PROVE  job'[w].failed = {} /\ job'[w].at # "failed"
  <1>0. job[w] \in JobRecords /\ job \in [Workers -> JobRecords]
    BY DEF IInv, TypeOK, JobRecords
  <1>1. ASSUME NEW p \in Phases \ {"failed"}, Goto(w, p)
        PROVE  job'[w].failed = {} /\ job'[w].at # "failed"
    BY <1>1, GotoFacts DEF IInv
  <1>2. CASE FindPlaylist(w)
    <2>1. CASE Named(job[w].name) = {}
      BY <1>1, <1>2, <2>1 DEF FindPlaylist, Phases
    <2>2. CASE Named(job[w].name) # {}
      <3>1. PICK p : job' = [job EXCEPT ![w].at = "retarget", ![w].playlist = p]
        BY <1>2, <2>2 DEF FindPlaylist
      <3> QED
        BY <1>0, <1>1, <3>1 DEF JobRecords
    <2> QED
      BY <2>1, <2>2
  <1>3. CASE CreatePlaylist(w)
    BY <1>0, <1>3 DEF CreatePlaylist, JobRecords
  <1>4. CASE Retarget(w) \/ Lookup(w) \/ CheckLinked(w)
    BY <1>1, <1>4 DEF Retarget, Lookup, CheckLinked, Phases
  <1>5. CASE Download(w)
    BY <1>0, <1>5 DEF Download, JobRecords
  <1>6. CASE CommitTrack(w)
    BY <1>1, <1>6 DEF CommitTrack, Acts, At, Phases
  <1>7. CASE ReadPosition(w)
    <2>1. PICK n : job' = [job EXCEPT ![w].at = "link", ![w].position = n]
      BY <1>7 DEF ReadPosition
    <2> QED
      BY <1>0, <1>1, <2>1 DEF JobRecords
  <1>8. CASE InsertLink(w)
    BY <1>1, <1>8, LoneInsertWorks DEF Phases
  <1>9. CASE RecordOk(w)
    <2>1. Advance(w, {})
      BY <1>9 DEF RecordOk
    <2>2. job'[w].failed = {}
      BY <1>0, <2>1 DEF Advance, JobRecords
    <2> QED
      BY <1>9, <2>2, BetweenEntries
  <1>10. ~RecordFailure(w)
    BY DEF RecordFailure
  <1>11. CASE Finish(w)
    BY <1>0, <1>11, IdleFacts DEF Finish
  <1> QED
    BY <1>2, <1>3, <1>4, <1>5, <1>6, <1>7, <1>8, <1>9, <1>10, <1>11 DEF Step

LEMMA NoneFailsStays ==
    ASSUME Alone, Faults \subseteq {"stop"}, IInv, AllAct, NoneFails, [Next]_vars
    PROVE  NoneFails'
  <1> SUFFICES ASSUME NEW w \in Workers
               PROVE  job'[w].failed = {} /\ job'[w].at # "failed"
    BY DEF NoneFails, RerunHeals, At
  <1>1. job[w].failed = {} /\ ~At(w, "failed") /\ Acts(w)
    BY DEF NoneFails, RerunHeals, AllAct
  <1>2. CASE UNCHANGED job
    BY <1>1, <1>2 DEF At
  <1>3. CASE Step(w)
    BY <1>1, <1>3, StepFailsNothing
  <1>4. CASE Stop(w)
    BY <1>4, IdleFacts DEF Stop, IInv, TypeOK
  <1>5. CASE \E s \in Sources, listing \in Listings : Start(w, s, listing)
    <2>1. PICK s \in Sources, listing \in Listings : Start(w, s, listing)
      BY <1>5
    <2>2. [Idle EXCEPT !.at = "find", !.src = s, !.listing = listing,
                       !.name = target[s].name, !.known = target[s].id].failed = {}
      BY DEF Idle
    <2>3. job'[w].failed = {}
      BY <2>1, <2>2 DEF Start, IInv, TypeOK
    <2> QED
      BY <1>5, <2>3, BetweenEntries
  <1>6. ~EntryError(w) /\ ~DownloadFails(w)
    BY DEF EntryError, DownloadFails, DbFails
  <1>7. \A v \in Workers : v = w
    BY DEF Alone
  <1> QED
    BY <1>2, <1>3, <1>4, <1>5, <1>6, <1>7 DEF Next, Rename, vars

\* A run that is alone and whose statements and downloads work fails on no
\* entry, wherever earlier runs were stopped and whatever they left behind.
THEOREM RerunsHeal ==
    ASSUME Alone, Faults \subseteq {"stop"}
    PROVE  Spec => []RerunHeals
  <1>1. Init => NoneFails
    BY IdleFacts DEF Init, NoneFails, RerunHeals, At
  <1>2. IInv /\ AllAct /\ NoneFails /\ [Next]_vars => NoneFails'
    BY NoneFailsStays
  <1>3. NoneFails => RerunHeals
    BY DEF NoneFails
  <1>4. Spec => []AllAct
    BY LoneRunsAct
  <1> QED
    BY <1>1, <1>2, <1>3, <1>4, IInvHolds, PTL DEF Spec

\* A run that reaches its end leaves every entry of its listing a track and on
\* its playlist.
RunRepairs ==
    \A w \in Workers :
        At(w, "finish") =>
            \A i \in DOMAIN job[w].listing :
                /\ audio[job[w].listing[i]] # 0
                /\ Linked(job[w].playlist, job[w].listing[i])

\* Running the source again, alone and with working statements and downloads, is
\* a complete repair of whatever stopped runs left half done.
THEOREM RerunsRepair ==
    ASSUME Alone, Faults \subseteq {"stop"}
    PROVE  Spec => []RunRepairs
  <1>1. RerunHeals /\ OkRunIsComplete => RunRepairs
    BY DEF RerunHeals, OkRunIsComplete, RunRepairs
  <1>2. Spec => []RerunHeals
    BY RerunsHeal
  <1> QED
    BY <1>1, <1>2, OkMeansComplete, PTL

-----------------------------------------------------------------------------
(* When imported tracks are linked.                                        *)

OnShelf(v) == \E l \in links : l.video = v

\* The worker has the track and is on its way to link it.
Linking(w, v) == job[w].at \in {"linked", "position", "link"} /\ Video(w) = v

LinkPending ==
    \A v \in Videos : audio[v] # 0 /\ ~OnShelf(v) => \E w \in Workers : Linking(w, v)

\* A worker that is linking a video goes on until it is on a playlist.
LEMMA LinkingGoesOn ==
    ASSUME IInv, "dbError" \notin Faults, NEW w \in Workers, Acts(w), NEW v,
           Linking(w, v), Step(w) \/ DownloadFails(w), ~OnShelf(v)'
    PROVE  Linking(w, v)'
  <1>1. ASSUME NEW p \in {"linked", "position", "link"}, Goto(w, p)
        PROVE  Linking(w, v)'
    <2>1. /\ job'[w].at = p /\ job'[w].listing = job[w].listing /\ job'[w].entry = job[w].entry
      BY <1>1, GotoFacts DEF IInv, Phases
    <2> QED
      BY <2>1 DEF Linking, Video
  <1>2. CASE CheckLinked(w)
    <2>1. CASE Linked(job[w].playlist, Video(w))
      BY <1>2, <2>1 DEF CheckLinked, Linked, LinksOf, OnShelf, Linking
    <2>2. CASE ~Linked(job[w].playlist, Video(w))
      BY <1>1, <1>2, <2>2 DEF CheckLinked
    <2> QED
      BY <2>1, <2>2
  <1>3. CASE ReadPosition(w)
    BY <1>3, ReadPositionIsFresh DEF Linking, Video
  <1>4. CASE InsertLink(w)
    <2>1. Row(job[w].playlist, Video(w), job[w].position) \in links'
      BY <1>4, LoneInsertWorks
    <2>2. Row(job[w].playlist, Video(w), job[w].position).video = v
      BY DEF Row, Linking
    <2> QED
      BY <2>1, <2>2 DEF OnShelf
  <1> QED
    BY <1>2, <1>3, <1>4
       DEF Step, Linking, At, FindPlaylist, CreatePlaylist, Retarget, Lookup, Download,
           DownloadFails, CommitTrack, RecordOk, RecordFailure, Finish

\* A video becomes a track by the step of a worker that then links it.
LEMMA CommitStartsLinking ==
    ASSUME IInv, NEW w \in Workers, Step(w) \/ DownloadFails(w),
           NEW v \in Videos, audio[v] = 0, audio'[v] # 0
    PROVE  Linking(w, v)'
  <1>1. CommitTrack(w)
    BY DEF Step, FindPlaylist, CreatePlaylist, Retarget, Lookup, Download, DownloadFails,
           CheckLinked, ReadPosition, InsertLink, RecordOk, RecordFailure, Finish
  <1>2. audio' = [audio EXCEPT ![Video(w)] = job[w].key] /\ Goto(w, "linked")
    BY <1>1 DEF CommitTrack
  <1>3. v = Video(w)
    BY <1>2 DEF IInv, TypeOK
  <1>4. /\ job'[w].at = "linked" /\ job'[w].listing = job[w].listing
        /\ job'[w].entry = job[w].entry
    BY <1>2, GotoFacts DEF IInv, Phases
  <1> QED
    BY <1>3, <1>4 DEF Linking, Video

LEMMA LinkPendingStays ==
    ASSUME Alone, Faults \subseteq {"download"}, IInv, AllAct, LinkPending, [Next]_vars
    PROVE  LinkPending'
  <1> SUFFICES ASSUME NEW v \in Videos, audio'[v] # 0, ~OnShelf(v)'
               PROVE  \E w \in Workers : Linking(w, v)'
    BY DEF LinkPending
  <1>1. ~OnShelf(v)
    BY NextGrows DEF Grows, OnShelf
  <1>2. CASE UNCHANGED <<job, audio>>
    BY <1>1, <1>2 DEF LinkPending, Linking, Video
  <1>3. ASSUME NEW w \in Workers, Step(w) \/ DownloadFails(w)
        PROVE  Linking(w, v)'
    <2>1. CASE audio[v] = 0
      BY <1>3, <2>1, CommitStartsLinking
    <2>2. CASE audio[v] # 0
      <3>1. Linking(w, v)
        BY <1>1, <2>2 DEF LinkPending, Alone
      <3> QED
        BY <1>3, <3>1, LinkingGoesOn DEF AllAct
    <2> QED
      BY <2>1, <2>2
  <1>4. ASSUME NEW w \in Workers, NEW s, NEW listing, Start(w, s, listing)
        PROVE  FALSE
    <2>1. audio[v] # 0 /\ ~Linking(w, v)
      BY <1>4 DEF Start, At, Linking
    <2> QED
      BY <1>1, <2>1 DEF LinkPending, Alone
  <1>5. \A w \in Workers : ~EntryError(w) /\ ~Stop(w)
    BY DEF EntryError, Stop, DbFails
  <1> QED
    BY <1>2, <1>3, <1>4, <1>5 DEF Next, Rename, vars

\* When one run at a time is under way, is not stopped and its statements do
\* not fail, the README's claim holds: between runs every imported track is on
\* a playlist, however many downloads failed.
THEOREM LoneImportsAreLinked ==
    ASSUME Alone, Faults \subseteq {"download"}
    PROVE  Spec => []ImportedIsLinked
  <1>1. Init => LinkPending
    BY DEF Init, LinkPending
  <1>2. IInv /\ AllAct /\ LinkPending /\ [Next]_vars => LinkPending'
    BY LinkPendingStays
  <1>3. LinkPending => ImportedIsLinked
    BY DEF LinkPending, ImportedIsLinked, OnShelf, Linking, At
  <1>4. Spec => []AllAct
    BY LoneRunsAct
  <1> QED
    BY <1>1, <1>2, <1>3, <1>4, IInvHolds, PTL DEF Spec
=============================================================================
