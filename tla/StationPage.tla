----------------------------- MODULE StationPage -----------------------------
(***************************************************************************)
(* The page of a station (axum-app/src/handlers/web.rs): the stored number *)
(* of listeners, then the recent tracks, each by a statement of its own,   *)
(* while notify changes the tracks and, once the page is open, its script  *)
(* asks for the listeners again and again.                                 *)
(***************************************************************************)
EXTENDS RecentTracks, ListenerStats

CONSTANTS
    Show,           \* tracks on the page, 12 in the program
    Faults,         \* "dbError" a statement fails, "stop" the program restarts,
                    \* "leave" a request is given up or a page closed
    MaxEvents       \* BOUND: pages opened, events of the environment, faults

ASSUME ShowAssumption      == Show \in Nat /\ Show <= Keep
ASSUME FaultsAssumption    == Faults \subseteq {"dbError", "stop", "leave"}
ASSUME MaxEventsAssumption == MaxEvents \in Nat

VARIABLES
    page,           \* each viewer's browser
    events          \* counted against MaxEvents

vars == <<recentVars, statsVars, page, events>>

\* moment is history: how many rows had ever been inserted when the recent tracks
\* were read, 0 when they were not.
Closed == [at |-> "closed", listeners |-> 0, recent |-> {}, moment |-> 0]

-----------------------------------------------------------------------------

Init == RecentInit /\ StatsInit /\ page = [v \in Viewers |-> Closed] /\ events = 0

Event == events < MaxEvents /\ events' = events + 1

\* GET /radio/:id
OpenPage(v) ==
    /\ Event
    /\ page[v] = Closed
    /\ page' = [page EXCEPT ![v].at = "detail"]
    /\ UNCHANGED <<recentVars, statsVars>>

LoadStationDetail(v) ==
    /\ page[v].at = "detail"
    /\ page' = [page EXCEPT ![v].at = "recent", ![v].listeners = OrZero(stored[Watches[v]])]
    /\ UNCHANGED <<recentVars, statsVars, events>>

LoadRecentRows(v) ==
    /\ page[v].at = "recent"
    /\ \E top \in Newest(RowsOf(Watches[v]), Show) :
          page' = [page EXCEPT ![v].at = "open", ![v].recent = top,
                               ![v].moment = Len(appended)]
    /\ UNCHANGED <<recentVars, statsVars, events>>

\* The page's script: the interval has passed, and the answer arrived.
RefreshStats(v) ==
    /\ page[v].at = "open"
    /\ Refresh(v)
    /\ UNCHANGED <<recentVars, page, events>>

ShowListeners(v) ==
    /\ poll[v].at = "answer"
    /\ page' = [page EXCEPT ![v].listeners = poll[v].value]
    /\ poll' = [poll EXCEPT ![v] = Quiet]
    /\ UNCHANGED <<recentVars, icecast, reachable, stored, seen, mistaken, events>>

-----------------------------------------------------------------------------

Environment ==
    /\ Event
    /\ \/ /\ \/ \E m \in Sources : \E n \in (Counts \union {Off}) \ {icecast[m]} : SourceChanges(m, n)
             \/ Outage
          /\ UNCHANGED <<recentVars, page>>
       \/ /\ \E n \in Notifiers, s \in Stations : TrackStarted(n, s)
          /\ UNCHANGED <<statsVars, page>>

\* A failing SELECT leaves its part of the page empty.
StatementFails ==
    /\ "dbError" \in Faults /\ Event
    /\ \/ \E n \in Notifiers : NotifyEnds(n) /\ UNCHANGED <<statsVars, page>>
       \/ \E v \in Viewers : StatsStatementFails(v) /\ UNCHANGED <<recentVars, page>>
       \/ \E v \in Viewers :
             /\ page[v].at \in {"detail", "recent"}
             /\ page' = [page EXCEPT ![v].at = IF @ = "detail" THEN "recent" ELSE "open"]
             /\ UNCHANGED <<recentVars, statsVars>>

Leave ==
    /\ "leave" \in Faults /\ Event
    /\ \/ \E n \in Notifiers : NotifyEnds(n) /\ UNCHANGED <<statsVars, page>>
       \/ \E v \in Viewers : PollEnds(v) /\ UNCHANGED <<recentVars, page>>
       \/ \E v \in Viewers :
             /\ page[v] # Closed
             /\ page' = [page EXCEPT ![v] = Closed]
             /\ poll' = [poll EXCEPT ![v] = Quiet]
             /\ UNCHANGED <<recentVars, icecast, reachable, stored, seen, mistaken>>

\* Requests end, open pages stay open.
Stop ==
    /\ "stop" \in Faults /\ Event
    /\ notify' = [n \in Notifiers |-> Idle]
    /\ poll' = [v \in Viewers |-> Quiet]
    /\ page' = [v \in Viewers |-> IF page[v].at = "open" THEN page[v] ELSE Closed]
    /\ UNCHANGED <<appended, kept, icecast, reachable, stored, seen, mistaken>>

NotifyStep(n) ==
    /\ AppendRecentTrack(n) \/ Prune(n)
    /\ UNCHANGED <<statsVars, page, events>>

StatsStep(v) ==
    /\ LookUpMount(v) \/ Ask(v) \/ Store(v) \/ ReadStored(v)
    /\ UNCHANGED <<recentVars, page, events>>

PageStep(v) == LoadStationDetail(v) \/ LoadRecentRows(v) \/ RefreshStats(v) \/ ShowListeners(v)

Next ==
    \/ Environment \/ StatementFails \/ Leave \/ Stop
    \/ \E n \in Notifiers : NotifyStep(n)
    \/ \E v \in Viewers : OpenPage(v) \/ StatsStep(v) \/ PageStep(v)

Spec == Init /\ [][Next]_vars

\* tokio goes on with every handler, Icecast answers or does not, and the
\* script of an open page asks again every 30 seconds.
FairSpec == Spec /\ \A v \in Viewers : WF_vars(StatsStep(v)) /\ WF_vars(PageStep(v))

-----------------------------------------------------------------------------
(* Properties.                                                             *)

\* Tables, requests and pages hold values the program gives them.
TypeOK ==
    /\ appended \in Seq([station : Stations, at : Times])
    /\ kept \subseteq DOMAIN appended
    /\ notify \in [Notifiers -> {Idle} \union [at : {"append", "prune"}, station : Stations]]
    /\ icecast \in [Sources -> Counts \union {Off}] /\ reachable \in BOOLEAN
    /\ stored \in [Stations -> Nat \union {Absent}]
    /\ poll \in [Viewers -> [at : {"idle", "mount", "ask", "write", "read", "answer"},
                             mount : Mounts \union {NoMount}, value : Nat]]
    /\ seen \in [Mounts -> SUBSET Nat] /\ mistaken \subseteq Stations
    /\ page \in [Viewers -> [at : {"closed", "detail", "recent", "open"}, listeners : Nat,
                             recent : SUBSET Nat, moment : Nat]]

\* Pruning cannot be seen: the page shows the newest of all tracks the station
\* ever started, although rows were deleted between any two statements, by
\* overlapping notifies and for other stations.
PageShowsNewest ==
    \A v \in Viewers :
        page[v].recent \in Newest(AllOf(Watches[v], page[v].moment), Show)

\* What Icecast says of the station a viewer watches.
Now(v) == Report(MountOf[Watches[v]], icecast)

\* A stored number is what Icecast's status page, matched as the program matches
\* it, said of that station's mount at some time: no outage, failing upsert or
\* overlap of requests makes up a number.  Only after a mount could not be looked
\* up, which no one notices, may it be what the page said of the default mount:
\* 0, or the number of the station that has this mount.
CountWasReported ==
    \A s \in Stations :
        stored[s] # Absent => \/ stored[s] \in seen[MountOf[s]]
                              \/ s \in mistaken /\ stored[s] \in seen[DefaultMount[s]]

\* However answers overtook each other, whichever mount was asked for and whatever
\* failed: once the sources settle and statements work, an open page ends up with
\* the number of its station's own mount, or Icecast is away.
ListenersSettle ==
    <>[](\A v \in Viewers :
            page[v].at = "open" /\ reachable =>
                page[v].listeners \in Now(v) /\ stored[Watches[v]] \in Now(v))

\* What is stored, on its way and shown is what Icecast says now, and what is
\* asked for is the station's own mount.
Settled ==
    \A v \in Viewers :
        /\ stored[Watches[v]] \in Now(v)
        /\ poll[v].at = "ask" => poll[v].mount = MountOf[Watches[v]]
        /\ poll[v].at \in {"write", "answer"} => poll[v].value \in Now(v)
        /\ page[v].at \in {"recent", "open"} => page[v].listeners \in Now(v)

\* Settled is stable: no outage, restart, page that opens or closes, and no order
\* of overlapping requests brings back an older number or shows a 0 that Icecast
\* did not say.  Only a source that changes or a statement that fails does: also
\* one that fails unnoticed and sends a request to another mount.
SettledStays == [][Settled /\ UNCHANGED icecast /\ ~StatementFails => Settled']_vars

=============================================================================
