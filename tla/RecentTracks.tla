---------------------------- MODULE RecentTracks ----------------------------
(***************************************************************************)
(* radio_station_recent_tracks: notify of axum-app/src/handlers/radio.rs   *)
(* appends a row for each started track and prunes the station's rows.     *)
(*                                                                         *)
(* A row is the place of its INSERT in `appended'.  played_at is the wall  *)
(* clock in seconds: several rows may carry the same, and a clock that is  *)
(* set back gives a later row a smaller one.                               *)
(***************************************************************************)
EXTENDS Audience, Naturals, Sequences, FiniteSets

CONSTANTS
    Times,          \* what CURRENT_TIMESTAMP may be
    Keep,           \* rows pruning leaves, 25 in the program
    Notifiers       \* notify requests served at the same time

ASSUME TimesAssumption == Times \subseteq Nat
ASSUME KeepAssumption  == Keep \in Nat

VARIABLES
    appended,       \* history: every row ever inserted
    kept,           \* the rows in the table
    notify          \* each notifier's request

recentVars == <<appended, kept, notify>>

Idle == [at |-> "idle", station |-> 0]

AllOf(s, n)  == {i \in 1..n : appended[i].station = s}
RowsOf(s)    == {i \in kept : appended[i].station = s}

\* ORDER BY datetime(played_at) DESC LIMIT n: ties in any order.
Newest(rows, n) ==
    {top \in SUBSET rows :
        /\ Cardinality(top) = IF Cardinality(rows) < n THEN Cardinality(rows) ELSE n
        /\ \A i \in top, j \in rows \ top : appended[j].at <= appended[i].at}

RecentInit ==
    /\ appended = << >> /\ kept = {}
    /\ notify = [n \in Notifiers |-> Idle]

\* POST notify with event "track_started".
TrackStarted(n, s) ==
    /\ notify[n] = Idle
    /\ notify' = [notify EXCEPT ![n] = [at |-> "append", station |-> s]]
    /\ UNCHANGED <<appended, kept>>

AppendRecentTrack(n) ==
    /\ notify[n].at = "append"
    /\ \E t \in Times : appended' = Append(appended, [station |-> notify[n].station, at |-> t])
    /\ kept' = kept \union {Len(appended) + 1}
    /\ notify' = [notify EXCEPT ![n].at = "prune"]

\* Slip: the subquery is not restricted to the station.
PruneAcross(n) ==
    /\ notify[n].at = "prune"
    /\ \E top \in Newest(kept, Keep) :
          kept' = {i \in kept : appended[i].station = notify[n].station => i \in top}
    /\ notify' = [notify EXCEPT ![n] = Idle]
    /\ UNCHANGED appended

\* DELETE every row of the station but the newest.
Prune(n) ==
    /\ notify[n].at = "prune"
    /\ \E top \in Newest(RowsOf(notify[n].station), Keep) :
          kept' = {i \in kept : appended[i].station = notify[n].station => i \in top}
    /\ notify' = [notify EXCEPT ![n] = Idle]
    /\ UNCHANGED appended

\* A statement fails, or the client goes: no row, or a row and no pruning.
NotifyEnds(n) ==
    /\ notify[n] # Idle
    /\ notify' = [notify EXCEPT ![n] = Idle]
    /\ UNCHANGED <<appended, kept>>

=============================================================================
