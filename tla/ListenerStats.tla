---------------------------- MODULE ListenerStats ----------------------------
(***************************************************************************)
(* radio_station_listener_stats: the stats endpoint of                     *)
(* axum-app/src/handlers/radio.rs looks the station's mount up, asks       *)
(* Icecast for its listeners (infra/src/icecast.rs), stores the number and *)
(* answers it; when Icecast does not answer, it answers the stored one.    *)
(***************************************************************************)
EXTENDS Audience, Integers

CONSTANTS
    Sources,        \* Icecast's sources, numbered as its status page lists them
    Mounts,         \* mount points
    MountOf,        \* mount_point of each station, which the program never changes
    DefaultMount,   \* /radio/{id}.mp3, which may be the mount of another station
    Covers,         \* <<source, mount>>: the source's listenurl or name contains
                    \* the mount
    Counts          \* numbers of listeners of a source

ASSUME SourcesAssumption == Sources \subseteq Nat
ASSUME MountsAssumption  == MountOf \in [Stations -> Mounts] /\ DefaultMount \in [Stations -> Mounts]
ASSUME CountsAssumption  == Counts \subseteq Nat

VARIABLES
    icecast,        \* external: listeners of each source, or Off
    reachable,      \* external: Icecast answers
    stored,         \* listener_count of each station, or Absent
    poll,           \* each viewer's stats request; it is over before the next
    seen,           \* history: what Icecast could have said of each mount
    mistaken        \* history: stations whose mount some request failed to look up

statsVars == <<icecast, reachable, stored, poll, seen, mistaken>>

Off     == -1
Absent  == -1
NoMount == ""
Quiet   == [at |-> "idle", mount |-> NoMount, value |-> 0]

On(status) == {m \in Sources : status[m] # Off}

\* What the program reads of a mount in Icecast's status page: the listeners of
\* the first source that matches, 0 when none does.
Report(mount, status) ==
    LET matching == {m \in On(status) : <<m, mount>> \in Covers}
    IN  IF matching = {} THEN {0}
        ELSE {status[m] : m \in {n \in matching : \A o \in matching : n <= o}}

\* Slip: nothing stands for a missing row.
OrMissing(count) == count

\* unwrap_or(0)
OrZero(count) == IF count = Absent THEN 0 ELSE count

-----------------------------------------------------------------------------

StatsInit ==
    /\ icecast \in [Sources -> Counts \union {Off}]
    /\ reachable = TRUE
    /\ stored = [s \in Stations |-> Absent]
    /\ poll = [v \in Viewers |-> Quiet]
    /\ seen = [mount \in Mounts |-> Report(mount, icecast)]
    /\ mistaken = {}

\* A source comes, goes, or has another number of listeners.
SourceChanges(m, n) ==
    /\ icecast' = [icecast EXCEPT ![m] = n]
    /\ seen' = [mount \in Mounts |-> seen[mount] \union Report(mount, icecast')]
    /\ UNCHANGED <<reachable, stored, poll, mistaken>>

Outage ==
    /\ reachable' = ~reachable
    /\ UNCHANGED <<icecast, stored, poll, seen, mistaken>>

\* The mount is of use until Icecast has answered.
PollGoto(v, phase, count) ==
    poll' = [poll EXCEPT ![v] = [at |-> phase, mount |-> NoMount, value |-> count]]

AskFor(v, mount) == poll' = [poll EXCEPT ![v] = [at |-> "ask", mount |-> mount, value |-> 0]]

\* setInterval(refreshStats, 30000) sends GET stats.
Refresh(v) ==
    /\ poll[v].at = "idle"
    /\ PollGoto(v, "mount", 0)
    /\ UNCHANGED <<icecast, reachable, stored, seen, mistaken>>

\* PRAGMA table_info and SELECT mount_point read what never changes: one step.
LookUpMount(v) ==
    /\ poll[v].at = "mount"
    /\ AskFor(v, MountOf[Watches[v]])
    /\ UNCHANGED <<icecast, reachable, stored, seen, mistaken>>

\* Either of the two fails, which unwrap_or_default and ok() hide: the request
\* goes on with the default mount.
MountLookupFails(v) ==
    /\ poll[v].at = "mount"
    /\ AskFor(v, DefaultMount[Watches[v]])
    /\ mistaken' = mistaken \union {Watches[v]}
    /\ UNCHANGED <<icecast, reachable, stored, seen>>

\* Slip: no answer is taken for no listeners.
AskOrZero(v) ==
    /\ poll[v].at = "ask"
    /\ IF reachable THEN \E n \in Report(poll[v].mount, icecast) : PollGoto(v, "write", n)
                    ELSE PollGoto(v, "write", 0)
    /\ UNCHANGED <<icecast, reachable, stored, seen, mistaken>>

\* GET status-json.xsl: the number is that of the moment Icecast answers.
Ask(v) ==
    /\ poll[v].at = "ask"
    /\ IF reachable THEN \E n \in Report(poll[v].mount, icecast) : PollGoto(v, "write", n)
                    ELSE PollGoto(v, "read", 0)
    /\ UNCHANGED <<icecast, reachable, stored, seen, mistaken>>

\* Slip: a row that is there is not written again.
StoreFirst(v) ==
    /\ poll[v].at = "write"
    /\ stored' = [stored EXCEPT ![Watches[v]] = IF @ = Absent THEN poll[v].value ELSE @]
    /\ PollGoto(v, "answer", OrZero(stored'[Watches[v]]))
    /\ UNCHANGED <<icecast, reachable, seen, mistaken>>

\* The upsert, however much later.
Store(v) ==
    /\ poll[v].at = "write"
    /\ stored' = [stored EXCEPT ![Watches[v]] = poll[v].value]
    /\ PollGoto(v, "answer", poll[v].value)
    /\ UNCHANGED <<icecast, reachable, seen, mistaken>>

\* Slip: an outage is answered 0, the stored number is not read.
ReadNothing(v) ==
    /\ poll[v].at = "read"
    /\ PollGoto(v, "answer", 0)
    /\ UNCHANGED <<icecast, reachable, stored, seen, mistaken>>

\* read_listener_stats
ReadStored(v) ==
    /\ poll[v].at = "read"
    /\ PollGoto(v, "answer", OrZero(stored[Watches[v]]))
    /\ UNCHANGED <<icecast, reachable, stored, seen, mistaken>>

\* The upsert fails and is ignored, the SELECT fails and unwrap_or makes it 0.
CountStatementFails(v) ==
    /\ poll[v].at \in {"write", "read"}
    /\ PollGoto(v, "answer", poll[v].value)
    /\ UNCHANGED <<icecast, reachable, stored, seen, mistaken>>

StatsStatementFails(v) == MountLookupFails(v) \/ CountStatementFails(v)

PollEnds(v) ==
    /\ poll[v].at # "idle"
    /\ poll' = [poll EXCEPT ![v] = Quiet]
    /\ UNCHANGED <<icecast, reachable, stored, seen, mistaken>>

=============================================================================
