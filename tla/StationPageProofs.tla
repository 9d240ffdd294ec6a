-------------------------- MODULE StationPageProofs --------------------------
(***************************************************************************)
(* Theorems about StationPage, for all stations, clocks, sources, viewers, *)
(* faults, and any number of tracks kept that is not less than the number  *)
(* shown.  They hold of Spec: no fairness is assumed.                      *)
(***************************************************************************)
EXTENDS StationPage, SequenceTheorems, FiniteSetTheorems, TLAPS

-----------------------------------------------------------------------------
(* The newest n of a set of rows, whatever the ties.                       *)

NewestBy(at, rows, n, top) ==
    /\ top \subseteq rows
    /\ Cardinality(top) = IF Cardinality(rows) < n THEN Cardinality(rows) ELSE n
    /\ \A i \in top, j \in rows \ top : at[j] <= at[i]

AtLeast(at, rows, j) == {i \in rows : at[j] <= at[i]}

\* A row that is not less than one of the newest is one of them.
LEMMA NewestClosed ==
    ASSUME NEW S, NEW at \in [S -> Nat], NEW rows \in SUBSET S, NEW n \in Nat, NEW top,
           NewestBy(at, rows, n, top), NEW j \in S, NEW i \in top, at[i] < at[j]
    PROVE  AtLeast(at, rows, j) \subseteq top \ {i}
  BY DEF NewestBy, AtLeast

\* What pruning leaves covers every row it drops, and every row dropped before.
LEMMA PruningCovers ==
    ASSUME NEW S, NEW at \in [S -> Nat], NEW rows \in SUBSET S, IsFiniteSet(rows),
           NEW n \in Nat, NEW top, NewestBy(at, rows, n, top), NEW j \in S,
           j \in rows \ top \/ Cardinality(AtLeast(at, rows, j)) >= n
    PROVE  Cardinality(AtLeast(at, top, j)) >= n
  <1>1. /\ IsFiniteSet(top) /\ Cardinality(top) \in Nat /\ Cardinality(rows) \in Nat
        /\ Cardinality(top) <= Cardinality(rows)
        /\ Cardinality(top) = Cardinality(rows) => top = rows
    BY FS_Subset, FS_CardinalityType DEF NewestBy
  <1>2. CASE j \in rows \ top
    <2>1. Cardinality(top) = n
      BY <1>1, <1>2 DEF NewestBy
    <2>2. AtLeast(at, top, j) = top
      BY <1>2 DEF NewestBy, AtLeast
    <2> QED
      BY <2>1, <2>2
  <1>3. CASE Cardinality(AtLeast(at, rows, j)) >= n
    <2>1. /\ AtLeast(at, rows, j) \subseteq rows /\ IsFiniteSet(AtLeast(at, rows, j))
          /\ Cardinality(AtLeast(at, rows, j)) <= Cardinality(rows)
          /\ Cardinality(AtLeast(at, rows, j)) \in Nat
      <3>1. AtLeast(at, rows, j) \subseteq rows
        BY DEF AtLeast
      <3> QED
        BY <3>1, FS_Subset, FS_CardinalityType
    <2>2. CASE \A i \in top : at[j] <= at[i]
      <3>1. AtLeast(at, top, j) = top
        BY <2>2 DEF AtLeast
      <3>2. Cardinality(top) = n
        BY <1>1, <1>3, <2>1 DEF NewestBy
      <3> QED
        BY <3>1, <3>2
    <2>3. CASE \E i \in top : ~(at[j] <= at[i])
      <3>1. PICK i \in top : at[i] < at[j]
        BY <2>3 DEF NewestBy
      <3>2. AtLeast(at, rows, j) \subseteq top
        BY <3>1, NewestClosed
      <3>3. AtLeast(at, top, j) = AtLeast(at, rows, j)
        BY <3>2 DEF AtLeast, NewestBy
      <3> QED
        BY <1>3, <3>3
    <2> QED
      BY <2>2, <2>3
  <1> QED
    BY <1>2, <1>3

\* The newest of the rows that are left are the newest of all, when for every
\* row that was dropped as many as are shown, not less, are left.
LEMMA PruningUnseen ==
    ASSUME NEW S, NEW at \in [S -> Nat], NEW all \in SUBSET S, IsFiniteSet(all),
           NEW rows \in SUBSET all, NEW n \in Nat, NEW top, NewestBy(at, rows, n, top),
           \A j \in all \ rows : Cardinality(AtLeast(at, rows, j)) >= n
    PROVE  NewestBy(at, all, n, top)
  <1>1. /\ IsFiniteSet(rows) /\ Cardinality(rows) \in Nat /\ Cardinality(all) \in Nat
        /\ Cardinality(rows) <= Cardinality(all)
        /\ IsFiniteSet(top) /\ Cardinality(top) \in Nat
    BY FS_Subset, FS_CardinalityType DEF NewestBy
  <1>2. CASE rows = all
    BY <1>2
  <1>3. CASE rows # all
    <2>1. PICK k \in all : k \notin rows
      BY <1>3
    <2>2. Cardinality(rows) >= n
      <3>1. AtLeast(at, rows, k) \subseteq rows
        BY DEF AtLeast
      <3>2. Cardinality(AtLeast(at, rows, k)) <= Cardinality(rows)
            /\ Cardinality(AtLeast(at, rows, k)) \in Nat
        BY <1>1, <3>1, FS_Subset, FS_CardinalityType
      <3> QED
        BY <1>1, <2>1, <3>2
    <2>3. Cardinality(top) = n
      BY <1>1, <2>2 DEF NewestBy
    <2>4. ASSUME NEW i \in top, NEW j \in all \ top
          PROVE  at[j] <= at[i]
      <3>0. at[i] \in Nat /\ at[j] \in Nat
        BY DEF NewestBy
      <3>1. CASE j \in rows
        BY <3>1 DEF NewestBy
      <3>2. CASE j \notin rows
        <4> SUFFICES ASSUME at[i] < at[j] PROVE FALSE
          BY <3>0
        <4>1. AtLeast(at, rows, j) \subseteq top \ {i}
          BY NewestClosed
        <4>2. Cardinality(top \ {i}) = n - 1 /\ IsFiniteSet(top \ {i})
          BY <1>1, <2>3, FS_RemoveElement
        <4>3. Cardinality(AtLeast(at, rows, j)) <= n - 1
              /\ Cardinality(AtLeast(at, rows, j)) \in Nat
          BY <4>1, <4>2, FS_Subset, FS_CardinalityType
        <4> QED
          BY <3>2, <4>3
      <3> QED
        BY <3>1, <3>2
    <2> QED
      BY <1>1, <2>2, <2>3, <2>4 DEF NewestBy
  <1> QED
    BY <1>2, <1>3

-----------------------------------------------------------------------------
(* Recent tracks.                                                          *)

PlayedAt == [i \in DOMAIN appended |-> appended[i].at]

RecentType ==
    /\ appended \in Seq([station : Stations, at : Times])
    /\ kept \subseteq DOMAIN appended
    /\ notify \in [Notifiers -> {Idle} \union [at : {"append", "prune"}, station : Stations]]

\* Of a row that was dropped as many rows as pruning keeps, not less, are left.
Covered ==
    \A s \in Stations : \A j \in AllOf(s, Len(appended)) \ kept :
        Cardinality(AtLeast(PlayedAt, RowsOf(s), j)) >= Keep

RecentInv == RecentType /\ Covered

\* Rows are only added.
Grows ==
    /\ Len(appended) \in Nat /\ Len(appended') \in Nat /\ Len(appended) <= Len(appended')
    /\ \A i \in 1..Len(appended) : appended'[i] = appended[i]

LEMMA RowFacts ==
    ASSUME RecentType
    PROVE  /\ Len(appended) \in Nat /\ DOMAIN appended = 1..Len(appended)
           /\ IsFiniteSet(DOMAIN appended)
           /\ PlayedAt \in [DOMAIN appended -> Nat]
           /\ \A i \in DOMAIN appended : appended[i] \in [station : Stations, at : Times]
           /\ \A s : /\ AllOf(s, Len(appended)) \in SUBSET DOMAIN appended
                     /\ RowsOf(s) \in SUBSET AllOf(s, Len(appended))
                     /\ IsFiniteSet(AllOf(s, Len(appended))) /\ IsFiniteSet(RowsOf(s))
  <1>1. /\ Len(appended) \in Nat /\ DOMAIN appended = 1..Len(appended)
        /\ \A i \in DOMAIN appended : appended[i] \in [station : Stations, at : Times]
    BY LenProperties, ElementOfSeq DEF RecentType
  <1>2. IsFiniteSet(DOMAIN appended)
    BY <1>1, FS_Interval
  <1>3. PlayedAt \in [DOMAIN appended -> Nat]
    BY <1>1, TimesAssumption DEF PlayedAt
  <1>4. \A s : /\ AllOf(s, Len(appended)) \in SUBSET DOMAIN appended
               /\ RowsOf(s) \in SUBSET AllOf(s, Len(appended))
    BY <1>1 DEF AllOf, RowsOf, RecentType
  <1>5. \A s : IsFiniteSet(AllOf(s, Len(appended))) /\ IsFiniteSet(RowsOf(s))
    BY <1>2, <1>4, FS_Subset
  <1> QED
    BY <1>1, <1>2, <1>3, <1>4, <1>5

LEMMA NewestIsNewestBy ==
    ASSUME RecentType, NEW rows \in SUBSET DOMAIN appended, NEW n, NEW top
    PROVE  top \in Newest(rows, n) <=> NewestBy(PlayedAt, rows, n, top)
  BY DEF Newest, NewestBy, PlayedAt

LEMMA NotifyFacts ==
    ASSUME RecentType, NEW n \in Notifiers
    PROVE  notify[n].at \in {"append", "prune"} =>
              notify[n] \in [at : {"append", "prune"}, station : Stations]
  BY DEF RecentType, Idle

\* Nothing is inserted or deleted.
LEMMA RowsStay ==
    ASSUME RecentInv, UNCHANGED <<appended, kept>>,
           notify' \in [Notifiers -> {Idle} \union [at : {"append", "prune"}, station : Stations]]
    PROVE  RecentInv' /\ Grows
  <1>1. /\ PlayedAt' = PlayedAt
        /\ \A s : RowsOf(s)' = RowsOf(s) /\ AllOf(s, Len(appended))' = AllOf(s, Len(appended))
    BY DEF PlayedAt, RowsOf, AllOf
  <1>2. Covered'
    BY <1>1, Zenon DEF RecentInv, Covered, AtLeast
  <1> QED
    BY <1>2, RowFacts DEF RecentInv, RecentType, Grows

LEMMA AppendKeeps ==
    ASSUME RecentInv, NEW n \in Notifiers, AppendRecentTrack(n)
    PROVE  RecentInv' /\ Grows
  <1> DEFINE len == Len(appended)
  <1>1. PICK t \in Times : appended' = Append(appended, [station |-> notify[n].station, at |-> t])
    BY DEF AppendRecentTrack
  <1>2. notify[n] \in [at : {"append", "prune"}, station : Stations]
    BY NotifyFacts DEF AppendRecentTrack, RecentInv
  <1>3. /\ appended' \in Seq([station : Stations, at : Times])
        /\ Len(appended') = len + 1 /\ len \in Nat
        /\ DOMAIN appended' = 1..(len + 1) /\ DOMAIN appended = 1..len
        /\ \A i \in 1..len : appended'[i] = appended[i]
    BY <1>1, <1>2, AppendProperties, LenProperties DEF RecentInv, RecentType
  <1>4. RecentType'
    <2>1. notify' \in [Notifiers -> {Idle} \union [at : {"append", "prune"}, station : Stations]]
      <3>1. [notify[n] EXCEPT !.at = "prune"] \in [at : {"append", "prune"}, station : Stations]
        BY <1>2
      <3>2. notify' = [notify EXCEPT ![n] = [notify[n] EXCEPT !.at = "prune"]]
        BY DEF AppendRecentTrack
      <3> QED
        BY <3>1, <3>2 DEF RecentInv, RecentType
    <2>2. kept' \subseteq DOMAIN appended'
      BY <1>3 DEF AppendRecentTrack, RecentInv, RecentType
    <2> QED
      BY <1>3, <2>1, <2>2 DEF RecentType
  <1>5. Covered'
    <2> SUFFICES ASSUME NEW s \in Stations, NEW j \in AllOf(s, Len(appended))' \ kept'
                 PROVE  Cardinality(AtLeast(PlayedAt', RowsOf(s)', j)) >= Keep
      BY DEF Covered, AtLeast
    <2>1. kept' = kept \union {len + 1} /\ kept \subseteq 1..len
      BY <1>3 DEF AppendRecentTrack, RecentInv, RecentType
    <2>2. j \in AllOf(s, len) \ kept
      BY <1>3, <2>1 DEF AllOf
    <2>3. AtLeast(PlayedAt, RowsOf(s), j) \subseteq AtLeast(PlayedAt', RowsOf(s)', j)
      <3>1. \A i \in 1..len : PlayedAt'[i] = PlayedAt[i]
        BY <1>3 DEF PlayedAt
      <3>2. RowsOf(s) \subseteq RowsOf(s)' /\ RowsOf(s) \subseteq 1..len
        BY <1>3, <2>1 DEF RowsOf
      <3>3. j \in 1..len
        BY <2>2 DEF AllOf
      <3> QED
        BY <3>1, <3>2, <3>3 DEF AtLeast
    <2>4. IsFiniteSet(AtLeast(PlayedAt', RowsOf(s)', j))
      <3>1. IsFiniteSet(kept')
        <4>1. IsFiniteSet(1..(len + 1))
          BY <1>3, FS_Interval
        <4>2. kept' \subseteq 1..(len + 1)
          BY <1>3, <1>4 DEF RecentType
        <4> QED
          BY <4>1, <4>2, FS_Subset
      <3>2. AtLeast(PlayedAt', RowsOf(s)', j) \subseteq kept'
        BY DEF AtLeast, RowsOf
      <3> QED
        BY <3>1, <3>2, FS_Subset
    <2>5. /\ Cardinality(AtLeast(PlayedAt, RowsOf(s), j)) \in Nat
          /\ Cardinality(AtLeast(PlayedAt', RowsOf(s)', j)) \in Nat
          /\ Cardinality(AtLeast(PlayedAt, RowsOf(s), j))
                <= Cardinality(AtLeast(PlayedAt', RowsOf(s)', j))
      BY <2>3, <2>4, FS_Subset, FS_CardinalityType
    <2> QED
      BY <2>2, <2>5, KeepAssumption DEF RecentInv, Covered
  <1> QED
    BY <1>3, <1>4, <1>5 DEF RecentInv, Grows

LEMMA PruneKeeps ==
    ASSUME RecentInv, NEW n \in Notifiers, Prune(n)
    PROVE  RecentInv' /\ Grows
  <1> DEFINE len == Len(appended)
  <1>s. PICK s : s = notify[n].station
    OBVIOUS
  <1>0. s \in Stations
    BY <1>s, NotifyFacts DEF Prune, RecentInv
  <1>1. PICK top \in Newest(RowsOf(s), Keep) :
           kept' = {i \in kept : appended[i].station = s => i \in top}
    BY <1>s DEF Prune
  <1>2. notify' = [notify EXCEPT ![n] = Idle] /\ UNCHANGED appended /\ kept' \subseteq kept
    BY <1>1 DEF Prune
  <1>3. RecentType'
    BY <1>2 DEF RecentInv, RecentType
  <1>4. top \subseteq RowsOf(s) /\ NewestBy(PlayedAt, RowsOf(s), Keep, top)
    BY RowFacts, NewestIsNewestBy DEF RecentInv, Newest
  <1>5. RowsOf(s)' = top
    BY <1>1, <1>2, <1>4 DEF RowsOf
  <1>6. \A r \in Stations \ {s} : RowsOf(r)' = RowsOf(r)
    BY <1>1, <1>2 DEF RowsOf
  <1>7. ASSUME NEW r \in Stations, NEW j \in AllOf(r, len) \ kept'
        PROVE  Cardinality(AtLeast(PlayedAt, RowsOf(r)', j)) >= Keep
    <2>1. CASE r = s
      <3>1. \/ j \in RowsOf(s) \ top
            \/ Cardinality(AtLeast(PlayedAt, RowsOf(s), j)) >= Keep
        BY <1>0, <1>1, <2>1 DEF RowsOf, AllOf, RecentInv, Covered
      <3>2. /\ IsFiniteSet(RowsOf(s)) /\ RowsOf(s) \in SUBSET DOMAIN appended
            /\ j \in DOMAIN appended /\ PlayedAt \in [DOMAIN appended -> Nat]
        BY RowFacts DEF RecentInv
      <3> QED
        BY <1>4, <1>5, <2>1, <3>1, <3>2, KeepAssumption, PruningCovers
    <2>2. CASE r # s
      <3>1. j \notin kept
        BY <1>1, <2>2 DEF AllOf
      <3> QED
        BY <1>6, <2>2, <3>1 DEF RecentInv, Covered
    <2> QED
      BY <2>1, <2>2
  <1>8. PlayedAt' = PlayedAt /\ \A r : AllOf(r, Len(appended))' = AllOf(r, len)
    BY <1>2 DEF PlayedAt, AllOf
  <1>9. Covered'
    BY <1>7, <1>8 DEF Covered, AtLeast
  <1> QED
    BY <1>2, <1>3, <1>9, RowFacts DEF RecentInv, Grows

\* What Next may do to the recent tracks.
RecentMove ==
    \/ UNCHANGED recentVars
    \/ notify' = [n \in Notifiers |-> Idle] /\ UNCHANGED <<appended, kept>>
    \/ \E n \in Notifiers :
          \/ \E s \in Stations : TrackStarted(n, s)
          \/ AppendRecentTrack(n) \/ Prune(n) \/ NotifyEnds(n)

LEMMA RecentKeeps == ASSUME RecentInv, RecentMove PROVE RecentInv' /\ Grows
  <1>1. notify \in [Notifiers -> {Idle} \union [at : {"append", "prune"}, station : Stations]]
    BY DEF RecentInv, RecentType
  <1>2. CASE UNCHANGED recentVars \/ (notify' = [n \in Notifiers |-> Idle]
                                       /\ UNCHANGED <<appended, kept>>)
    BY <1>1, <1>2, RowsStay DEF recentVars
  <1>3. ASSUME NEW n \in Notifiers, NEW s \in Stations, TrackStarted(n, s)
        PROVE  RecentInv' /\ Grows
    BY <1>1, <1>3, RowsStay DEF TrackStarted
  <1>4. ASSUME NEW n \in Notifiers, NotifyEnds(n)
        PROVE  RecentInv' /\ Grows
    BY <1>1, <1>4, RowsStay DEF NotifyEnds
  <1> QED
    BY <1>2, <1>3, <1>4, AppendKeeps, PruneKeeps DEF RecentMove

-----------------------------------------------------------------------------
(* Listener statistics.                                                    *)

PollRecord == [at : {"idle", "mount", "ask", "write", "read", "answer"},
               mount : Mounts \union {NoMount}, value : Nat]

StatsType ==
    /\ icecast \in [Sources -> Counts \union {Off}] /\ reachable \in BOOLEAN
    /\ stored \in [Stations -> Nat \union {Absent}]
    /\ poll \in [Viewers -> PollRecord]
    /\ seen \in [Mounts -> SUBSET Nat] /\ mistaken \subseteq Stations

\* What a request may ask for, and what may be stored, of a station.
Asked(s, mount) ==
    \/ mount = MountOf[s]
    \/ s \in mistaken /\ mount = DefaultMount[s]

Reported(s, n) ==
    \/ n \in seen[MountOf[s]]
    \/ s \in mistaken /\ n \in seen[DefaultMount[s]]

\* A request asks for the mount of its station, or the default one after a failed
\* lookup, and carries to the table what was said of it.
Honest(v, r) ==
    /\ r.at = "ask" => Asked(Watches[v], r.mount)
    /\ r.at = "write" => Reported(Watches[v], r.value)

\* What Icecast says now has been seen, and all requests are honest.
StatsInv ==
    /\ StatsType
    /\ \A mount \in Mounts : Report(mount, icecast) \subseteq seen[mount]
    /\ \A v \in Viewers : Honest(v, poll[v])
    /\ \A s \in Stations : stored[s] # Absent => Reported(s, stored[s])

LEMMA ReportType ==
    ASSUME NEW mount, NEW status \in [Sources -> Counts \union {Off}]
    PROVE  Report(mount, status) \subseteq Nat
  <1> DEFINE matching == {m \in On(status) : <<m, mount>> \in Covers}
             first    == {n \in matching : \A o \in matching : n <= o}
  <1>1. \A m \in On(status) : status[m] \in Nat
    BY CountsAssumption DEF On
  <1>2. first \subseteq On(status)
    OBVIOUS
  <1>3. {status[m] : m \in first} \subseteq Nat
    BY <1>1, <1>2
  <1>4. Report(mount, status) = IF matching = {} THEN {0} ELSE {status[m] : m \in first}
    BY DEF Report
  <1> QED
    BY <1>3, <1>4

LEMMA OrZeroType == ASSUME NEW c \in Nat \union {Absent} PROVE OrZero(c) \in Nat
  <1>1. CASE c = Absent
    BY <1>1 DEF OrZero
  <1>2. CASE c # Absent
    BY <1>2 DEF OrZero
  <1> QED
    BY <1>1, <1>2

\* Requests that end carry nothing.
Hushed ==
    /\ poll' \in [Viewers -> PollRecord] /\ \A v \in Viewers : poll'[v] \in {poll[v], Quiet}
    /\ UNCHANGED <<icecast, reachable, stored, seen, mistaken>>

\* What Next may do to the statistics.
StatsMove ==
    \/ UNCHANGED statsVars \/ Hushed \/ Outage
    \/ \E m \in Sources, n \in Counts \union {Off} : SourceChanges(m, n)
    \/ \E v \in Viewers : \/ Refresh(v) \/ LookUpMount(v) \/ Ask(v) \/ Store(v) \/ ReadStored(v)
                          \/ StatsStatementFails(v)

\* What was seen, and which lookups failed, is never forgotten.
Remembers ==
    /\ mistaken \subseteq mistaken' /\ mistaken' \subseteq Stations
    /\ seen' \in [Mounts -> SUBSET Nat] /\ \A mount \in Mounts : seen[mount] \subseteq seen'[mount]

LEMMA RememberedHonest ==
    ASSUME Remembers, NEW s \in Stations
    PROVE  /\ \A mount : Asked(s, mount) => Asked(s, mount)'
           /\ \A n : Reported(s, n) => Reported(s, n)'
  BY MountsAssumption DEF Remembers, Asked, Reported

\* The requests, while Icecast and the table stay as they are.
LEMMA RequestsKeep ==
    ASSUME StatsInv, Remembers, UNCHANGED <<icecast, stored>>, reachable' \in BOOLEAN,
           poll' \in [Viewers -> PollRecord],
           \A v \in Viewers : poll'[v] = poll[v] \/ Honest(v, poll[v])'
    PROVE  StatsInv'
  <1>1. StatsType'
    BY DEF StatsInv, StatsType, Remembers
  <1>2. \A mount \in Mounts : Report(mount, icecast)' \subseteq seen'[mount]
    BY DEF StatsInv, Remembers, Report, On
  <1>3. ASSUME NEW v \in Viewers
        PROVE  Honest(v, poll[v])'
    <2>1. CASE poll'[v] = poll[v]
      <3>1. Honest(v, poll[v]) /\ Watches[v] \in Stations
        BY WatchesAssumption DEF StatsInv
      <3> QED
        BY <2>1, <3>1, RememberedHonest DEF Honest
    <2> QED
      BY <2>1
  <1>4. \A s \in Stations : stored'[s] # Absent => Reported(s, stored[s])'
    BY RememberedHonest DEF StatsInv, Reported
  <1> QED
    BY <1>1, <1>2, <1>3, <1>4, Zenon DEF StatsInv

LEMMA PollKeeps ==
    ASSUME StatsInv, Remembers, UNCHANGED <<icecast, reachable, stored>>,
           NEW v \in Viewers, NEW r \in PollRecord, poll' = [poll EXCEPT ![v] = r],
           r.at = "ask" => Asked(Watches[v], r.mount)',
           r.at = "write" => Reported(Watches[v], r.value)'
    PROVE  StatsInv'
  <1>1. \A u \in Viewers : poll'[u] = IF u = v THEN r ELSE poll[u]
    BY DEF StatsInv, StatsType
  <1>2. poll' \in [Viewers -> PollRecord] /\ reachable' \in BOOLEAN
    BY DEF StatsInv, StatsType
  <1>3. Honest(v, poll[v])'
    BY <1>1 DEF Honest, Asked, Reported
  <1> QED
    BY <1>1, <1>2, <1>3, RequestsKeep

LEMMA SourceKeeps ==
    ASSUME StatsInv, NEW m \in Sources, NEW n \in Counts \union {Off}, SourceChanges(m, n)
    PROVE  StatsInv'
  <1>1. icecast' \in [Sources -> Counts \union {Off}]
        /\ UNCHANGED <<reachable, stored, poll, mistaken>>
    BY DEF SourceChanges, StatsInv, StatsType
  <1>2. \A mount \in Mounts : seen'[mount] = seen[mount] \union Report(mount, icecast')
    BY DEF SourceChanges
  <1>3. Remembers
    <2>1. \A mount \in Mounts : seen[mount] \union Report(mount, icecast') \in SUBSET Nat
      BY <1>1, ReportType DEF StatsInv, StatsType
    <2>2. seen' \in [Mounts -> SUBSET Nat]
      BY <2>1 DEF SourceChanges
    <2>3. mistaken \subseteq Stations
      BY DEF StatsInv, StatsType
    <2> QED
      BY <1>1, <1>2, <2>2, <2>3 DEF Remembers
  <1>4. \A mount \in Mounts : Report(mount, icecast)' \subseteq seen'[mount]
    BY <1>2 DEF Report, On
  <1>5. \A v \in Viewers : Honest(v, poll[v])'
    <2> SUFFICES ASSUME NEW v \in Viewers PROVE Honest(v, poll[v])'
      OBVIOUS
    <2>1. Honest(v, poll[v]) /\ Watches[v] \in Stations
      BY WatchesAssumption DEF StatsInv
    <2> QED
      BY <1>1, <1>3, <2>1, RememberedHonest DEF Honest
  <1>6. \A s \in Stations : stored'[s] # Absent => Reported(s, stored[s])'
    BY <1>1, <1>3, RememberedHonest DEF StatsInv, Reported
  <1>7. StatsType'
    BY <1>1, <1>3 DEF StatsInv, StatsType, Remembers
  <1> QED
    BY <1>4, <1>5, <1>6, <1>7, Zenon DEF StatsInv

LEMMA StoreKeeps ==
    ASSUME StatsInv, NEW v \in Viewers, Store(v)
    PROVE  StatsInv'
  <1> DEFINE s == Watches[v]
             r == [at |-> "answer", mount |-> NoMount, value |-> poll[v].value]
  <1>1. /\ s \in Stations /\ poll[v].value \in Nat /\ Reported(s, poll[v].value)
        /\ stored' = [stored EXCEPT ![s] = poll[v].value]
        /\ poll' = [poll EXCEPT ![v] = r]
        /\ UNCHANGED <<icecast, reachable, seen, mistaken>>
    BY WatchesAssumption DEF Store, PollGoto, StatsInv, StatsType, PollRecord, Honest
  <1>2. r \in PollRecord
    BY <1>1 DEF PollRecord
  <1>3. StatsType'
    BY <1>1, <1>2 DEF StatsInv, StatsType
  <1>4. \A q \in Stations : stored'[q] # Absent => Reported(q, stored[q])'
    BY <1>1 DEF StatsInv, StatsType, Reported
  <1>5. \A u \in Viewers : Honest(u, poll[u])'
    <2>1. \A u \in Viewers : poll'[u] = IF u = v THEN r ELSE poll[u]
      BY <1>1 DEF StatsInv, StatsType
    <2> QED
      BY <1>1, <2>1 DEF StatsInv, Honest, Asked, Reported
  <1>6. \A mount \in Mounts : Report(mount, icecast)' \subseteq seen'[mount]
    BY <1>1 DEF StatsInv, Report, On
  <1> QED
    BY <1>3, <1>4, <1>5, <1>6, Zenon DEF StatsInv

LEMMA StatsKeeps == ASSUME StatsInv, StatsMove PROVE StatsInv'
  <1>0. UNCHANGED <<seen, mistaken>> => Remembers
    BY DEF Remembers, StatsInv, StatsType
  <1>1. CASE UNCHANGED statsVars \/ Outage
    <2>1. /\ UNCHANGED <<icecast, stored, poll, seen, mistaken>> /\ reachable' \in BOOLEAN
          /\ poll' \in [Viewers -> PollRecord]
      BY <1>1 DEF Outage, statsVars, StatsInv, StatsType
    <2> QED
      BY <1>0, <2>1, RequestsKeep
  <1>2. CASE Hushed
    <2>1. /\ UNCHANGED <<icecast, reachable, stored, seen, mistaken>> /\ reachable' \in BOOLEAN
          /\ poll' \in [Viewers -> PollRecord]
      BY <1>2 DEF Hushed, StatsInv, StatsType
    <2>2. \A v \in Viewers : poll'[v] = poll[v] \/ Honest(v, poll[v])'
      BY <1>2 DEF Hushed, Honest, Quiet
    <2> QED
      BY <1>0, <2>1, <2>2, RequestsKeep
  <1>3. ASSUME NEW v \in Viewers
        PROVE  /\ Watches[v] \in Stations /\ stored[Watches[v]] \in Nat \union {Absent}
               /\ poll[v] \in PollRecord /\ Honest(v, poll[v])
               /\ MountOf[Watches[v]] \in Mounts /\ DefaultMount[Watches[v]] \in Mounts
    BY WatchesAssumption, MountsAssumption DEF StatsInv, StatsType
  <1>4. ASSUME NEW v \in Viewers, NEW phase \in {"mount", "read", "answer"}, NEW count \in Nat,
               PollGoto(v, phase, count), UNCHANGED <<icecast, reachable, stored, seen, mistaken>>
        PROVE  StatsInv'
    <2> DEFINE r == [at |-> phase, mount |-> NoMount, value |-> count]
    <2>1. r \in PollRecord /\ r.at \notin {"ask", "write"}
      BY DEF PollRecord
    <2>2. poll' = [poll EXCEPT ![v] = r]
      BY <1>4 DEF PollGoto
    <2> HIDE DEF r
    <2> QED
      BY <1>0, <1>4, <2>1, <2>2, PollKeeps
  <1>5. ASSUME NEW v \in Viewers, NEW mount \in Mounts, AskFor(v, mount), Remembers,
               Asked(Watches[v], mount)', UNCHANGED <<icecast, reachable, stored>>
        PROVE  StatsInv'
    <2> DEFINE r == [at |-> "ask", mount |-> mount, value |-> 0]
    <2>1. r \in PollRecord /\ r.at = "ask" /\ r.mount = mount
      BY DEF PollRecord
    <2>2. poll' = [poll EXCEPT ![v] = r]
      BY <1>5 DEF AskFor
    <2>3. Asked(Watches[v], r.mount)'
      BY <1>5 DEF Asked
    <2> HIDE DEF r
    <2> QED
      BY <1>5, <2>1, <2>2, <2>3, PollKeeps
  <1>6. ASSUME NEW v \in Viewers, Refresh(v)
        PROVE  StatsInv'
    BY <1>4, <1>6 DEF Refresh
  <1>7. ASSUME NEW v \in Viewers, LookUpMount(v)
        PROVE  StatsInv'
    <2>1. Asked(Watches[v], MountOf[Watches[v]])'
      BY DEF Asked
    <2>2. AskFor(v, MountOf[Watches[v]]) /\ UNCHANGED <<icecast, reachable, stored, seen, mistaken>>
      BY <1>7 DEF LookUpMount
    <2> QED
      BY <1>0, <1>3, <1>5, <2>1, <2>2
  <1>8. ASSUME NEW v \in Viewers, MountLookupFails(v)
        PROVE  StatsInv'
    <2>1. /\ AskFor(v, DefaultMount[Watches[v]]) /\ mistaken' = mistaken \union {Watches[v]}
          /\ UNCHANGED <<icecast, reachable, stored, seen>>
      BY <1>8 DEF MountLookupFails
    <2>2. Remembers
      BY <1>3, <2>1 DEF Remembers, StatsInv, StatsType
    <2>3. Asked(Watches[v], DefaultMount[Watches[v]])'
      BY <2>1 DEF Asked
    <2> QED
      BY <1>3, <1>5, <2>1, <2>2, <2>3
  <1>9. ASSUME NEW v \in Viewers, Ask(v)
        PROVE  StatsInv'
    <2>1. CASE reachable
      <3>1. PICK n \in Report(poll[v].mount, icecast) : PollGoto(v, "write", n)
        BY <1>9, <2>1 DEF Ask
      <3>2. Asked(Watches[v], poll[v].mount) /\ poll[v].mount \in Mounts
        BY <1>3, <1>9 DEF Ask, Honest, Asked
      <3>3. n \in Nat /\ n \in seen[poll[v].mount]
        BY <3>1, <3>2, ReportType DEF StatsInv, StatsType
      <3>4. Reported(Watches[v], n)'
        BY <1>9, <3>2, <3>3 DEF Ask, Asked, Reported
      <3> DEFINE r == [at |-> "write", mount |-> NoMount, value |-> n]
      <3>5. r \in PollRecord /\ r.at = "write" /\ r.value = n
        BY <3>3 DEF PollRecord
      <3>6. poll' = [poll EXCEPT ![v] = r] /\ UNCHANGED <<icecast, reachable, stored, seen, mistaken>>
        BY <1>9, <3>1 DEF Ask, PollGoto
      <3> HIDE DEF r
      <3>7. Reported(Watches[v], r.value)'
        BY <3>4, <3>5 DEF Reported
      <3> QED
        BY <1>0, <3>5, <3>6, <3>7, PollKeeps
    <2>2. CASE ~reachable
      BY <1>4, <1>9, <2>2 DEF Ask
    <2> QED
      BY <2>1, <2>2
  <1>10. ASSUME NEW v \in Viewers, ReadStored(v)
         PROVE  StatsInv'
    BY <1>3, <1>4, <1>10, OrZeroType DEF ReadStored
  <1>11. ASSUME NEW v \in Viewers, CountStatementFails(v)
         PROVE  StatsInv'
    <2>1. poll[v].value \in Nat
      BY <1>3 DEF PollRecord
    <2> QED
      BY <1>4, <1>11, <2>1 DEF CountStatementFails
  <1> QED
    BY <1>1, <1>2, <1>6, <1>7, <1>8, <1>9, <1>10, <1>11, SourceKeeps, StoreKeeps
       DEF StatsMove, StatsStatementFails

-----------------------------------------------------------------------------
(* The page.                                                               *)

PageRecord == [at : {"closed", "detail", "recent", "open"}, listeners : Nat,
               recent : SUBSET Nat, moment : Nat]

\* A page as it was right when its list was read.
Truthful(v, p) ==
    /\ p \in PageRecord /\ p.moment <= Len(appended)
    /\ p.recent \in Newest(AllOf(Watches[v], p.moment), Show)

PageInv == page \in [Viewers -> PageRecord] /\ \A v \in Viewers : Truthful(v, page[v])

\* What a page may become: what it was, the list included, or nothing, or a page
\* with the newest rows of the table.
PageMove ==
    /\ page' \in [Viewers -> PageRecord]
    /\ \A v \in Viewers :
          \/ page'[v].recent = page[v].recent /\ page'[v].moment = page[v].moment
          \/ page'[v] = Closed
          \/ /\ page'[v].recent \in Newest(RowsOf(Watches[v]), Show)
             /\ page'[v].moment = Len(appended)

\* Rows that are inserted later do not change what was right.
LEMMA StaysTruthful ==
    ASSUME RecentType, Grows, NEW v, NEW n \in 0..Len(appended), NEW rec,
           rec \in Newest(AllOf(Watches[v], n), Show)
    PROVE  rec \in Newest(AllOf(Watches[v], n), Show)'
  <1>1. \A i \in 1..n : appended'[i] = appended[i]
    BY RowFacts DEF Grows
  <1>2. AllOf(Watches[v], n)' = AllOf(Watches[v], n) /\ AllOf(Watches[v], n) \subseteq 1..n
    BY <1>1 DEF AllOf
  <1> QED
    BY <1>1, <1>2 DEF Newest

LEMMA NothingIsNewest == ASSUME NEW v PROVE {} \in Newest(AllOf(Watches[v], 0), Show)
  <1>1. AllOf(Watches[v], 0) = {}
    BY DEF AllOf
  <1>2. Cardinality({}) = 0
    BY FS_EmptySet
  <1> QED
    BY <1>1, <1>2, ShowAssumption DEF Newest

LEMMA PageKeeps == ASSUME RecentInv, Grows, PageInv, PageMove PROVE PageInv'
  <1> SUFFICES ASSUME NEW v \in Viewers
               PROVE  Truthful(v, page[v])'
    BY DEF PageInv, PageMove
  <1>1. page'[v] \in PageRecord /\ page[v] \in PageRecord /\ Truthful(v, page[v])
    BY DEF PageInv, PageMove
  <1>2. CASE page'[v].recent = page[v].recent /\ page'[v].moment = page[v].moment
    <2>1. page[v].moment \in 0..Len(appended)
      BY <1>1, RowFacts DEF Truthful, PageRecord, RecentInv
    <2>2. page[v].recent \in Newest(AllOf(Watches[v], page[v].moment), Show)
      BY <1>1 DEF Truthful
    <2>3. \A n, rec : n = page[v].moment /\ rec = page[v].recent =>
             rec \in Newest(AllOf(Watches[v], n), Show)'
      <3> SUFFICES ASSUME NEW n, NEW rec, n = page[v].moment, rec = page[v].recent
                   PROVE  rec \in Newest(AllOf(Watches[v], n), Show)'
        OBVIOUS
      <3>1. RecentType /\ n \in 0..Len(appended)
        BY <2>1 DEF RecentInv
      <3>2. rec \in Newest(AllOf(Watches[v], n), Show)
        BY <2>2
      <3> QED
        BY <3>1, <3>2, StaysTruthful
    <2>4. (page[v].recent \in Newest(AllOf(Watches[v], page[v].moment), Show))'
      BY <1>2, <2>3
    <2> QED
      BY <1>1, <1>2, <2>1, <2>4 DEF Truthful, Grows
  <1>3. CASE page'[v] = Closed
    <2>1. Closed.moment = 0 /\ Closed.recent = {}
      BY DEF Closed
    <2>2. \A n, rec : n = 0 /\ rec = {} => rec \in Newest(AllOf(Watches[v], n), Show)'
      <3> SUFFICES ASSUME NEW n, NEW rec, n = 0, rec = {}
                   PROVE  rec \in Newest(AllOf(Watches[v], n), Show)'
        OBVIOUS
      <3>1. RecentType /\ n \in 0..Len(appended)
        BY RowFacts DEF RecentInv
      <3>2. rec \in Newest(AllOf(Watches[v], n), Show)
        BY NothingIsNewest
      <3> QED
        BY <3>1, <3>2, StaysTruthful
    <2> QED
      BY <1>1, <1>3, <2>1, <2>2 DEF Truthful, Grows
  <1>4. CASE /\ page'[v].recent \in Newest(RowsOf(Watches[v]), Show)
             /\ page'[v].moment = Len(appended)
    <2> DEFINE all == AllOf(Watches[v], Len(appended))
               rows == RowsOf(Watches[v])
    <2>0. PICK top : top = page'[v].recent
      OBVIOUS
    <2>1. /\ PlayedAt \in [DOMAIN appended -> Nat] /\ all \in SUBSET DOMAIN appended
          /\ IsFiniteSet(all) /\ rows \in SUBSET all /\ Len(appended) \in Nat
          /\ rows \in SUBSET DOMAIN appended /\ IsFiniteSet(rows)
      BY RowFacts DEF RecentInv
    <2>2. NewestBy(PlayedAt, rows, Show, top)
      BY <1>4, <2>0, <2>1, NewestIsNewestBy DEF RecentInv
    <2>3. \A j \in all \ rows : Cardinality(AtLeast(PlayedAt, rows, j)) >= Show
      <3>1. \A j \in all \ rows : Cardinality(AtLeast(PlayedAt, rows, j)) >= Keep
        <4>1. all \ rows \subseteq all \ kept /\ Watches[v] \in Stations
          BY WatchesAssumption DEF AllOf, RowsOf
        <4> QED
          BY <4>1 DEF RecentInv, Covered
      <3>2. \A j : Cardinality(AtLeast(PlayedAt, rows, j)) \in Nat
        <4>1. \A j : AtLeast(PlayedAt, rows, j) \subseteq rows
          BY DEF AtLeast
        <4> QED
          BY <2>1, <4>1, FS_Subset, FS_CardinalityType
      <3> QED
        BY <3>1, <3>2, KeepAssumption, ShowAssumption
    <2>4. NewestBy(PlayedAt, all, Show, top)
      <3> HIDE DEF all, rows
      <3> QED
        BY <2>1, <2>2, <2>3, ShowAssumption, PruningUnseen
    <2>5. top \in Newest(all, Show)
      BY <2>1, <2>4, NewestIsNewestBy DEF RecentInv
    <2>6. \A n, rec : n = Len(appended) /\ rec = top =>
             rec \in Newest(AllOf(Watches[v], n), Show)'
      <3> SUFFICES ASSUME NEW n, NEW rec, n = Len(appended), rec = top
                   PROVE  rec \in Newest(AllOf(Watches[v], n), Show)'
        OBVIOUS
      <3>1. RecentType /\ n \in 0..Len(appended)
        BY <2>1 DEF RecentInv
      <3>2. rec \in Newest(AllOf(Watches[v], n), Show)
        BY <2>5
      <3> QED
        BY <3>1, <3>2, StaysTruthful
    <2> QED
      BY <1>1, <1>4, <2>0, <2>6 DEF Truthful, Grows
  <1> QED
    BY <1>2, <1>3, <1>4 DEF PageMove

-----------------------------------------------------------------------------
(* Every step of the composition is one of each part.                      *)

IInv == RecentInv /\ StatsInv /\ PageInv

LEMMA PollsEnd ==
    ASSUME StatsType
    PROVE  /\ \A v \in Viewers : [poll EXCEPT ![v] = Quiet] \in [Viewers -> PollRecord]
           /\ [v \in Viewers |-> Quiet] \in [Viewers -> PollRecord]
  BY DEF StatsType, PollRecord, Quiet

LEMMA PageChanges ==
    ASSUME PageInv, NEW v \in Viewers, NEW p \in PageRecord,
           page' = [page EXCEPT ![v] = p],
           \/ p.recent = page[v].recent /\ p.moment = page[v].moment
           \/ p = Closed
           \/ p.recent \in Newest(RowsOf(Watches[v]), Show) /\ p.moment = Len(appended)
    PROVE  PageMove
  BY DEF PageInv, PageMove

LEMMA ClosedType == Closed \in PageRecord
  BY DEF Closed, PageRecord

LEMMA PageStepMoves ==
    ASSUME IInv, NEW v \in Viewers, PageStep(v)
    PROVE  RecentMove /\ StatsMove /\ PageMove
  <1>0. page[v] \in PageRecord /\ StatsType /\ poll[v] \in PollRecord
    BY DEF IInv, PageInv, StatsInv, StatsType
  <1>1. CASE LoadStationDetail(v)
    <2> DEFINE p == [page[v] EXCEPT !.at = "recent", !.listeners = OrZero(stored[Watches[v]])]
    <2>1. OrZero(stored[Watches[v]]) \in Nat
      BY <1>0, OrZeroType, WatchesAssumption DEF StatsType
    <2>2. p \in PageRecord /\ p.recent = page[v].recent /\ p.moment = page[v].moment
      BY <1>0, <2>1 DEF PageRecord
    <2>3. page' = [page EXCEPT ![v] = p] /\ UNCHANGED <<recentVars, statsVars>>
      BY <1>1 DEF LoadStationDetail
    <2> HIDE DEF p
    <2> QED
      BY <2>2, <2>3, PageChanges DEF IInv, RecentMove, StatsMove
  <1>2. CASE LoadRecentRows(v)
    <2>1. PICK top \in Newest(RowsOf(Watches[v]), Show) :
             page' = [page EXCEPT ![v].at = "open", ![v].recent = top,
                                  ![v].moment = Len(appended)]
      BY <1>2 DEF LoadRecentRows
    <2> DEFINE p == [page[v] EXCEPT !.at = "open", !.recent = top, !.moment = Len(appended)]
    <2>2. Len(appended) \in Nat /\ top \subseteq Nat
      BY RowFacts DEF IInv, RecentInv, Newest
    <2>3. p \in PageRecord /\ p.recent = top /\ p.moment = Len(appended)
      BY <1>0, <2>2 DEF PageRecord
    <2>4. page' = [page EXCEPT ![v] = p] /\ UNCHANGED <<recentVars, statsVars>>
      BY <1>2, <2>1 DEF LoadRecentRows
    <2> HIDE DEF p
    <2> QED
      BY <2>1, <2>3, <2>4, PageChanges DEF IInv, RecentMove, StatsMove
  <1>3. CASE RefreshStats(v)
    <2>1. PageMove
      BY <1>3 DEF RefreshStats, IInv, PageInv, PageMove
    <2> QED
      BY <1>3, <2>1 DEF RefreshStats, RecentMove, StatsMove
  <1>4. CASE ShowListeners(v)
    <2> DEFINE p == [page[v] EXCEPT !.listeners = poll[v].value]
    <2>1. p \in PageRecord /\ p.recent = page[v].recent /\ p.moment = page[v].moment
      BY <1>0 DEF PageRecord, PollRecord
    <2>2. page' = [page EXCEPT ![v] = p] /\ UNCHANGED recentVars
      BY <1>4 DEF ShowListeners
    <2>3. Hushed
      BY <1>0, <1>4, PollsEnd DEF ShowListeners, Hushed, StatsType
    <2> HIDE DEF p
    <2> QED
      BY <2>1, <2>2, <2>3, PageChanges DEF IInv, RecentMove, StatsMove
  <1> QED
    BY <1>1, <1>2, <1>3, <1>4 DEF PageStep

LEMMA RequestsEnd ==
    ASSUME IInv
    PROVE  /\ \A n \in Notifiers : NotifyEnds(n) => RecentMove
           /\ \A v \in Viewers : PollEnds(v) => StatsMove
           /\ UNCHANGED recentVars => RecentMove
           /\ UNCHANGED statsVars => StatsMove
           /\ UNCHANGED page => PageMove
  <1>1. StatsType /\ page \in [Viewers -> PageRecord]
    BY DEF IInv, StatsInv, PageInv
  <1>2. ASSUME NEW v \in Viewers, PollEnds(v)
        PROVE  StatsMove
    <2>1. Hushed
      BY <1>1, <1>2, PollsEnd DEF PollEnds, Hushed, StatsType
    <2> QED
      BY <2>1 DEF StatsMove
  <1> QED
    BY <1>1, <1>2 DEF RecentMove, StatsMove, PageMove

LEMMA FailureMoves ==
    ASSUME IInv, StatementFails
    PROVE  RecentMove /\ StatsMove /\ PageMove
  <1>1. ASSUME NEW n \in Notifiers, NotifyEnds(n), UNCHANGED <<statsVars, page>>
        PROVE  RecentMove /\ StatsMove /\ PageMove
    BY <1>1, RequestsEnd
  <1>2. ASSUME NEW v \in Viewers, StatsStatementFails(v), UNCHANGED <<recentVars, page>>
        PROVE  RecentMove /\ StatsMove /\ PageMove
    BY <1>2, RequestsEnd DEF StatsMove
  <1>3. ASSUME NEW v \in Viewers,
               page' = [page EXCEPT ![v].at = IF @ = "detail" THEN "recent" ELSE "open"],
               UNCHANGED <<recentVars, statsVars>>
        PROVE  RecentMove /\ StatsMove /\ PageMove
    <2> DEFINE p == [page[v] EXCEPT !.at = IF @ = "detail" THEN "recent" ELSE "open"]
    <2>1. page[v] \in PageRecord
      BY DEF IInv, PageInv
    <2>2. p \in PageRecord /\ p.recent = page[v].recent /\ p.moment = page[v].moment
      BY <2>1 DEF PageRecord
    <2>3. page' = [page EXCEPT ![v] = p]
      BY <1>3
    <2> HIDE DEF p
    <2> QED
      BY <1>3, <2>2, <2>3, PageChanges, RequestsEnd DEF IInv
  <1> QED
    BY <1>1, <1>2, <1>3 DEF StatementFails

LEMMA LeaveMoves ==
    ASSUME IInv, Leave
    PROVE  RecentMove /\ StatsMove /\ PageMove
  <1>1. ASSUME NEW n \in Notifiers, NotifyEnds(n), UNCHANGED <<statsVars, page>>
        PROVE  RecentMove /\ StatsMove /\ PageMove
    BY <1>1, RequestsEnd
  <1>2. ASSUME NEW v \in Viewers, PollEnds(v), UNCHANGED <<recentVars, page>>
        PROVE  RecentMove /\ StatsMove /\ PageMove
    BY <1>2, RequestsEnd
  <1>3. ASSUME NEW v \in Viewers, page' = [page EXCEPT ![v] = Closed],
               poll' = [poll EXCEPT ![v] = Quiet],
               UNCHANGED <<recentVars, icecast, reachable, stored, seen, mistaken>>
        PROVE  RecentMove /\ StatsMove /\ PageMove
    <2>1. Hushed
      BY <1>3, PollsEnd DEF Hushed, IInv, StatsInv, StatsType
    <2> QED
      BY <1>3, <2>1, PageChanges, ClosedType, RequestsEnd DEF IInv, StatsMove
  <1> QED
    BY <1>1, <1>2, <1>3 DEF Leave

LEMMA StopMoves ==
    ASSUME IInv, Stop
    PROVE  RecentMove /\ StatsMove /\ PageMove
  <1>1. RecentMove
    BY DEF Stop, RecentMove
  <1>2. Hushed
    BY PollsEnd DEF Stop, Hushed, IInv, StatsInv, StatsType
  <1>3. \A v \in Viewers : page'[v] \in {page[v], Closed}
    BY DEF Stop
  <1>4. page' \in [Viewers -> PageRecord]
    BY ClosedType DEF Stop, IInv, PageInv
  <1> QED
    BY <1>1, <1>2, <1>3, <1>4 DEF StatsMove, PageMove

LEMMA NextMoves ==
    ASSUME IInv, [Next]_vars
    PROVE  RecentMove /\ StatsMove /\ PageMove
  <1>1. ASSUME NEW m \in Sources, NEW n \in (Counts \union {Off}) \ {icecast[m]},
               SourceChanges(m, n), UNCHANGED <<recentVars, page>>
        PROVE  RecentMove /\ StatsMove /\ PageMove
    BY <1>1, RequestsEnd DEF StatsMove
  <1>2. ASSUME Outage, UNCHANGED <<recentVars, page>>
        PROVE  RecentMove /\ StatsMove /\ PageMove
    BY <1>2, RequestsEnd DEF StatsMove
  <1>3. ASSUME NEW n \in Notifiers, NEW s \in Stations, TrackStarted(n, s),
               UNCHANGED <<statsVars, page>>
        PROVE  RecentMove /\ StatsMove /\ PageMove
    BY <1>3, RequestsEnd DEF RecentMove
  <1>4. CASE Environment
    BY <1>1, <1>2, <1>3, <1>4 DEF Environment
  <1>5. ASSUME NEW n \in Notifiers, NotifyStep(n)
        PROVE  RecentMove /\ StatsMove /\ PageMove
    BY <1>5, RequestsEnd DEF NotifyStep, RecentMove
  <1>6. ASSUME NEW v \in Viewers, StatsStep(v)
        PROVE  RecentMove /\ StatsMove /\ PageMove
    BY <1>6, RequestsEnd DEF StatsStep, StatsMove
  <1>7. ASSUME NEW v \in Viewers, OpenPage(v)
        PROVE  RecentMove /\ StatsMove /\ PageMove
    <2> DEFINE p == [page[v] EXCEPT !.at = "detail"]
    <2>1. page[v] \in PageRecord
      BY DEF IInv, PageInv
    <2>2. p \in PageRecord /\ p.recent = page[v].recent /\ p.moment = page[v].moment
      BY <2>1 DEF PageRecord
    <2>3. page' = [page EXCEPT ![v] = p] /\ UNCHANGED <<recentVars, statsVars>>
      BY <1>7 DEF OpenPage
    <2> HIDE DEF p
    <2> QED
      BY <2>2, <2>3, PageChanges, RequestsEnd DEF IInv
  <1>8. CASE UNCHANGED vars
    BY <1>8, RequestsEnd DEF vars
  <1> QED
    BY <1>4, <1>5, <1>6, <1>7, <1>8, PageStepMoves, FailureMoves, LeaveMoves, StopMoves DEF Next

LEMMA InitEstablishes == ASSUME Init PROVE IInv
  <1>1. RecentInv
    <2>1. appended = << >> /\ kept = {} /\ notify = [n \in Notifiers |-> Idle]
      BY DEF Init, RecentInit
    <2>2. \A s : AllOf(s, Len(appended)) = {}
      BY <2>1 DEF AllOf
    <2>3. Covered
      BY <2>2 DEF Covered
    <2>4. RecentType
      BY <2>1 DEF RecentType
    <2> QED
      BY <2>3, <2>4 DEF RecentInv
  <1>2. StatsInv
    <2>1. /\ icecast \in [Sources -> Counts \union {Off}]
          /\ stored = [s \in Stations |-> Absent] /\ poll = [v \in Viewers |-> Quiet]
          /\ seen = [mount \in Mounts |-> Report(mount, icecast)] /\ reachable = TRUE
          /\ mistaken = {}
      BY DEF Init, StatsInit
    <2>2. \A mount \in Mounts : Report(mount, icecast) \in SUBSET Nat
      BY <2>1, ReportType
    <2>3. StatsType
      BY <2>1, <2>2 DEF StatsType, PollRecord, Quiet
    <2>4. \A v \in Viewers : Honest(v, poll[v])
      BY <2>1 DEF Honest, Quiet
    <2> QED
      BY <2>1, <2>3, <2>4 DEF StatsInv
  <1>3. PageInv
    <2>1. page = [v \in Viewers |-> Closed] /\ Len(appended) = 0
      BY DEF Init, RecentInit
    <2>2. \A v \in Viewers : Truthful(v, Closed)
      BY <2>1, ClosedType, NothingIsNewest DEF Truthful, Closed
    <2> QED
      BY <2>1, <2>2, ClosedType DEF PageInv
  <1> QED
    BY <1>1, <1>2, <1>3 DEF IInv

LEMMA NextKeeps == ASSUME IInv, [Next]_vars PROVE IInv'
  <1>1. RecentMove /\ StatsMove /\ PageMove
    BY NextMoves
  <1>2. RecentInv' /\ Grows
    BY <1>1, RecentKeeps DEF IInv
  <1>3. StatsInv'
    BY <1>1, StatsKeeps DEF IInv
  <1>4. PageInv'
    BY <1>1, <1>2, PageKeeps DEF IInv
  <1> QED
    BY <1>2, <1>3, <1>4 DEF IInv

LEMMA IInvHolds == Spec => []IInv
  <1>1. Init => IInv
    BY InitEstablishes
  <1>2. IInv /\ [Next]_vars => IInv'
    BY NextKeeps
  <1> QED
    BY <1>1, <1>2, PTL DEF Spec

-----------------------------------------------------------------------------
(* What is settled stays so.                                               *)

LEMMA SettledFacts ==
    ASSUME IInv, Settled, NEW v \in Viewers
    PROVE  /\ Watches[v] \in Stations /\ Now(v) \subseteq Nat
           /\ stored[Watches[v]] \in Now(v)
           /\ OrZero(stored[Watches[v]]) = stored[Watches[v]]
           /\ poll[v] \in PollRecord /\ page[v] \in PageRecord
           /\ poll[v].at = "ask" => poll[v].mount = MountOf[Watches[v]]
           /\ poll[v].at \in {"write", "answer"} => poll[v].value \in Now(v)
           /\ page[v].at \in {"recent", "open"} => page[v].listeners \in Now(v)
  <1>1. /\ Watches[v] \in Stations /\ poll[v] \in PollRecord /\ page[v] \in PageRecord
        /\ icecast \in [Sources -> Counts \union {Off}]
    BY WatchesAssumption DEF IInv, StatsInv, StatsType, PageInv
  <1>2. Now(v) \subseteq Nat
    BY <1>1, ReportType DEF Now
  <1>3. stored[Watches[v]] \in Now(v)
    BY DEF Settled
  <1>4. stored[Watches[v]] # Absent
    BY <1>2, <1>3 DEF Absent
  <1> QED
    BY <1>1, <1>2, <1>3, <1>4 DEF Settled, OrZero

\* It is enough that whatever a step stores, carries or shows is what was settled
\* or what Icecast says.
LEMMA StaysSettled ==
    ASSUME Settled, UNCHANGED icecast,
           \A v \in Viewers :
              /\ stored'[Watches[v]] \in Now(v) \union {stored[Watches[v]]}
              /\ \/ poll'[v] = poll[v]
                 \/ /\ poll'[v].at = "ask" => poll'[v].mount = MountOf[Watches[v]]
                    /\ poll'[v].at \in {"write", "answer"} => poll'[v].value \in Now(v)
              /\ \/ page'[v] = page[v]
                 \/ page'[v].at \in {"recent", "open"} => page'[v].listeners \in Now(v)
    PROVE  Settled'
  <1> SUFFICES ASSUME NEW v \in Viewers
               PROVE  /\ stored'[Watches[v]] \in Now(v)'
                      /\ poll'[v].at = "ask" => poll'[v].mount = MountOf[Watches[v]]
                      /\ poll'[v].at \in {"write", "answer"} => poll'[v].value \in Now(v)'
                      /\ page'[v].at \in {"recent", "open"} => page'[v].listeners \in Now(v)'
    BY DEF Settled
  <1>1. Now(v)' = Now(v)
    BY DEF Now, Report, On
  <1>2. /\ stored[Watches[v]] \in Now(v)
        /\ poll[v].at = "ask" => poll[v].mount = MountOf[Watches[v]]
        /\ poll[v].at \in {"write", "answer"} => poll[v].value \in Now(v)
        /\ page[v].at \in {"recent", "open"} => page[v].listeners \in Now(v)
    BY DEF Settled
  <1> QED
    BY <1>1, <1>2

LEMMA PollStaysSettled ==
    ASSUME IInv, Settled, UNCHANGED <<icecast, stored, page>>, NEW v \in Viewers, NEW r,
           poll' = [poll EXCEPT ![v] = r],
           r.at = "ask" => r.mount = MountOf[Watches[v]],
           r.at \in {"write", "answer"} => r.value \in Now(v)
    PROVE  Settled'
  <1>1. \A u \in Viewers : poll'[u] = IF u = v THEN r ELSE poll[u]
    BY DEF IInv, StatsInv, StatsType
  <1> QED
    BY <1>1, StaysSettled

LEMMA PageStaysSettled ==
    ASSUME IInv, Settled, UNCHANGED <<icecast, stored>>, NEW v \in Viewers, NEW p,
           page' = [page EXCEPT ![v] = p],
           p.at \in {"recent", "open"} => p.listeners \in Now(v),
           poll' = poll \/ poll' = [poll EXCEPT ![v] = Quiet]
    PROVE  Settled'
  <1>1. \A u \in Viewers : page'[u] = IF u = v THEN p ELSE page[u]
    BY DEF IInv, PageInv
  <1>2. \A u \in Viewers : poll'[u] \in {poll[u], Quiet}
    BY DEF IInv, StatsInv, StatsType
  <1>3. Quiet.at = "idle"
    BY DEF Quiet
  <1> QED
    BY <1>1, <1>2, <1>3, StaysSettled

LEMMA StatsStepStaysSettled ==
    ASSUME IInv, Settled, NEW v \in Viewers, StatsStep(v)
    PROVE  Settled'
  <1>0. UNCHANGED <<icecast, page>>
    BY DEF StatsStep, LookUpMount, Ask, Store, ReadStored
  <1>1. CASE Ask(v)
    <2>1. CASE reachable
      <3>1. PICK n \in Now(v) : PollGoto(v, "write", n)
        BY <1>1, <2>1, SettledFacts DEF Ask, Now
      <3> QED
        BY <1>0, <1>1, <3>1, PollStaysSettled DEF Ask, PollGoto
    <2>2. CASE ~reachable
      BY <1>0, <1>1, <2>2, PollStaysSettled DEF Ask, PollGoto
    <2> QED
      BY <2>1, <2>2
  <1>2. CASE Store(v)
    <2> DEFINE r == [at |-> "answer", mount |-> NoMount, value |-> poll[v].value]
    <2>1. poll[v].value \in Now(v) /\ Watches[v] \in Stations
      BY <1>2, SettledFacts DEF Store
    <2>2. /\ stored' = [stored EXCEPT ![Watches[v]] = poll[v].value]
          /\ poll' = [poll EXCEPT ![v] = r]
      BY <1>2 DEF Store, PollGoto
    <2>3. \A u \in Viewers : poll'[u] = IF u = v THEN r ELSE poll[u]
      BY <2>2 DEF IInv, StatsInv, StatsType
    <2>4. \A u \in Viewers : stored'[Watches[u]] \in Now(u) \union {stored[Watches[u]]}
      <3> SUFFICES ASSUME NEW u \in Viewers
                   PROVE  stored'[Watches[u]] \in Now(u) \union {stored[Watches[u]]}
        OBVIOUS
      <3>1. stored'[Watches[u]] =
               IF Watches[u] = Watches[v] THEN poll[v].value ELSE stored[Watches[u]]
        BY <2>1, <2>2, SettledFacts DEF IInv, StatsInv, StatsType
      <3>2. Watches[u] = Watches[v] => Now(u) = Now(v)
        BY DEF Now
      <3> QED
        BY <2>1, <3>1, <3>2
    <2> QED
      BY <1>0, <2>1, <2>3, <2>4, StaysSettled
  <1>3. CASE ReadStored(v)
    BY <1>0, <1>3, SettledFacts, PollStaysSettled DEF ReadStored, PollGoto
  <1>4. CASE LookUpMount(v)
    BY <1>0, <1>4, PollStaysSettled DEF LookUpMount, AskFor
  <1> QED
    BY <1>1, <1>2, <1>3, <1>4 DEF StatsStep

LEMMA PageStepStaysSettled ==
    ASSUME IInv, Settled, NEW v \in Viewers, PageStep(v)
    PROVE  Settled'
  <1>0. page[v] \in PageRecord
    BY SettledFacts
  <1>1. CASE LoadStationDetail(v)
    <2> DEFINE p == [page[v] EXCEPT !.at = "recent", !.listeners = OrZero(stored[Watches[v]])]
    <2>1. p.listeners = OrZero(stored[Watches[v]])
      BY <1>0 DEF PageRecord
    <2>2. page' = [page EXCEPT ![v] = p] /\ UNCHANGED statsVars
      BY <1>1 DEF LoadStationDetail
    <2> HIDE DEF p
    <2> QED
      BY <2>1, <2>2, SettledFacts, PageStaysSettled DEF statsVars
  <1>2. CASE LoadRecentRows(v)
    <2>1. PICK top : page' = [page EXCEPT ![v].at = "open", ![v].recent = top,
                                         ![v].moment = Len(appended)]
      BY <1>2 DEF LoadRecentRows
    <2> DEFINE p == [page[v] EXCEPT !.at = "open", !.recent = top, !.moment = Len(appended)]
    <2>2. p.listeners = page[v].listeners
      BY <1>0 DEF PageRecord
    <2>3. page' = [page EXCEPT ![v] = p] /\ page[v].at = "recent" /\ UNCHANGED statsVars
      BY <1>2, <2>1 DEF LoadRecentRows
    <2> HIDE DEF p
    <2> QED
      BY <2>2, <2>3, SettledFacts, PageStaysSettled DEF statsVars
  <1>3. CASE RefreshStats(v)
    BY <1>3, PollStaysSettled DEF RefreshStats, Refresh, PollGoto
  <1>4. CASE ShowListeners(v)
    <2> DEFINE p == [page[v] EXCEPT !.listeners = poll[v].value]
    <2>1. p.listeners = poll[v].value
      BY <1>0 DEF PageRecord
    <2>2. page' = [page EXCEPT ![v] = p] /\ poll[v].at = "answer"
          /\ poll' = [poll EXCEPT ![v] = Quiet] /\ UNCHANGED <<icecast, stored>>
      BY <1>4 DEF ShowListeners
    <2> HIDE DEF p
    <2> QED
      BY <2>1, <2>2, SettledFacts, PageStaysSettled
  <1> QED
    BY <1>1, <1>2, <1>3, <1>4 DEF PageStep

LEMMA OthersStaySettled ==
    ASSUME IInv, Settled, Environment \/ Leave \/ Stop, UNCHANGED icecast
    PROVE  Settled'
  <1>0. Quiet.at = "idle" /\ Closed.at = "closed"
    BY DEF Quiet, Closed
  <1>1. CASE UNCHANGED <<stored, poll, page>>
    BY <1>1, StaysSettled
  <1>2. CASE Environment
    BY <1>1, <1>2 DEF Environment, SourceChanges, Outage, TrackStarted, statsVars
  <1>3. CASE Leave
    <2>1. ASSUME NEW v \in Viewers, PollEnds(v), UNCHANGED page
          PROVE  Settled'
      BY <1>0, <2>1, PollStaysSettled DEF PollEnds
    <2>2. ASSUME NEW v \in Viewers, page' = [page EXCEPT ![v] = Closed],
                 poll' = [poll EXCEPT ![v] = Quiet], UNCHANGED stored
          PROVE  Settled'
      BY <1>0, <2>2, PageStaysSettled
    <2> QED
      BY <1>1, <1>3, <2>1, <2>2 DEF Leave, statsVars
  <1>4. CASE Stop
    <2>1. \A v \in Viewers : poll'[v] = Quiet /\ page'[v] \in {page[v], Closed}
      BY <1>4 DEF Stop
    <2>2. UNCHANGED stored
      BY <1>4 DEF Stop
    <2> QED
      BY <1>0, <2>1, <2>2, StaysSettled
  <1> QED
    BY <1>2, <1>3, <1>4

LEMMA NextStaysSettled ==
    ASSUME IInv, Settled, [Next]_vars, UNCHANGED icecast, ~StatementFails
    PROVE  Settled'
  <1>1. CASE UNCHANGED <<stored, poll, page>>
    BY <1>1, StaysSettled
  <1>2. ASSUME NEW n \in Notifiers, NotifyStep(n)
        PROVE  Settled'
    BY <1>1, <1>2 DEF NotifyStep, statsVars
  <1>3. ASSUME NEW v \in Viewers, OpenPage(v)
        PROVE  Settled'
    <2> DEFINE p == [page[v] EXCEPT !.at = "detail"]
    <2>1. p.at = "detail"
      BY SettledFacts DEF PageRecord
    <2>2. page' = [page EXCEPT ![v] = p] /\ UNCHANGED statsVars
      BY <1>3 DEF OpenPage
    <2> HIDE DEF p
    <2> QED
      BY <2>1, <2>2, PageStaysSettled DEF statsVars
  <1>4. CASE UNCHANGED vars
    BY <1>1, <1>4 DEF vars, statsVars
  <1> QED
    BY <1>2, <1>3, <1>4, OthersStaySettled, StatsStepStaysSettled, PageStepStaysSettled DEF Next

-----------------------------------------------------------------------------
(* Theorems.                                                               *)

\* Tables, requests and pages hold values the program gives them.
THEOREM StationTypeCorrect == Spec => []TypeOK
  <1>1. IInv => TypeOK
    BY DEF IInv, RecentInv, RecentType, StatsInv, StatsType, PollRecord, PageInv, PageRecord, TypeOK
  <1> QED
    BY <1>1, IInvHolds, PTL

\* A page shows the newest of all tracks its station ever started, whatever
\* pruning deleted between any two statements.
THEOREM PageIsNewest == Spec => []PageShowsNewest
  <1>1. IInv => PageShowsNewest
    BY DEF IInv, PageInv, Truthful, PageShowsNewest
  <1> QED
    BY <1>1, IInvHolds, PTL

\* A stored number of listeners is one Icecast had for that station's mount or, only
\* if a lookup of the mount has failed, for its default mount.
THEOREM CountsAreReported == Spec => []CountWasReported
  <1>1. IInv => CountWasReported
    BY DEF IInv, StatsInv, Reported, CountWasReported
  <1> QED
    BY <1>1, IInvHolds, PTL

\* Once what is stored, on its way and shown is Icecast's number, and no request is on
\* its way to another mount, it stays so, through outages, restarts and any order of overlapping requests, until a source changes or
\* a statement fails.
THEOREM SettledIsStable == Spec => SettledStays
  <1>1. IInv /\ [Next]_vars => [Settled /\ UNCHANGED icecast /\ ~StatementFails => Settled']_vars
    BY NextStaysSettled
  <1> QED
    BY <1>1, IInvHolds, PTL DEF Spec, SettledStays

=============================================================================
