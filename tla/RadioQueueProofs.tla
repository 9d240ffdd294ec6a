-------------------------- MODULE RadioQueueProofs --------------------------
(***************************************************************************)
(* Theorems about RadioQueue, for all stations, playlists and requests.    *)
(*                                                                         *)
(* next_import_item acts on what it read some statements ago.  Local(w)    *)
(* says which locks a request holds at each of its statements, and that    *)
(* what it read is still in the tables: who commits is the only reader     *)
(* left, so nobody who has read anything is there to be disturbed.         *)
(***************************************************************************)
EXTENDS RadioQueue, SequenceTheorems, TLAPS

CallRecords == [at : Phases, station : Stations \union {0}, count : Nat, position : Nat,
                video : Videos \union {""}, batch : Playlists \union {<< >>},
                shown : Seq(Nat), moment : Nat \X Nat]

Reading(w) == call[w].at \in {"position", "entry", "advance"}
Writing(w) == call[w].at \in {"commit", "exclusive", "announcing"}

\* The transaction that is about to advance the cursor.
Advancing(w) == call[w].at \in {"commit", "exclusive"} /\ call[w].batch = << >>

\* What was read is what is there.
Fresh(w) ==
    /\ Reading(w) \/ Advancing(w) =>
          QueueOf(w) # << >> /\ call[w].count = Len(QueueOf(w))
    /\ call[w].at \in {"entry", "advance"} \/ Advancing(w) =>
          call[w].position = cursor[call[w].station]
    /\ At(w, "advance") \/ Advancing(w) =>
          call[w].video = QueueOf(w)[call[w].position]

Local(w) ==
    /\ ~At(w, "idle") => call[w].station \in Stations
    /\ At(w, "clear") => call[w].batch # << >>
    /\ Reading(w) \/ Writing(w) => w \in readers
    /\ Writing(w) => writer = {w}
    /\ Fresh(w)

CursorOK ==
    \A s \in Stations : queue[s] # << >> => cursor[s] \in 1..Len(queue[s])

IInv == TypeOK /\ CursorOK /\ \A w \in Callers : Local(w)

-----------------------------------------------------------------------------

LEMMA PlaylistFacts ==
    ASSUME NEW q \in Playlists
    PROVE  /\ q # << >> /\ Len(q) \in Nat \ {0} /\ DOMAIN q = 1..Len(q)
           /\ \A i \in 1..Len(q) : q[i] \in Videos
  <1>1. q \in Seq(Videos) /\ q # << >>
    BY PlaylistsAssumption
  <1>2. q \in [1..Len(q) -> Videos] /\ Len(q) \in Nat /\ DOMAIN q = 1..Len(q)
    BY <1>1, LenProperties
  <1>3. Len(q) # 0
    BY <1>1, EmptySeq
  <1> QED
    BY <1>1, <1>2, <1>3

LEMMA CallUpdate ==
    ASSUME TypeOK, NEW w \in Callers, NEW c \in CallRecords, call' = [call EXCEPT ![w] = c]
    PROVE  /\ call' \in [Callers -> CallRecords]
           /\ call'[w] = c /\ \A v \in Callers \ {w} : call'[v] = call[v]
  BY DEF TypeOK, CallRecords

LEMMA GotoFacts ==
    ASSUME TypeOK, NEW w \in Callers, NEW p \in Phases, Goto(w, p)
    PROVE  /\ call' \in [Callers -> CallRecords]
           /\ call'[w].at = p
           /\ call'[w].station = call[w].station /\ call'[w].count = call[w].count
           /\ call'[w].position = call[w].position /\ call'[w].video = call[w].video
           /\ call'[w].batch = call[w].batch
           /\ \A v \in Callers \ {w} : call'[v] = call[v]
  <1> DEFINE c == [call[w] EXCEPT !.at = p]
  <1>1. call[w] \in CallRecords
    BY DEF TypeOK, CallRecords
  <1>2. /\ c \in CallRecords /\ c.at = p /\ c.station = call[w].station /\ c.count = call[w].count
        /\ c.position = call[w].position /\ c.video = call[w].video /\ c.batch = call[w].batch
    BY <1>1 DEF CallRecords
  <1>3. call' = [call EXCEPT ![w] = c]
    BY DEF Goto
  <1> HIDE DEF c
  <1> QED
    BY <1>2, <1>3, CallUpdate

LEMMA IdleFacts == Idle \in CallRecords /\ Idle.at = "idle" /\ Idle.batch = << >>
  <1>1. << >> \in Seq(Nat)
    BY EmptySeq
  <1> QED
    BY <1>1 DEF Idle, CallRecords, Phases

-----------------------------------------------------------------------------

\* What a step of w may do to the locks.
LockMove(w) ==
    \/ UNCHANGED locks
    \/ Share(w)
    \/ CanWrite(w) /\ readers' = readers \union {w} /\ writer' = {w} /\ pending' \in BOOLEAN
    \/ UNCHANGED <<readers, writer>> /\ pending' = TRUE
    \/ Release(w)

\* It takes no lock away from another request.
LEMMA LockFacts ==
    ASSUME TypeOK, NEW w \in Callers, LockMove(w)
    PROVE  /\ readers' \subseteq Callers /\ writer' \subseteq readers' /\ pending' \in BOOLEAN
           /\ \A v \in Callers \ {w} : /\ v \in readers => v \in readers'
                                       /\ writer = {v} => writer' = {v}
  <1> USE DEF TypeOK
  <1>1. CASE UNCHANGED locks
    BY <1>1 DEF locks
  <1>2. CASE Share(w)
    BY <1>2 DEF Share
  <1>3. CASE CanWrite(w) /\ readers' = readers \union {w} /\ writer' = {w} /\ pending' \in BOOLEAN
    BY <1>3 DEF CanWrite
  <1>4. CASE UNCHANGED <<readers, writer>> /\ pending' = TRUE
    BY <1>4
  <1>5. CASE Release(w)
    BY <1>5 DEF Release
  <1> QED
    BY <1>1, <1>2, <1>3, <1>4, <1>5 DEF LockMove

\* While w moves, what the others hold and know stays: the tables are as they
\* were, or w is the only reader and the others have read nothing.
LEMMA OthersKeep ==
    ASSUME IInv, NEW w \in Callers, NEW v \in Callers \ {w}, LockMove(w), call'[v] = call[v],
           UNCHANGED <<queue, cursor>> \/ readers = {w}
    PROVE  Local(v)'
  <1>1. /\ v \in readers => v \in readers'
        /\ writer = {v} => writer' = {v}
    BY LockFacts DEF IInv
  <1>2. Local(v)
    BY DEF IInv
  <1>3. CASE UNCHANGED <<queue, cursor>>
    BY <1>1, <1>2, <1>3 DEF Local, Fresh, Reading, Writing, Advancing, QueueOf, At
  <1>4. CASE readers = {w}
    <2>1. ~Reading(v) /\ ~Writing(v) /\ ~Advancing(v)
      BY <1>2, <1>4 DEF Local, Writing, Advancing
    <2> QED
      BY <1>2, <2>1 DEF Local, Fresh, Reading, Writing, Advancing, At
  <1> QED
    BY <1>3, <1>4

\* A step that leaves the tables alone: enough to look at the request itself.
LEMMA QuietKeeps ==
    ASSUME IInv, NEW w \in Callers, LockMove(w), UNCHANGED tables,
           call' \in [Callers -> CallRecords], \A v \in Callers \ {w} : call'[v] = call[v],
           Local(w)'
    PROVE  IInv'
  <1>1. TypeOK'
    <2>1. readers' \subseteq Callers /\ writer' \subseteq readers' /\ pending' \in BOOLEAN
      BY LockFacts DEF IInv
    <2> QED
      BY <2>1 DEF IInv, TypeOK, tables, CallRecords
  <1>2. CursorOK'
    BY DEF IInv, CursorOK, tables
  <1>3. \A v \in Callers \ {w} : Local(v)'
    BY OthersKeep DEF tables
  <1> QED
    BY <1>1, <1>2, <1>3 DEF IInv

\* A request that is answered, falls back, or waits without having read.
LEMMA LeavesKeeps ==
    ASSUME IInv, NEW w \in Callers, LockMove(w), UNCHANGED tables,
           NEW c \in CallRecords, call' = [call EXCEPT ![w] = c],
           c.at \in Phases \ {"position", "entry", "advance", "commit", "exclusive", "announcing"},
           c.at = "idle" \/ c.station \in Stations, c.at = "clear" => c.batch # << >>
    PROVE  IInv'
  <1>1. call' \in [Callers -> CallRecords] /\ call'[w] = c
        /\ \A v \in Callers \ {w} : call'[v] = call[v]
    BY CallUpdate DEF IInv
  <1>2. Local(w)'
    BY <1>1 DEF Local, Fresh, Reading, Writing, Advancing, At
  <1> QED
    BY <1>1, <1>2, QuietKeeps

LEMMA GotoLeaves ==
    ASSUME IInv, NEW w \in Callers, LockMove(w), UNCHANGED tables, ~At(w, "idle"),
           NEW p \in {"fallback", "announce"}, Goto(w, p)
    PROVE  IInv'
  <1>1. p \in Phases
    BY DEF Phases
  <1>2. /\ call' \in [Callers -> CallRecords] /\ call'[w].at = p
        /\ call'[w].station = call[w].station /\ \A v \in Callers \ {w} : call'[v] = call[v]
    BY <1>1, GotoFacts DEF IInv
  <1>3. call[w].station \in Stations
    BY DEF IInv, Local
  <1>4. Local(w)'
    BY <1>2, <1>3 DEF Local, Fresh, Reading, Writing, Advancing, At
  <1> QED
    BY <1>2, <1>4, QuietKeeps

LEMMA GoesIdle ==
    ASSUME IInv, NEW w \in Callers, LockMove(w), UNCHANGED tables,
           call' = [call EXCEPT ![w] = Idle]
    PROVE  IInv'
  <1>1. Idle.at \in Phases \ {"position", "entry", "advance", "commit", "exclusive", "announcing"}
    BY IdleFacts DEF Phases
  <1> QED
    BY <1>1, IdleFacts, LeavesKeeps

-----------------------------------------------------------------------------
(* One lemma per action.                                                   *)

LEMMA RequestKeeps ==
    ASSUME IInv, NEW w \in Callers, NEW s \in Stations, NEW p \in {"count", "where", "announce"},
           Request(w, s, p)
    PROVE  IInv'
  <1> DEFINE c == [Idle EXCEPT !.at = p, !.station = s]
  <1>1. c \in CallRecords /\ c.at = p /\ c.station = s
    BY IdleFacts DEF CallRecords, Phases, Idle
  <1>2. call' = [call EXCEPT ![w] = c] /\ UNCHANGED tables /\ LockMove(w)
    BY DEF Request, LockMove
  <1> HIDE DEF c
  <1> QED
    BY <1>1, <1>2, LeavesKeeps DEF Phases

LEMMA RequestImportKeeps ==
    ASSUME IInv, NEW w \in Callers, NEW s \in Stations, NEW q \in Playlists,
           RequestImport(w, s, q)
    PROVE  IInv'
  <1> DEFINE c == [Idle EXCEPT !.at = "clear", !.station = s, !.batch = q]
  <1>1. c \in CallRecords /\ c.at = "clear" /\ c.station = s /\ c.batch # << >>
    BY IdleFacts, PlaylistFacts DEF CallRecords, Phases, Idle
  <1>2. call' = [call EXCEPT ![w] = c] /\ UNCHANGED tables /\ LockMove(w)
    BY DEF RequestImport, LockMove
  <1> HIDE DEF c
  <1> QED
    BY <1>1, <1>2, LeavesKeeps DEF Phases

LEMMA CountKeeps == ASSUME IInv, NEW w \in Callers, Count(w) PROVE IInv'
  <1>1. call[w] \in CallRecords /\ call[w].station \in Stations /\ At(w, "count")
        /\ UNCHANGED tables
    BY DEF Count, IInv, TypeOK, CallRecords, Local, At
  <1>2. CASE QueueOf(w) = << >>
    <2>1. LockMove(w) /\ Goto(w, "fallback") /\ ~At(w, "idle")
      BY <1>1, <1>2 DEF Count, LockMove, At
    <2> QED
      BY <1>1, <2>1, GotoLeaves
  <1>3. CASE QueueOf(w) # << >>
    <2> DEFINE c == [call[w] EXCEPT !.at = "position", !.count = Len(QueueOf(w))]
    <2>1. QueueOf(w) \in Playlists
      BY <1>1, <1>3 DEF IInv, TypeOK, QueueOf
    <2>2. Len(QueueOf(w)) \in Nat
      BY <2>1, PlaylistFacts
    <2>3. /\ c \in CallRecords /\ c.at = "position" /\ c.station = call[w].station
          /\ c.count = Len(QueueOf(w))
      BY <1>1, <2>2 DEF CallRecords, Phases
    <2>4. call' = [call EXCEPT ![w] = c] /\ Share(w) /\ LockMove(w)
      BY <1>3 DEF Count, LockMove
    <2> HIDE DEF c
    <2>5. call' \in [Callers -> CallRecords] /\ call'[w] = c
          /\ \A v \in Callers \ {w} : call'[v] = call[v]
      BY <2>3, <2>4, CallUpdate DEF IInv
    <2>6. QueueOf(w)' = QueueOf(w)
      BY <1>1, <2>3, <2>5 DEF QueueOf, tables
    <2>7. w \in readers'
      BY <2>4 DEF Share
    <2>8. Local(w)'
      BY <1>1, <1>3, <2>3, <2>5, <2>6, <2>7 DEF Local, Fresh, Reading, Writing, Advancing, At
    <2> QED
      BY <1>1, <2>4, <2>5, <2>8, QuietKeeps
  <1> QED
    BY <1>2, <1>3

LEMMA ReadCursorKeeps == ASSUME IInv, NEW w \in Callers, ReadCursor(w) PROVE IInv'
  <1> DEFINE p == cursor[call[w].station]
             c == [call[w] EXCEPT !.at = "entry", !.position = p]
  <1>1. /\ call[w] \in CallRecords /\ call[w].station \in Stations
        /\ UNCHANGED tables /\ UNCHANGED locks /\ call[w].at = "position"
        /\ w \in readers /\ QueueOf(w) # << >> /\ call[w].count = Len(QueueOf(w))
    BY DEF ReadCursor, IInv, TypeOK, CallRecords, Local, At, Reading, Fresh
  <1>2. p \in 1..Len(QueueOf(w)) /\ Len(QueueOf(w)) \in Nat
    <2>1. QueueOf(w) \in Playlists
      BY <1>1 DEF IInv, TypeOK, QueueOf
    <2> QED
      BY <1>1, <2>1, PlaylistFacts DEF IInv, CursorOK, QueueOf
  <1>3. Clamp(p, call[w].count) = p
    BY <1>1, <1>2 DEF Clamp
  <1>4. call' = [call EXCEPT ![w] = c] /\ LockMove(w)
    BY <1>1, <1>3 DEF ReadCursor, LockMove
  <1>5. /\ c \in CallRecords /\ c.at = "entry" /\ c.station = call[w].station
        /\ c.position = p /\ c.count = call[w].count
    <2>1. p \in Nat
      BY <1>2
    <2> HIDE DEF p
    <2> QED
      BY <1>1, <2>1 DEF CallRecords, Phases
  <1> HIDE DEF c
  <1>6. call' \in [Callers -> CallRecords] /\ call'[w] = c
        /\ \A v \in Callers \ {w} : call'[v] = call[v]
    BY <1>4, <1>5, CallUpdate DEF IInv
  <1>7. QueueOf(w)' = QueueOf(w) /\ cursor' = cursor /\ w \in readers'
    BY <1>1, <1>5, <1>6 DEF QueueOf, tables, locks
  <1>8. Local(w)'
    BY <1>1, <1>5, <1>6, <1>7 DEF Local, Fresh, Reading, Writing, Advancing, At
  <1> QED
    BY <1>1, <1>4, <1>6, <1>8, QuietKeeps

LEMMA ReadEntryKeeps == ASSUME IInv, NEW w \in Callers, ReadEntry(w) PROVE IInv'
  <1> DEFINE v == QueueOf(w)[call[w].position]
             c == [call[w] EXCEPT !.at = "advance", !.video = v]
  <1>1. /\ call[w] \in CallRecords /\ call[w].station \in Stations
        /\ UNCHANGED tables /\ call[w].at = "entry"
        /\ w \in readers /\ QueueOf(w) # << >> /\ call[w].count = Len(QueueOf(w))
        /\ call[w].position = cursor[call[w].station]
    BY DEF ReadEntry, IInv, TypeOK, CallRecords, Local, At, Reading, Fresh
  <1>2. CASE call[w].position \notin DOMAIN QueueOf(w)
    <2>1. LockMove(w) /\ Goto(w, "fallback") /\ ~At(w, "idle")
      BY <1>1, <1>2 DEF ReadEntry, LockMove, At
    <2> QED
      BY <1>1, <2>1, GotoLeaves
  <1>3. CASE call[w].position \in DOMAIN QueueOf(w)
    <2>1. QueueOf(w) \in Playlists
      BY <1>1 DEF IInv, TypeOK, QueueOf
    <2>2. v \in Videos
      BY <1>3, <2>1, PlaylistFacts
    <2>3. call' = [call EXCEPT ![w] = c] /\ UNCHANGED locks /\ LockMove(w)
      BY <1>3 DEF ReadEntry, LockMove
    <2>4. /\ c \in CallRecords /\ c.at = "advance" /\ c.station = call[w].station
          /\ c.position = call[w].position /\ c.count = call[w].count /\ c.video = v
      BY <1>1, <2>2 DEF CallRecords, Phases
    <2> HIDE DEF c
    <2>5. call' \in [Callers -> CallRecords] /\ call'[w] = c
          /\ \A u \in Callers \ {w} : call'[u] = call[u]
      BY <2>3, <2>4, CallUpdate DEF IInv
    <2>6. QueueOf(w)' = QueueOf(w) /\ cursor' = cursor /\ w \in readers'
      BY <1>1, <2>3, <2>4, <2>5 DEF QueueOf, tables, locks
    <2>7. Local(w)'
      BY <1>1, <2>4, <2>5, <2>6 DEF Local, Fresh, Reading, Writing, Advancing, At
    <2> QED
      BY <1>1, <2>3, <2>5, <2>7, QuietKeeps
  <1> QED
    BY <1>2, <1>3

LEMMA AdvanceKeeps == ASSUME IInv, NEW w \in Callers, Advance(w) PROVE IInv'
  <1>1. call[w].station \in Stations /\ UNCHANGED tables /\ call[w].at = "advance" /\ Fresh(w)
    BY DEF Advance, IInv, Local, At
  <1>2. CASE ~CanWrite(w)
    <2>1. LockMove(w) /\ Goto(w, "fallback") /\ ~At(w, "idle")
      BY <1>1, <1>2 DEF Advance, LockMove, At
    <2> QED
      BY <1>1, <2>1, GotoLeaves
  <1>3. CASE CanWrite(w)
    <2>1. Goto(w, "commit") /\ Reserve(w) /\ "commit" \in Phases
      BY <1>3 DEF Advance, Phases
    <2>2. LockMove(w) /\ w \in readers' /\ writer' = {w}
      BY <1>3, <2>1 DEF LockMove, Reserve, IInv, TypeOK
    <2>3. /\ call' \in [Callers -> CallRecords] /\ call'[w].at = "commit"
          /\ call'[w].station = call[w].station /\ call'[w].count = call[w].count
          /\ call'[w].position = call[w].position /\ call'[w].video = call[w].video
          /\ \A v \in Callers \ {w} : call'[v] = call[v]
      BY <2>1, GotoFacts DEF IInv
    <2>4. QueueOf(w)' = QueueOf(w) /\ cursor' = cursor
      BY <1>1, <2>3 DEF QueueOf, tables
    <2>5. Fresh(w)'
      BY <1>1, <2>3, <2>4 DEF Fresh, Reading, Advancing, At
    <2>6. Local(w)'
      BY <1>1, <2>2, <2>3, <2>5 DEF Local, Reading, Writing, At
    <2> QED
      BY <1>1, <2>2, <2>3, <2>6, QuietKeeps
  <1> QED
    BY <1>2, <1>3

LEMMA ClearKeeps == ASSUME IInv, NEW w \in Callers, Clear(w) PROVE IInv'
  <1>1. call[w].station \in Stations /\ UNCHANGED tables /\ call[w].at = "clear"
        /\ Goto(w, "commit") /\ Reserve(w) /\ CanWrite(w) /\ "commit" \in Phases
    BY DEF Clear, IInv, Local, At, Phases
  <1>2. LockMove(w) /\ w \in readers' /\ writer' = {w}
    BY <1>1 DEF LockMove, Reserve, IInv, TypeOK
  <1>3. /\ call' \in [Callers -> CallRecords] /\ call'[w].at = "commit"
        /\ call'[w].station = call[w].station /\ call'[w].batch = call[w].batch
        /\ \A v \in Callers \ {w} : call'[v] = call[v]
    BY <1>1, GotoFacts DEF IInv
  <1>4. call[w].batch # << >>
    BY <1>1 DEF IInv, Local, At
  <1>5. Local(w)'
    BY <1>1, <1>2, <1>3, <1>4 DEF Local, Fresh, Reading, Writing, Advancing, At
  <1> QED
    BY <1>1, <1>2, <1>3, <1>5, QuietKeeps

LEMMA BeginCommitKeeps == ASSUME IInv, NEW w \in Callers, BeginCommit(w) PROVE IInv'
  <1>1. Local(w) /\ UNCHANGED tables /\ call[w].at = "commit" /\ Goto(w, "exclusive")
        /\ UNCHANGED <<readers, writer>> /\ "exclusive" \in Phases
    BY DEF BeginCommit, IInv, At, Phases
  <1>2. LockMove(w)
    BY DEF BeginCommit, LockMove
  <1>3. /\ call' \in [Callers -> CallRecords] /\ call'[w].at = "exclusive"
        /\ call'[w].station = call[w].station /\ call'[w].count = call[w].count
        /\ call'[w].position = call[w].position /\ call'[w].video = call[w].video
        /\ call'[w].batch = call[w].batch
        /\ \A v \in Callers \ {w} : call'[v] = call[v]
    BY <1>1, GotoFacts DEF IInv
  <1>4. QueueOf(w)' = QueueOf(w) /\ cursor' = cursor
    BY <1>1, <1>3 DEF QueueOf, tables
  <1>5. Fresh(w)'
    BY <1>1, <1>3, <1>4 DEF Local, Fresh, Reading, Advancing, At
  <1>6. Local(w)'
    BY <1>1, <1>3, <1>5 DEF Local, Reading, Writing, At
  <1> QED
    BY <1>1, <1>2, <1>3, <1>6, QuietKeeps

\* What the transaction that advances the cursor writes.
LEMMA AdvanceFacts ==
    ASSUME IInv, NEW w \in Callers, CommitAdvance(w), NEW s, s = call[w].station
    PROVE  /\ s \in Stations /\ queue[s] \in Playlists
           /\ cursor[s] \in 1..Len(queue[s]) /\ Len(queue[s]) \in Nat \ {0}
           /\ Entry(cursor[s], queue[s][cursor[s]]) \in [position : Nat, video : Videos]
           /\ cursor' = [cursor EXCEPT ![s] = Following(cursor[s], Len(queue[s]))]
           /\ served' = [served EXCEPT ![s] = Append(@, Entry(cursor[s], queue[s][cursor[s]]))]
           /\ Following(cursor[s], Len(queue[s])) \in 1..Len(queue[s])
  <1>1. /\ s \in Stations /\ queue[s] # << >> /\ call[w].count = Len(queue[s])
        /\ call[w].position = cursor[s] /\ call[w].video = queue[s][cursor[s]]
    BY DEF CommitAdvance, IInv, Local, Fresh, Advancing, QueueOf, At
  <1>2. queue[s] \in Playlists
    BY <1>1 DEF IInv, TypeOK
  <1>3. cursor[s] \in 1..Len(queue[s]) /\ Len(queue[s]) \in Nat \ {0}
    BY <1>1, <1>2, PlaylistFacts DEF IInv, CursorOK
  <1>4. Entry(cursor[s], queue[s][cursor[s]]) \in [position : Nat, video : Videos]
    BY <1>2, <1>3, PlaylistFacts DEF Entry
  <1>5. Following(cursor[s], Len(queue[s])) \in 1..Len(queue[s])
    BY <1>3 DEF Following
  <1>6. /\ cursor' = [cursor EXCEPT ![s] = Following(cursor[s], Len(queue[s]))]
        /\ served' = [served EXCEPT ![s] = Append(@, Entry(cursor[s], queue[s][cursor[s]]))]
    BY <1>1 DEF CommitAdvance
  <1> QED
    BY <1>1, <1>2, <1>3, <1>4, <1>5, <1>6

LEMMA CommitAdvanceKeeps == ASSUME IInv, NEW w \in Callers, CommitAdvance(w) PROVE IInv'
  <1>1. PICK s \in Stations : s = call[w].station
    BY DEF CommitAdvance, IInv, Local, At
  <1> DEFINE e == Entry(cursor[s], queue[s][cursor[s]])
             f == Following(cursor[s], Len(queue[s]))
  <1>2. /\ cursor[s] \in 1..Len(queue[s]) /\ Len(queue[s]) \in Nat \ {0}
        /\ e \in [position : Nat, video : Videos] /\ f \in 1..Len(queue[s])
        /\ cursor' = [cursor EXCEPT ![s] = f]
        /\ served' = [served EXCEPT ![s] = Append(@, e)]
    BY <1>1, AdvanceFacts
  <1> HIDE DEF e, f
  <1>3. /\ UNCHANGED <<queue, imports>> /\ readers = {w} /\ Release(w) /\ LockMove(w)
        /\ Goto(w, "announce") /\ "announce" \in Phases
    BY DEF CommitAdvance, LockMove, Phases
  <1>4. /\ call' \in [Callers -> CallRecords] /\ call'[w].at = "announce"
        /\ call'[w].station = s /\ \A v \in Callers \ {w} : call'[v] = call[v]
    BY <1>1, <1>3, GotoFacts DEF IInv
  <1>5. cursor' \in [Stations -> Nat \ {0}]
    <2>1. cursor \in [Stations -> Nat \ {0}]
      BY DEF IInv, TypeOK
    <2>2. f \in Nat \ {0}
      BY <1>2
    <2> QED
      BY <1>2, <2>1, <2>2
  <1>6. served' \in [Stations -> Seq([position : Nat, video : Videos])]
    <2>1. served \in [Stations -> Seq([position : Nat, video : Videos])]
      BY DEF IInv, TypeOK
    <2>2. Append(served[s], e) \in Seq([position : Nat, video : Videos])
      BY <1>2, <2>1, AppendProperties
    <2> QED
      BY <1>2, <2>1, <2>2
  <1>7. readers' \subseteq Callers /\ writer' \subseteq readers' /\ pending' \in BOOLEAN
    BY <1>3, LockFacts DEF IInv
  <1>8. TypeOK'
    BY <1>3, <1>4, <1>5, <1>6, <1>7 DEF IInv, TypeOK, CallRecords
  <1>9. CursorOK'
    BY <1>2, <1>3 DEF IInv, CursorOK, TypeOK
  <1>10. Local(w)'
    BY <1>4 DEF Local, Fresh, Reading, Writing, Advancing, At
  <1>11. \A v \in Callers \ {w} : Local(v)'
    BY <1>3, <1>4, OthersKeep
  <1> QED
    BY <1>8, <1>9, <1>10, <1>11 DEF IInv

LEMMA CommitImportKeeps == ASSUME IInv, NEW w \in Callers, CommitImport(w) PROVE IInv'
  <1>1. PICK s \in Stations : s = call[w].station
    BY DEF CommitImport, IInv, Local, At
  <1>2. PICK q \in Playlists : q = call[w].batch
    BY DEF CommitImport, IInv, TypeOK
  <1>3. /\ queue' = [queue EXCEPT ![s] = q] /\ cursor' = [cursor EXCEPT ![s] = 1]
        /\ served' = [served EXCEPT ![s] = << >>] /\ imports' = [imports EXCEPT ![s] = @ + 1]
        /\ call' = [call EXCEPT ![w] = Idle] /\ readers = {w} /\ Release(w) /\ LockMove(w)
    BY <1>1, <1>2 DEF CommitImport, LockMove
  <1>4. /\ call' \in [Callers -> CallRecords] /\ call'[w] = Idle
        /\ \A v \in Callers \ {w} : call'[v] = call[v]
    BY <1>3, IdleFacts, CallUpdate DEF IInv
  <1>5. queue' \in [Stations -> Playlists \union {<< >>}] /\ queue'[s] = q
        /\ \A t \in Stations \ {s} : queue'[t] = queue[t]
    BY <1>3 DEF IInv, TypeOK
  <1>6. cursor' \in [Stations -> Nat \ {0}] /\ cursor'[s] = 1
        /\ \A t \in Stations \ {s} : cursor'[t] = cursor[t]
    <2>1. cursor \in [Stations -> Nat \ {0}]
      BY DEF IInv, TypeOK
    <2> QED
      BY <1>3, <2>1
  <1>7. served' \in [Stations -> Seq([position : Nat, video : Videos])]
    BY <1>3, EmptySeq DEF IInv, TypeOK
  <1>8. imports' \in [Stations -> Nat]
    <2>1. imports \in [Stations -> Nat]
      BY DEF IInv, TypeOK
    <2> QED
      BY <1>3, <2>1
  <1>9. readers' \subseteq Callers /\ writer' \subseteq readers' /\ pending' \in BOOLEAN
    BY <1>3, LockFacts DEF IInv
  <1>10. TypeOK'
    BY <1>4, <1>5, <1>6, <1>7, <1>8, <1>9 DEF TypeOK, CallRecords
  <1>11. CursorOK'
    <2>1. 1 \in 1..Len(q)
      BY PlaylistFacts
    <2>2. ASSUME NEW t \in Stations, queue'[t] # << >>
          PROVE  cursor'[t] \in 1..Len(queue'[t])
      BY <1>5, <1>6, <2>1, <2>2 DEF IInv, CursorOK
    <2> QED
      BY <2>2 DEF CursorOK
  <1>12. Local(w)'
    BY <1>4, IdleFacts DEF Local, Fresh, Reading, Writing, Advancing, At
  <1>13. \A v \in Callers \ {w} : Local(v)'
    BY <1>3, <1>4, OthersKeep
  <1> QED
    BY <1>10, <1>11, <1>12, <1>13 DEF IInv

LEMMA AnnounceKeeps == ASSUME IInv, NEW w \in Callers, Announce(w) PROVE IInv'
  <1>1. call[w].station \in Stations /\ UNCHANGED tables /\ Goto(w, "announcing")
        /\ CanWrite(w) /\ readers' = readers \union {w} /\ writer' = {w} /\ pending' = TRUE
        /\ "announcing" \in Phases
    BY DEF Announce, IInv, Local, At, Phases
  <1>2. LockMove(w)
    BY <1>1 DEF LockMove
  <1>3. /\ call' \in [Callers -> CallRecords] /\ call'[w].at = "announcing"
        /\ call'[w].station = call[w].station /\ \A v \in Callers \ {w} : call'[v] = call[v]
    BY <1>1, GotoFacts DEF IInv
  <1>4. Local(w)'
    BY <1>1, <1>3 DEF Local, Fresh, Reading, Writing, Advancing, At
  <1> QED
    BY <1>1, <1>2, <1>3, <1>4, QuietKeeps

LEMMA ReadWhereKeeps == ASSUME IInv, NEW w \in Callers, ReadWhere(w) PROVE IInv'
  <1> DEFINE s == call[w].station
             p == cursor[s]
             m == <<imports[s], Len(served[s])>>
             c == [call[w] EXCEPT !.at = "rows", !.position = p, !.moment = m]
  <1>1. call[w] \in CallRecords /\ s \in Stations
    BY DEF ReadWhere, IInv, TypeOK, CallRecords, Local, At
  <1>2. p \in Nat /\ m \in Nat \X Nat
    <2>1. imports[s] \in Nat /\ served[s] \in Seq([position : Nat, video : Videos])
          /\ cursor[s] \in Nat
      BY <1>1 DEF IInv, TypeOK
    <2> QED
      BY <2>1, LenProperties
  <1>3. call' = [call EXCEPT ![w] = c] /\ UNCHANGED tables /\ LockMove(w)
    BY DEF ReadWhere, LockMove
  <1> HIDE DEF p, m
  <1>4. c \in CallRecords /\ c.at = "rows" /\ c.station = s
    BY <1>1, <1>2 DEF CallRecords, Phases
  <1> HIDE DEF c
  <1> QED
    BY <1>1, <1>3, <1>4, LeavesKeeps DEF Phases

LEMMA UpNextType ==
    ASSUME NEW q \in Playlists \union {<< >>}, NEW p \in Nat
    PROVE  UpNext(q, p) \in Seq(Nat)
  <1> DEFINE start == IF p \in DOMAIN q THEN p ELSE 1
             size  == IF Len(q) < Limit THEN Len(q) ELSE Limit
  <1>1. Len(q) \in Nat /\ DOMAIN q = 1..Len(q)
    BY PlaylistFacts, LenProperties, EmptySeq
  <1>2. size \in Nat /\ start \in Nat \ {0}
    BY <1>1, LimitAssumption
  <1> HIDE DEF start, size
  <1>3. [i \in 1..size |-> IF start + i - 1 > Len(q) THEN start + i - 1 - Len(q) ELSE start + i - 1]
           \in [1..size -> Nat]
    BY <1>1, <1>2
  <1>4. UpNext(q, p) \in [1..size -> Nat]
    BY <1>3 DEF UpNext, start, size
  <1> QED
    BY <1>2, <1>4, SeqDef

LEMMA ReadRowsKeeps == ASSUME IInv, NEW w \in Callers, ReadRows(w) PROVE IInv'
  <1> DEFINE l == UpNext(QueueOf(w), call[w].position)
             c == [call[w] EXCEPT !.at = "shown", !.shown = l]
  <1>1. call[w] \in CallRecords /\ call[w].station \in Stations
    BY DEF ReadRows, IInv, TypeOK, CallRecords, Local, At
  <1>2. l \in Seq(Nat)
    <2>1. QueueOf(w) \in Playlists \union {<< >>} /\ call[w].position \in Nat
      BY <1>1 DEF IInv, TypeOK, QueueOf, CallRecords
    <2> QED
      BY <2>1, UpNextType
  <1>3. call' = [call EXCEPT ![w] = c] /\ UNCHANGED tables /\ LockMove(w)
    BY DEF ReadRows, LockMove
  <1> HIDE DEF l
  <1>4. c \in CallRecords /\ c.at = "shown" /\ c.station = call[w].station
    BY <1>1, <1>2 DEF CallRecords, Phases
  <1> HIDE DEF c
  <1> QED
    BY <1>1, <1>3, <1>4, LeavesKeeps DEF Phases

LEMMA TimesOutKeeps == ASSUME IInv, NEW w \in Callers, TimesOut(w) PROVE IInv'
  <1>1. LockMove(w) /\ UNCHANGED tables /\ ~At(w, "idle")
    BY DEF TimesOut, Waits, LockMove, At
  <1>2. CASE call' = [call EXCEPT ![w] = Idle]
    BY <1>1, <1>2, GoesIdle
  <1>3. CASE Goto(w, "fallback")
    BY <1>1, <1>3, GotoLeaves
  <1> QED
    BY <1>2, <1>3 DEF TimesOut, Goto

-----------------------------------------------------------------------------
(* The inductive invariant.                                                *)

LEMMA InitEstablishes == ASSUME Init PROVE IInv
  <1>1. \A w \in Callers : call[w] = Idle
    BY DEF Init
  <1>2. call \in [Callers -> CallRecords]
    BY IdleFacts DEF Init
  <1>3. TypeOK
    <2>1. served \in [Stations -> Seq([position : Nat, video : Videos])]
      BY EmptySeq DEF Init
    <2>2. cursor \in [Stations -> Nat \ {0}] /\ imports \in [Stations -> Nat]
      BY DEF Init
    <2>3. queue \in [Stations -> Playlists \union {<< >>}]
          /\ readers \subseteq Callers /\ writer \subseteq readers /\ pending \in BOOLEAN
      BY DEF Init
    <2> QED
      BY <1>2, <2>1, <2>2, <2>3 DEF TypeOK, CallRecords
  <1>4. CursorOK
    BY PlaylistFacts DEF Init, CursorOK
  <1>5. ASSUME NEW w \in Callers PROVE Local(w)
    BY <1>1, IdleFacts DEF Local, Fresh, Reading, Writing, Advancing, At
  <1> QED
    BY <1>3, <1>4, <1>5 DEF IInv

LEMMA StepKeeps == ASSUME IInv, NEW w \in Callers, Step(w) PROVE IInv'
  <1>1. CASE Count(w)          BY <1>1, CountKeeps
  <1>2. CASE ReadCursor(w)     BY <1>2, ReadCursorKeeps
  <1>3. CASE ReadEntry(w)      BY <1>3, ReadEntryKeeps
  <1>4. CASE Advance(w)        BY <1>4, AdvanceKeeps
  <1>5. CASE Clear(w)          BY <1>5, ClearKeeps
  <1>6. CASE BeginCommit(w)    BY <1>6, BeginCommitKeeps
  <1>7. CASE CommitAdvance(w)  BY <1>7, CommitAdvanceKeeps
  <1>8. CASE CommitImport(w)   BY <1>8, CommitImportKeeps
  <1>9. CASE Announce(w)       BY <1>9, AnnounceKeeps
  <1>10. CASE ReadWhere(w)     BY <1>10, ReadWhereKeeps
  <1>11. CASE ReadRows(w)      BY <1>11, ReadRowsKeeps
  <1>12. CASE Announced(w) \/ Fallback(w) \/ Show(w)
    BY <1>12, GoesIdle DEF Announced, Fallback, Show, LockMove
  <1> QED
    BY <1>1, <1>2, <1>3, <1>4, <1>5, <1>6, <1>7, <1>8, <1>9, <1>10, <1>11, <1>12 DEF Step

LEMMA NextKeeps == ASSUME IInv, [Next]_vars PROVE IInv'
  <1>1. CASE UNCHANGED vars
    BY <1>1 DEF vars, IInv, TypeOK, CursorOK, Local, Fresh, Reading, Writing, Advancing, QueueOf, At
  <1>2. ASSUME NEW w \in Callers, NEW s \in Stations, NEW p \in {"count", "where", "announce"},
               Request(w, s, p)
        PROVE  IInv'
    BY <1>2, RequestKeeps
  <1>3. ASSUME NEW w \in Callers, NEW s \in Stations, NEW q \in Playlists, RequestImport(w, s, q)
        PROVE  IInv'
    BY <1>3, RequestImportKeeps
  <1>4. ASSUME NEW w \in Callers, Step(w) PROVE IInv'
    BY <1>4, StepKeeps
  <1>5. ASSUME NEW w \in Callers, TimesOut(w) PROVE IInv'
    BY <1>5, TimesOutKeeps
  <1>6. ASSUME NEW w \in Callers, Stop(w) PROVE IInv'
    BY <1>6, GoesIdle DEF Stop, LockMove
  <1> QED
    BY <1>1, <1>2, <1>3, <1>4, <1>5, <1>6 DEF Next, PageRequest

LEMMA IInvHolds == Spec => []IInv
  <1>1. Init => IInv
    BY InitEstablishes
  <1>2. IInv /\ [Next]_vars => IInv'
    BY NextKeeps
  <1> QED
    BY <1>1, <1>2, PTL DEF Spec

\* Tables, locks and requests always hold values the program gives them.
THEOREM RadioTypeCorrect == Spec => []TypeOK
  <1>1. IInv => TypeOK
    BY DEF IInv
  <1> QED
    BY <1>1, IInvHolds, PTL

-----------------------------------------------------------------------------
(* One atomic step per request.                                            *)

LEMMA CommitAdvanceServes ==
    ASSUME IInv, NEW w \in Callers, CommitAdvance(w)
    PROVE  Queue!Next
  <1>1. PICK s \in Stations : s = call[w].station
    BY DEF CommitAdvance, IInv, Local, At
  <1>2. /\ queue[s] \in Playlists
        /\ cursor' = [cursor EXCEPT ![s] = Following(cursor[s], Len(queue[s]))]
        /\ served' = [served EXCEPT ![s] = Append(@, Entry(cursor[s], queue[s][cursor[s]]))]
        /\ UNCHANGED queue
    BY <1>1, AdvanceFacts DEF CommitAdvance
  <1>3. Queue!Entry(queue[s], cursor[s]) = Entry(cursor[s], queue[s][cursor[s]])
    BY DEF Queue!Entry, Entry
  <1>4. Queue!Following(cursor[s], Len(queue[s])) = Following(cursor[s], Len(queue[s]))
    BY DEF Queue!Following, Following
  <1>5. queue[s] # << >>
    BY <1>2, PlaylistFacts
  <1>6. Queue!Serve(s)
    BY <1>2, <1>3, <1>4, <1>5 DEF Queue!Serve
  <1> QED
    BY <1>6 DEF Queue!Next

LEMMA CommitImportReplaces ==
    ASSUME IInv, NEW w \in Callers, CommitImport(w)
    PROVE  Queue!Next
  <1>1. PICK s \in Stations : s = call[w].station
    BY DEF CommitImport, IInv, Local, At
  <1>2. PICK q \in Playlists : q = call[w].batch
    BY DEF CommitImport, IInv, TypeOK
  <1>3. /\ queue' = [queue EXCEPT ![s] = q] /\ cursor' = [cursor EXCEPT ![s] = 1]
        /\ served' = [served EXCEPT ![s] = << >>]
    BY <1>1, <1>2 DEF CommitImport
  <1>4. queue'[s] = q /\ q # << >>
    BY <1>3, PlaylistFacts DEF IInv, TypeOK
  <1>5. Queue!Replace(s, queue'[s])
    BY <1>3, <1>4 DEF Queue!Replace
  <1> QED
    BY <1>5 DEF Queue!Next

\* Only the two commits write to the tables.
LEMMA OnlyCommitsWrite ==
    ASSUME [Next]_vars
    PROVE  \/ \E w \in Callers : CommitAdvance(w) \/ CommitImport(w)
           \/ UNCHANGED tables
  <1>1. ASSUME NEW w \in Callers, Step(w), ~CommitAdvance(w), ~CommitImport(w)
        PROVE  UNCHANGED tables
    BY <1>1 DEF Step, Count, ReadCursor, ReadEntry, Advance, Clear, BeginCommit, Announce,
                Announced, Fallback, ReadWhere, ReadRows, Show
  <1>2. UNCHANGED vars => UNCHANGED tables
    BY DEF vars, tables
  <1> QED
    BY <1>1, <1>2 DEF Next, Request, PageRequest, RequestImport, TimesOut, Stop

\* Requests that overlap, fail and stop anywhere implement the queue that
\* hands out one entry per atomic step.
THEOREM RotationImplemented == Spec => RotationRefinement
  <1>1. Init => Queue!Init
    <2> SUFFICES ASSUME Init PROVE Queue!Init
      OBVIOUS
    <2>1. Playlists \union {<< >>} \subseteq Seq(Videos)
      BY PlaylistsAssumption, EmptySeq
    <2> QED
      BY <2>1 DEF Init, Queue!Init
  <1>2. IInv /\ [Next]_vars => [Queue!Next]_(Queue!vars)
    <2> SUFFICES ASSUME IInv, [Next]_vars PROVE [Queue!Next]_(Queue!vars)
      OBVIOUS
    <2>1. CASE \E w \in Callers : CommitAdvance(w) \/ CommitImport(w)
      BY <2>1, CommitAdvanceServes, CommitImportReplaces
    <2>2. CASE UNCHANGED tables
      BY <2>2 DEF tables, Queue!vars
    <2> QED
      BY <2>1, <2>2, OnlyCommitsWrite
  <1> QED
    BY <1>1, <1>2, IInvHolds, PTL DEF Spec, RotationRefinement, Queue!Spec

-----------------------------------------------------------------------------
(* In turn.                                                                *)

\* The position after the i-th entry handed out by s.
After(s, i) ==
    IF i = 0 THEN 1
    ELSE IF served[s][i].position = Len(queue[s]) THEN 1 ELSE served[s][i].position + 1

StationInTurn(s) ==
    /\ \A i \in DOMAIN served[s] :
          served[s][i] = Entry(After(s, i - 1), queue[s][After(s, i - 1)])
    /\ cursor[s] = After(s, Len(served[s]))

LEMMA InTurnByStation ==
    InTurn <=> \A s \in {t \in Stations : queue[t] # << >>} : StationInTurn(s)
  BY DEF InTurn, StationInTurn, After

LEMMA CommitAdvanceInTurn ==
    ASSUME IInv, NEW w \in Callers, CommitAdvance(w), NEW s \in Stations, queue[s] # << >>,
           StationInTurn(s)
    PROVE  StationInTurn(s)'
  <1>1. UNCHANGED queue /\ served \in [Stations -> Seq([position : Nat, video : Videos])]
        /\ cursor \in [Stations -> Nat \ {0}]
    BY DEF CommitAdvance, IInv, TypeOK
  <1>2. CASE s # call[w].station
    <2>1. served'[s] = served[s] /\ cursor'[s] = cursor[s]
      BY <1>1, <1>2 DEF CommitAdvance
    <2> QED
      BY <1>1, <2>1 DEF StationInTurn, After
  <1>3. CASE s = call[w].station
    <2> DEFINE e == Entry(cursor[s], queue[s][cursor[s]])
               n == Len(queue[s])
    <2>0. PICK k \in Nat : k = Len(served[s])
      BY <1>1, LenProperties
    <2>1. /\ cursor[s] \in 1..n /\ n \in Nat \ {0} /\ e \in [position : Nat, video : Videos]
          /\ cursor' = [cursor EXCEPT ![s] = Following(cursor[s], n)]
          /\ served' = [served EXCEPT ![s] = Append(@, e)]
      BY <1>3, AdvanceFacts
    <2>2. e.position = cursor[s]
      BY DEF Entry
    <2> HIDE DEF e
    <2>3. served'[s] = Append(served[s], e) /\ cursor'[s] = Following(cursor[s], n)
      BY <1>1, <2>1
    <2>4. /\ k \in Nat /\ Len(served'[s]) = k + 1 /\ DOMAIN served'[s] = 1..(k + 1)
          /\ DOMAIN served[s] = 1..k /\ served'[s][k + 1] = e
          /\ \A i \in 1..k : served'[s][i] = served[s][i]
      <3>1. served[s] \in Seq([position : Nat, video : Videos])
        BY <1>1
      <3>2. k \in Nat /\ DOMAIN served[s] = 1..k
        BY <2>0, <3>1, LenProperties
      <3>3. /\ Append(served[s], e) \in Seq([position : Nat, video : Videos])
            /\ Len(Append(served[s], e)) = k + 1
            /\ Append(served[s], e)[k + 1] = e
            /\ \A i \in 1..k : Append(served[s], e)[i] = served[s][i]
        BY <2>0, <2>1, <3>1, <3>2, AppendProperties
      <3>4. DOMAIN Append(served[s], e) = 1..(k + 1)
        BY <3>3, LenProperties
      <3> QED
        BY <2>3, <3>2, <3>3, <3>4
    <2>5. After(s, k + 1)' = Following(cursor[s], n)
      BY <1>1, <2>1, <2>2, <2>4 DEF After, Following
    <2>6. \A i \in 0..k : After(s, i)' = After(s, i)
      BY <1>1, <2>4 DEF After
    <2>7. ASSUME NEW i \in 1..(k + 1)
          PROVE  served'[s][i] = Entry(After(s, i - 1)', queue[s][After(s, i - 1)'])
      <3>1. i - 1 \in 0..k /\ After(s, i - 1)' = After(s, i - 1)
        BY <2>4, <2>6
      <3>2. CASE i = k + 1
        BY <2>0, <2>4, <3>1, <3>2 DEF StationInTurn, e
      <3>3. CASE i # k + 1
        <4>1. i \in 1..k
          BY <2>4, <3>3
        <4> QED
          BY <2>4, <3>1, <4>1 DEF StationInTurn
      <3> QED
        BY <3>2, <3>3
    <2>8. After(s, Len(served[s]))' = Following(cursor[s], n)
      BY <2>4, <2>5
    <2> QED
      BY <1>1, <2>3, <2>4, <2>7, <2>8 DEF StationInTurn
  <1> QED
    BY <1>2, <1>3

LEMMA CommitImportInTurn ==
    ASSUME IInv, NEW w \in Callers, CommitImport(w), NEW s \in Stations,
           s = call[w].station \/ StationInTurn(s)
    PROVE  StationInTurn(s)'
  <1>1. /\ served \in [Stations -> Seq([position : Nat, video : Videos])]
        /\ cursor \in [Stations -> Nat \ {0}] /\ queue \in [Stations -> Playlists \union {<< >>}]
    BY DEF IInv, TypeOK
  <1>2. CASE s # call[w].station
    <2>1. served'[s] = served[s] /\ cursor'[s] = cursor[s] /\ queue'[s] = queue[s]
      BY <1>1, <1>2 DEF CommitImport
    <2> QED
      BY <1>2, <2>1 DEF StationInTurn, After
  <1>3. CASE s = call[w].station
    <2>1. served'[s] = << >> /\ cursor'[s] = 1
      BY <1>1, <1>3 DEF CommitImport
    <2>2. Len(served'[s]) = 0 /\ DOMAIN served'[s] = {}
      BY <2>1, EmptySeq
    <2>3. After(s, Len(served[s]))' = 1
      BY <2>2 DEF After
    <2> QED
      BY <2>1, <2>2, <2>3 DEF StationInTurn
  <1> QED
    BY <1>2, <1>3

\* Whatever requests overlap, entries are handed out in turn from the first,
\* none twice and none left out.
THEOREM ServedInTurn == Spec => []InTurn
  <1>1. Init => InTurn
    <2> SUFFICES ASSUME Init, NEW s \in Stations PROVE StationInTurn(s)
      BY InTurnByStation
    <2>1. served[s] = << >> /\ cursor[s] = 1
      BY DEF Init
    <2>2. Len(served[s]) = 0 /\ DOMAIN served[s] = {}
      BY <2>1, EmptySeq
    <2>3. After(s, Len(served[s])) = 1
      BY <2>2 DEF After
    <2> QED
      BY <2>1, <2>2, <2>3 DEF StationInTurn
  <1>2. IInv /\ InTurn /\ [Next]_vars => InTurn'
    <2> SUFFICES ASSUME IInv, InTurn, [Next]_vars,
                        NEW s \in Stations, queue'[s] # << >>
                 PROVE  StationInTurn(s)'
      BY DEF InTurn, StationInTurn, After
    <2>1. queue[s] # << >> => StationInTurn(s)
      BY InTurnByStation
    <2>2. ASSUME NEW w \in Callers, CommitAdvance(w)
          PROVE  StationInTurn(s)'
      <3>1. queue[s] # << >>
        BY <2>2 DEF CommitAdvance
      <3> QED
        BY <2>1, <2>2, <3>1, CommitAdvanceInTurn
    <2>3. ASSUME NEW w \in Callers, CommitImport(w)
          PROVE  StationInTurn(s)'
      <3>1. s # call[w].station => queue'[s] = queue[s]
        BY <2>3 DEF CommitImport, IInv, TypeOK
      <3> QED
        BY <2>1, <2>3, <3>1, CommitImportInTurn
    <2>4. CASE UNCHANGED tables
      BY <2>1, <2>4 DEF tables, StationInTurn, After
    <2> QED
      BY <2>2, <2>3, <2>4, OnlyCommitsWrite
  <1> QED
    BY <1>1, <1>2, IInvHolds, PTL DEF Spec

-----------------------------------------------------------------------------
(* What up_next and the station page show.                                 *)

InRange ==
    \A s \in Stations : \A i \in DOMAIN served[s] : served[s][i].position \in 1..Len(queue[s])

\* A list that is being read: the cursor it starts from is the one that followed
\* the entries served when it was read, unless a playlist came since.
Looked(w) ==
    LET s == call[w].station
        k == call[w].moment[2]
    IN  call[w].at \in {"rows", "shown"} =>
           /\ call[w].moment[1] <= imports[s]
           /\ call[w].moment[1] = imports[s] =>
                 /\ queue[s] # << >> => k <= Len(served[s]) /\ call[w].position = After(s, k)
                 /\ At(w, "shown") => call[w].shown = UpNext(queue[s], call[w].position)

LookInv == IInv /\ InTurn /\ InRange /\ \A w \in Callers : Looked(w)

\* The entries served so far stay while the playlist stays.
Continues(s) ==
    /\ imports'[s] = imports[s] /\ queue'[s] = queue[s]
    /\ Len(served[s]) <= Len(served'[s])
    /\ \A i \in 1..Len(served[s]) : served'[s][i] = served[s][i]

LEMMA ServedFacts ==
    ASSUME IInv, NEW s \in Stations
    PROVE  /\ served[s] \in Seq([position : Nat, video : Videos])
           /\ Len(served[s]) \in Nat /\ DOMAIN served[s] = 1..Len(served[s])
           /\ imports[s] \in Nat /\ queue[s] \in Playlists \union {<< >>}
  <1>1. served[s] \in Seq([position : Nat, video : Videos]) /\ imports[s] \in Nat
        /\ queue[s] \in Playlists \union {<< >>}
    BY DEF IInv, TypeOK
  <1> QED
    BY <1>1, LenProperties

LEMMA AdvanceAppends ==
    ASSUME IInv, NEW w \in Callers, CommitAdvance(w), NEW s \in Stations, s = call[w].station
    PROVE  /\ cursor[s] \in 1..Len(queue[s])
           /\ Len(served'[s]) = Len(served[s]) + 1
           /\ served'[s][Len(served[s]) + 1].position = cursor[s]
           /\ \A i \in 1..Len(served[s]) : served'[s][i] = served[s][i]
  <1> DEFINE e == Entry(cursor[s], queue[s][cursor[s]])
  <1>1. /\ cursor[s] \in 1..Len(queue[s]) /\ e \in [position : Nat, video : Videos]
        /\ served' = [served EXCEPT ![s] = Append(@, e)]
    BY AdvanceFacts
  <1>2. e.position = cursor[s]
    BY DEF Entry
  <1> HIDE DEF e
  <1>3. served'[s] = Append(served[s], e)
    BY <1>1 DEF IInv, TypeOK
  <1> QED
    BY <1>1, <1>2, <1>3, ServedFacts, AppendProperties

\* Every step goes on with a station's playlist or imports another.
LEMMA StationMoves ==
    ASSUME IInv, [Next]_vars, NEW s \in Stations
    PROVE  Continues(s) \/ imports'[s] = imports[s] + 1
  <1>1. Len(served[s]) \in Nat
    BY ServedFacts
  <1>2. ASSUME NEW w \in Callers, CommitAdvance(w) PROVE Continues(s)
    <2>1. UNCHANGED <<queue, imports>>
      BY <1>2 DEF CommitAdvance
    <2>2. CASE s = call[w].station
      BY <1>1, <1>2, <2>1, <2>2, AdvanceAppends DEF Continues
    <2>3. CASE s # call[w].station
      <3>1. served'[s] = served[s]
        BY <1>2, <2>3 DEF CommitAdvance, IInv, TypeOK
      <3> QED
        BY <1>1, <2>1, <3>1 DEF Continues
    <2> QED
      BY <2>2, <2>3
  <1>3. ASSUME NEW w \in Callers, CommitImport(w)
        PROVE  Continues(s) \/ imports'[s] = imports[s] + 1
    <2>1. CASE s = call[w].station
      BY <1>3, <2>1 DEF CommitImport, IInv, TypeOK
    <2>2. CASE s # call[w].station
      <3>1. served'[s] = served[s] /\ queue'[s] = queue[s] /\ imports'[s] = imports[s]
        BY <1>3, <2>2 DEF CommitImport, IInv, TypeOK
      <3> QED
        BY <1>1, <3>1 DEF Continues
    <2> QED
      BY <2>1, <2>2
  <1>4. CASE UNCHANGED tables
    BY <1>1, <1>4 DEF tables, Continues
  <1> QED
    BY <1>2, <1>3, <1>4, OnlyCommitsWrite

LEMMA RangeKeeps == ASSUME IInv, InRange, [Next]_vars PROVE InRange'
  <1>0. IInv'
    BY NextKeeps
  <1> SUFFICES ASSUME NEW s \in Stations, NEW i \in DOMAIN served'[s]
               PROVE  served'[s][i].position \in 1..Len(queue'[s])
    BY DEF InRange
  <1>1. Len(served[s]) \in Nat /\ DOMAIN served[s] = 1..Len(served[s])
    BY ServedFacts
  <1>2. ASSUME NEW w \in Callers, CommitAdvance(w)
        PROVE  served'[s][i].position \in 1..Len(queue'[s])
    <2>1. UNCHANGED queue
      BY <1>2 DEF CommitAdvance
    <2>2. CASE s = call[w].station
      <3>1. served'[s] \in Seq([position : Nat, video : Videos])
        BY <1>0 DEF IInv, TypeOK
      <3>2. DOMAIN served'[s] = 1..Len(served'[s])
        BY <3>1, LenProperties
      <3>3. /\ Len(served'[s]) = Len(served[s]) + 1 /\ cursor[s] \in 1..Len(queue[s])
            /\ served'[s][Len(served[s]) + 1].position = cursor[s]
            /\ \A j \in 1..Len(served[s]) : served'[s][j] = served[s][j]
        BY <1>2, <2>2, AdvanceAppends
      <3>4. CASE i = Len(served[s]) + 1
        BY <2>1, <3>3, <3>4
      <3>5. CASE i # Len(served[s]) + 1
        <4>1. i \in 1..Len(served[s])
          BY <1>1, <3>2, <3>3, <3>5
        <4>2. served[s][i].position \in 1..Len(queue[s])
          BY <1>1, <4>1 DEF InRange
        <4> QED
          BY <2>1, <3>3, <4>1, <4>2
      <3> QED
        BY <3>4, <3>5
    <2>3. CASE s # call[w].station
      <3>1. served'[s] = served[s]
        BY <1>2, <2>3 DEF CommitAdvance, IInv, TypeOK
      <3> QED
        BY <2>1, <3>1 DEF InRange
    <2> QED
      BY <2>2, <2>3
  <1>3. ASSUME NEW w \in Callers, CommitImport(w)
        PROVE  served'[s][i].position \in 1..Len(queue'[s])
    <2>1. CASE s = call[w].station
      <3>1. served'[s] = << >>
        BY <1>3, <2>1 DEF CommitImport, IInv, TypeOK
      <3> QED
        BY <3>1, EmptySeq
    <2>2. CASE s # call[w].station
      <3>1. served'[s] = served[s] /\ queue'[s] = queue[s]
        BY <1>3, <2>2 DEF CommitImport, IInv, TypeOK
      <3> QED
        BY <3>1 DEF InRange
    <2> QED
      BY <2>1, <2>2
  <1>4. CASE UNCHANGED tables
    BY <1>4 DEF tables, InRange
  <1> QED
    BY <1>2, <1>3, <1>4, OnlyCommitsWrite

LEMMA LookFacts ==
    ASSUME IInv, NEW w \in Callers
    PROVE  /\ call[w] \in CallRecords
           /\ call[w].moment[1] \in Nat /\ call[w].moment[2] \in Nat
           /\ ~At(w, "idle") => call[w].station \in Stations
  BY DEF IInv, TypeOK, CallRecords, Local

\* A request that waits keeps what it has.
LEMMA LookedStays ==
    ASSUME IInv, [Next]_vars, NEW w \in Callers, Looked(w), call'[w] = call[w]
    PROVE  Looked(w)'
  <1> SUFFICES ASSUME call[w].at \in {"rows", "shown"}
               PROVE  Looked(w)'
    BY DEF Looked
  <1>1. PICK s \in Stations : s = call[w].station
    BY LookFacts DEF At
  <1>2. PICK k \in Nat : k = call[w].moment[2]
    BY LookFacts
  <1>3. imports[s] \in Nat /\ call[w].moment[1] \in Nat /\ Len(served[s]) \in Nat
    BY ServedFacts, LookFacts
  <1>4. call[w].moment[1] <= imports[s]
    BY <1>1 DEF Looked
  <1>5. CASE Continues(s)
    <2>1. k <= Len(served[s]) => After(s, k)' = After(s, k)
      <3>1. SUFFICES ASSUME k <= Len(served[s]), k # 0
                     PROVE  After(s, k)' = After(s, k)
        BY DEF After
      <3>2. k \in 1..Len(served[s])
        BY <1>2, <1>3, <3>1
      <3>3. served'[s][k] = served[s][k] /\ queue'[s] = queue[s]
        BY <1>5, <3>2 DEF Continues
      <3> QED
        BY <3>1, <3>3 DEF After
    <2>2. Len(served[s]) <= Len(served'[s]) /\ Len(served'[s]) \in Nat
      <3>1. IInv'
        BY NextKeeps
      <3>2. served'[s] \in Seq([position : Nat, video : Videos])
        BY <3>1 DEF IInv, TypeOK
      <3> QED
        BY <1>5, <3>2, LenProperties DEF Continues
    <2>3. call[w].moment[1] = imports[s] =>
             /\ queue[s] # << >> => k <= Len(served[s]) /\ call[w].position = After(s, k)
             /\ At(w, "shown") => call[w].shown = UpNext(queue[s], call[w].position)
      BY <1>1, <1>2 DEF Looked
    <2>4. queue'[s] = queue[s] /\ imports'[s] = imports[s]
      BY <1>5 DEF Continues
    <2>5. /\ call'[w].moment[1] = imports'[s] /\ queue'[s] # << >> =>
                k <= Len(served'[s]) /\ call'[w].position = After(s, k)'
          /\ call'[w].moment[1] = imports'[s] /\ At(w, "shown")' =>
                call'[w].shown = UpNext(queue'[s], call'[w].position)
      BY <1>2, <1>3, <2>1, <2>2, <2>3, <2>4 DEF At
    <2> QED
      BY <1>1, <1>2, <1>4, <2>4, <2>5 DEF Looked, After
  <1>6. CASE imports'[s] = imports[s] + 1
    BY <1>1, <1>3, <1>4, <1>6 DEF Looked
  <1> QED
    BY <1>5, <1>6, StationMoves

LEMMA ReadWhereLooks ==
    ASSUME IInv, InTurn, NEW w \in Callers, ReadWhere(w)
    PROVE  Looked(w)'
  <1> DEFINE s == call[w].station
             c == [call[w] EXCEPT !.at = "rows", !.position = cursor[s],
                                  !.moment = <<imports[s], Len(served[s])>>]
  <1>1. s \in Stations /\ call[w] \in CallRecords
    BY LookFacts DEF ReadWhere, At
  <1>2. call' = [call EXCEPT ![w] = c] /\ UNCHANGED tables
    BY DEF ReadWhere
  <1>3. /\ c.at = "rows" /\ c.station = s /\ c.position = cursor[s]
        /\ c.moment = <<imports[s], Len(served[s])>>
    BY <1>1 DEF CallRecords
  <1> HIDE DEF c
  <1>4. call'[w] = c
    BY <1>2 DEF IInv, TypeOK
  <1>5. queue[s] # << >> => cursor[s] = After(s, Len(served[s]))
    BY <1>1, InTurnByStation DEF StationInTurn
  <1>6. Len(served[s]) \in Nat /\ imports[s] \in Nat
    BY <1>1, ServedFacts
  <1>7. queue' = queue /\ imports' = imports /\ served' = served /\ cursor' = cursor
    BY <1>2 DEF tables
  <1>8. /\ call'[w].moment[1] = imports'[s] /\ call'[w].moment[2] = Len(served'[s])
        /\ call'[w].station = s /\ call'[w].at = "rows" /\ call'[w].position = cursor[s]
    BY <1>3, <1>4, <1>7
  <1> HIDE DEF s
  <1>9. ~At(w, "shown")'
    BY <1>8 DEF At
  <1>10. queue'[s] # << >> => call'[w].position = (IF Len(served'[s]) = 0 THEN 1
            ELSE IF served'[s][Len(served'[s])].position = Len(queue'[s]) THEN 1
                 ELSE served'[s][Len(served'[s])].position + 1)
    BY <1>5, <1>7, <1>8 DEF After
  <1> QED
    BY <1>6, <1>7, <1>8, <1>9, <1>10 DEF Looked, After

LEMMA ReadRowsLooks ==
    ASSUME IInv, NEW w \in Callers, Looked(w), ReadRows(w)
    PROVE  Looked(w)'
  <1> DEFINE l == UpNext(QueueOf(w), call[w].position)
             c == [call[w] EXCEPT !.at = "shown", !.shown = l]
  <1>1. call[w] \in CallRecords /\ call[w].at = "rows"
    BY LookFacts DEF ReadRows, At
  <1>2. call' = [call EXCEPT ![w] = c] /\ UNCHANGED tables
    BY DEF ReadRows
  <1>3. /\ c.at = "shown" /\ c.station = call[w].station /\ c.position = call[w].position
        /\ c.moment = call[w].moment /\ c.shown = l
    BY <1>1 DEF CallRecords
  <1>4. l = UpNext(queue[call[w].station], call[w].position)
    BY DEF QueueOf
  <1> HIDE DEF c, l
  <1>5. call'[w] = c
    BY <1>2 DEF IInv, TypeOK
  <1>6. PICK s : s = call[w].station
    OBVIOUS
  <1>7. PICK k : k = call[w].moment[2]
    OBVIOUS
  <1>8. /\ call[w].moment[1] <= imports[s]
        /\ call[w].moment[1] = imports[s] =>
              (queue[s] # << >> => k <= Len(served[s]) /\ call[w].position = After(s, k))
    BY <1>1, <1>6, <1>7 DEF Looked
  <1>9. After(s, k)' = After(s, k) /\ queue' = queue /\ served' = served /\ imports' = imports
    BY <1>2 DEF After, tables
  <1>10. c.moment[1] = imports'[s] =>
            /\ queue'[s] # << >> => k <= Len(served'[s]) /\ c.position = After(s, k)'
            /\ c.shown = UpNext(queue'[s], c.position)
    BY <1>3, <1>4, <1>6, <1>8, <1>9
  <1>11. /\ call'[w].moment[1] <= imports'[s] /\ call'[w].station = s
         /\ call'[w].moment[2] = k
    BY <1>3, <1>5, <1>6, <1>7, <1>8, <1>9
  <1> QED
    BY <1>5, <1>10, <1>11, Zenon DEF Looked, After

\* Any other step of a request leaves it without a list.
LEMMA OneMoves ==
    ASSUME IInv, [Next]_vars
    PROVE  \/ UNCHANGED call
           \/ \E w \in Callers :
                 /\ \A v \in Callers \ {w} : call'[v] = call[v]
                 /\ ReadWhere(w) \/ ReadRows(w) \/ call'[w].at \notin {"rows", "shown"}
  <1> DEFINE Moved(w) == /\ \A v \in Callers \ {w} : call'[v] = call[v]
                         /\ ReadWhere(w) \/ ReadRows(w) \/ call'[w].at \notin {"rows", "shown"}
  <1>1. ASSUME NEW w \in Callers PROVE call[w] \in CallRecords /\ call \in [Callers -> CallRecords]
    BY DEF IInv, TypeOK, CallRecords
  <1>2. ASSUME NEW w \in Callers, NEW c, call' = [call EXCEPT ![w] = c],
               c.at \notin {"rows", "shown"}
        PROVE  Moved(w)
    BY <1>1, <1>2
  <1>3. ASSUME NEW w \in Callers, NEW p, p \notin {"rows", "shown"}, Goto(w, p)
        PROVE  Moved(w)
    <2> DEFINE c == [call[w] EXCEPT !.at = p]
    <2>1. c.at = p /\ call' = [call EXCEPT ![w] = c]
      BY <1>1, <1>3 DEF Goto, CallRecords
    <2> QED
      BY <1>2, <1>3, <2>1
  <1>4. ASSUME NEW w \in Callers, call' = [call EXCEPT ![w] = Idle]
        PROVE  Moved(w)
    BY <1>2, <1>4, IdleFacts
  <1>5. ASSUME NEW w \in Callers, NEW s, NEW p, p \notin {"rows", "shown"}, Request(w, s, p)
        PROVE  Moved(w)
    <2>1. [Idle EXCEPT !.at = p, !.station = s].at = p
      BY DEF Idle
    <2> QED
      BY <1>2, <1>5, <2>1 DEF Request
  <1>6. ASSUME NEW w \in Callers, NEW s, NEW q, RequestImport(w, s, q)
        PROVE  Moved(w)
    <2>1. [Idle EXCEPT !.at = "clear", !.station = s, !.batch = q].at = "clear"
      BY DEF Idle
    <2> QED
      BY <1>2, <1>6, <2>1 DEF RequestImport
  <1>7. ASSUME NEW w \in Callers, Step(w)
        PROVE  Moved(w)
    <2>1. CASE Count(w)
      <3>1. CASE QueueOf(w) = << >>
        BY <1>3, <2>1, <3>1 DEF Count
      <3>2. CASE QueueOf(w) # << >>
        <4> DEFINE c == [call[w] EXCEPT !.at = "position", !.count = Len(QueueOf(w))]
        <4>1. c.at = "position" /\ call' = [call EXCEPT ![w] = c]
          BY <1>1, <2>1, <3>2 DEF Count, CallRecords
        <4> HIDE DEF c
        <4> QED
          BY <1>2, <4>1
      <3> QED
        BY <3>1, <3>2
    <2>2. CASE ReadCursor(w)
      <3> DEFINE c == [call[w] EXCEPT !.at = "entry",
                                      !.position = Clamp(cursor[call[w].station], call[w].count)]
      <3>1. c.at = "entry" /\ call' = [call EXCEPT ![w] = c]
        BY <1>1, <2>2 DEF ReadCursor, CallRecords
      <3> QED
        BY <1>2, <3>1
    <2>3. CASE ReadEntry(w)
      <3>1. [call[w] EXCEPT !.at = "advance", !.video = QueueOf(w)[call[w].position]].at = "advance"
        BY <1>1 DEF CallRecords
      <3> QED
        BY <1>2, <1>3, <2>3, <3>1 DEF ReadEntry
    <2>4. CASE Advance(w) \/ Clear(w) \/ BeginCommit(w) \/ CommitAdvance(w) \/ Announce(w)
      <3>1. \E p \in {"fallback", "commit", "exclusive", "announce", "announcing"} : Goto(w, p)
        <4>1. CASE Advance(w)
          BY <4>1 DEF Advance
        <4>2. CASE Clear(w)
          BY <4>2 DEF Clear
        <4>3. CASE BeginCommit(w)
          BY <4>3 DEF BeginCommit
        <4>4. CASE CommitAdvance(w) \/ Announce(w)
          BY <4>4 DEF CommitAdvance, Announce
        <4> QED
          BY <2>4, <4>1, <4>2, <4>3, <4>4
      <3> QED
        BY <1>3, <3>1
    <2>5. CASE CommitImport(w) \/ Announced(w) \/ Fallback(w) \/ Show(w)
      BY <1>4, <2>5 DEF CommitImport, Announced, Fallback, Show
    <2>6. CASE ReadWhere(w) \/ ReadRows(w)
      BY <1>1, <2>6 DEF ReadWhere, ReadRows
    <2> QED
      BY <1>7, <2>1, <2>2, <2>3, <2>4, <2>5, <2>6 DEF Step
  <1>8. ASSUME NEW w \in Callers, TimesOut(w)
        PROVE  Moved(w)
    <2>1. Goto(w, "fallback") \/ call' = [call EXCEPT ![w] = Idle]
      BY <1>8 DEF TimesOut, Goto
    <2> QED
      BY <1>3, <1>4, <2>1
  <1>9. ASSUME NEW w \in Callers, Stop(w)
        PROVE  Moved(w)
    BY <1>4, <1>9 DEF Stop
  <1>10. CASE UNCHANGED vars
    BY <1>10 DEF vars
  <1> QED
    BY <1>5, <1>6, <1>7, <1>8, <1>9, <1>10 DEF Next, PageRequest

LEMMA LookKeeps ==
    ASSUME LookInv, [Next]_vars, NEW v \in Callers
    PROVE  Looked(v)'
  <1>1. CASE call'[v] = call[v]
    BY <1>1, LookedStays DEF LookInv
  <1>2. CASE ReadWhere(v) \/ ReadRows(v)
    BY <1>2, ReadWhereLooks, ReadRowsLooks DEF LookInv
  <1>3. CASE call'[v].at \notin {"rows", "shown"}
    BY <1>3 DEF Looked
  <1> QED
    BY <1>1, <1>2, <1>3, OneMoves DEF LookInv

\* A list that starts at p and goes around n entries, Limit at most.
LEMMA UpNextRuns ==
    ASSUME NEW q \in Playlists, NEW p \in 1..Len(q), NEW list, list = UpNext(q, p)
    PROVE  /\ list[1] = p
           /\ \A i \in 2..Len(list) :
                 /\ list[i] = IF list[i - 1] = Len(q) THEN 1 ELSE list[i - 1] + 1
                 /\ list[i] # list[1]
  <1> DEFINE size == IF Len(q) < Limit THEN Len(q) ELSE Limit
  <1>1. Len(q) \in Nat \ {0} /\ DOMAIN q = 1..Len(q)
    BY PlaylistFacts
  <1>2. size \in Nat \ {0} /\ size <= Len(q)
    BY <1>1, LimitAssumption
  <1>3. list = [i \in 1..size |-> IF p + i - 1 > Len(q) THEN p + i - 1 - Len(q) ELSE p + i - 1]
    BY <1>1 DEF UpNext
  <1> HIDE DEF size
  <1>4. Len(list) = size
    <2>1. list \in [1..size -> Int]
      BY <1>1, <1>2, <1>3
    <2> QED
      BY <1>2, <2>1, SeqDef, LenProperties
  <1>5. list[1] = p
    BY <1>1, <1>2, <1>3
  <1>6. ASSUME NEW i \in 2..size
        PROVE  /\ list[i] = IF list[i - 1] = Len(q) THEN 1 ELSE list[i - 1] + 1
               /\ list[i] # list[1]
    <2>1. i \in 1..size /\ i - 1 \in 1..size
      BY <1>2
    <2>2. /\ list[i] = IF p + i - 1 > Len(q) THEN p + i - 1 - Len(q) ELSE p + i - 1
          /\ list[i - 1] = IF p + i - 2 > Len(q) THEN p + i - 2 - Len(q) ELSE p + i - 2
      BY <1>1, <1>2, <1>3, <2>1
    <2> QED
      BY <1>1, <1>2, <1>5, <2>1, <2>2
  <1> QED
    BY <1>4, <1>5, <1>6

LEMMA LookShows == LookInv => UpNextIsAhead
  <1> SUFFICES ASSUME LookInv, NEW w \in Callers, At(w, "shown"), call[w].shown # << >>,
                      call[w].moment[1] = imports[call[w].station]
               PROVE  LET s == call[w].station
                          list == call[w].shown
                      IN  /\ \/ list[1] = cursor[s]
                             \/ \E i \in call[w].moment[2] + 1 .. Len(served[s]) :
                                   served[s][i].position = list[1]
                          /\ \A i \in 2..Len(list) :
                                /\ list[i] = IF list[i - 1] = Len(queue[s]) THEN 1 ELSE list[i - 1] + 1
                                /\ list[i] # list[1]
    BY DEF UpNextIsAhead
  <1>1. PICK s \in Stations : s = call[w].station
    BY LookFacts DEF LookInv, At
  <1>2. PICK k \in Nat : k = call[w].moment[2]
    BY LookFacts DEF LookInv
  <1>3. PICK list : list = call[w].shown
    OBVIOUS
  <1>4. list = UpNext(queue[s], call[w].position)
    BY <1>1, <1>3 DEF LookInv, Looked, At
  <1>5. queue[s] # << >>
    <2> SUFFICES ASSUME queue[s] = << >> PROVE FALSE
      OBVIOUS
    <2>1. Len(queue[s]) = 0
      BY EmptySeq
    <2>2. list = [i \in 1..0 |-> 0]
      BY <1>4, <2>1, LimitAssumption DEF UpNext
    <2>3. list \in Seq(Nat) /\ Len(list) = 0
      BY <2>2, SeqDef, LenProperties
    <2> QED
      BY <1>3, <2>3, EmptySeq
  <1>6. k <= Len(served[s]) /\ call[w].position = After(s, k)
    BY <1>1, <1>2, <1>5 DEF LookInv, Looked, At
  <1>7. queue[s] \in Playlists /\ Len(served[s]) \in Nat /\ DOMAIN served[s] = 1..Len(served[s])
    BY <1>5, ServedFacts DEF LookInv
  <1>8. StationInTurn(s)
    BY <1>5, InTurnByStation DEF LookInv
  <1>9. CASE k = Len(served[s])
    <2>1. After(s, k) = cursor[s] /\ cursor[s] \in 1..Len(queue[s])
      BY <1>5, <1>8, <1>9 DEF StationInTurn, LookInv, IInv, CursorOK
    <2>2. /\ list[1] = cursor[s]
          /\ \A i \in 2..Len(list) :
                /\ list[i] = IF list[i - 1] = Len(queue[s]) THEN 1 ELSE list[i - 1] + 1
                /\ list[i] # list[1]
      <3>1. call[w].position = cursor[s]
        BY <1>6, <1>9, <2>1
      <3>2. list = UpNext(queue[s], cursor[s])
        BY <1>4, <3>1
      <3>3. PICK q, p : q = queue[s] /\ p = cursor[s]
        OBVIOUS
      <3>4. q \in Playlists /\ p \in 1..Len(q) /\ list = UpNext(q, p)
        BY <1>7, <2>1, <3>2, <3>3
      <3>5. /\ list[1] = p
            /\ \A i \in 2..Len(list) :
                  /\ list[i] = IF list[i - 1] = Len(q) THEN 1 ELSE list[i - 1] + 1
                  /\ list[i] # list[1]
        BY <3>4, UpNextRuns
      <3> QED
        BY <3>3, <3>5
    <2> QED
      BY <1>1, <1>3, <2>2
  <1>10. CASE k # Len(served[s])
    <2>1. k + 1 \in 1..Len(served[s]) /\ k + 1 - 1 = k
      BY <1>6, <1>7, <1>10
    <2>2. served[s][k + 1].position = After(s, k)
      <3>1. PICK j \in 1..Len(served[s]) : j = k + 1
        BY <2>1
      <3>2. served[s][j] = Entry(After(s, j - 1), queue[s][After(s, j - 1)])
        BY <1>7, <1>8 DEF StationInTurn
      <3>3. j - 1 = k
        BY <2>1, <3>1
      <3>0. \A p, v : Entry(p, v).position = p
        BY DEF Entry
      <3>4. served[s][j].position = After(s, j - 1)
        BY <3>0, <3>2, Zenon
      <3> QED
        BY <3>1, <3>3, <3>4
    <2>3. After(s, k) \in 1..Len(queue[s])
      BY <1>7, <2>1, <2>2 DEF LookInv, InRange
    <2>4. /\ list[1] = After(s, k)
          /\ \A i \in 2..Len(list) :
                /\ list[i] = IF list[i - 1] = Len(queue[s]) THEN 1 ELSE list[i - 1] + 1
                /\ list[i] # list[1]
      BY <1>4, <1>6, <1>7, <2>3, UpNextRuns
    <2>5. k + 1 \in k + 1 .. Len(served[s])
      BY <1>7, <2>1
    <2> QED
      BY <1>1, <1>2, <1>3, <2>2, <2>4, <2>5
  <1> QED
    BY <1>9, <1>10

\* Unless a playlist is imported meanwhile, up_next and the station page show
\* what is next, or was when they were asked, in turn and without a repetition.
THEOREM ShownIsAhead == Spec => []UpNextIsAhead
  <1>1. Init => InRange /\ \A w \in Callers : Looked(w)
    <2> SUFFICES ASSUME Init PROVE InRange /\ \A w \in Callers : Looked(w)
      OBVIOUS
    <2>1. InRange
      BY EmptySeq DEF Init, InRange
    <2>2. \A w \in Callers : Looked(w)
      BY IdleFacts DEF Init, Looked
    <2> QED
      BY <2>1, <2>2
  <1>2. IInv /\ InTurn /\ InRange /\ (\A w \in Callers : Looked(w)) /\ [Next]_vars
           => InRange' /\ (\A w \in Callers : Looked(w))'
    BY RangeKeeps, LookKeeps DEF LookInv
  <1>3. IInv /\ InTurn /\ InRange /\ (\A w \in Callers : Looked(w)) => UpNextIsAhead
    BY LookShows DEF LookInv
  <1> QED
    BY <1>1, <1>2, <1>3, IInvHolds, ServedInTurn, PTL DEF Spec
=============================================================================
