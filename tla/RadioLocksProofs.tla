-------------------------- MODULE RadioLocksProofs --------------------------
(***************************************************************************)
(* Theorems about RadioQueue: the requests never wait for each other in a  *)
(* circle.                                                                 *)
(*                                                                         *)
(* RadioQueueProofs shows which locks a request holds at each of its       *)
(* statements.  Here is the converse (LockInv): a lock is held only by a   *)
(* request that is at a statement where it needs it, and PENDING only with *)
(* a writer.  So, when everybody waits, the readers are those that wait    *)
(* for the readers: there is one at most, and it waits for nobody.         *)
(***************************************************************************)
EXTENDS RadioQueueProofs

LockInv ==
    /\ \A w \in readers : Reading(w) \/ Writing(w)
    /\ \A w \in writer : Writing(w)
    /\ pending => writer # {}

Waiting(w) == call[w].at \in {"idle", "count", "fallback", "where", "rows", "shown",
                              "clear", "announce"}

-----------------------------------------------------------------------------

\* While w moves nobody else takes or loses a lock: enough to look at w.
LEMMA LocksByRequest ==
    ASSUME IInv, LockInv, NEW w \in Callers, LockMove(w),
           \A v \in Callers \ {w} : call'[v] = call[v],
           w \in readers' => Reading(w)' \/ Writing(w)',
           w \in writer' => Writing(w)',
           pending' => pending \/ w \in writer'
    PROVE  LockInv'
  <1>1. /\ readers' \subseteq Callers /\ writer' \subseteq readers'
        /\ readers \subseteq Callers /\ writer \subseteq readers
    BY LockFacts DEF IInv, TypeOK
  <1>2. \A v \in Callers \ {w} : /\ v \in readers' => v \in readers
                                 /\ v \in writer' => v \in writer
                                 /\ Reading(v)' = Reading(v) /\ Writing(v)' = Writing(v)
    BY DEF LockMove, locks, Share, Release, Reading, Writing
  <1>3. ASSUME pending', writer' = {}
        PROVE  FALSE
    <2>1. PICK u \in writer : TRUE
      BY <1>3 DEF LockInv
    <2>2. u \in Callers /\ writer = {u}
      BY <1>1, <2>1 DEF LockInv, IInv, Local
    <2>3. u = w
      BY <1>3, <2>2, LockFacts DEF IInv
    <2> QED
      BY <1>3, <2>2, <2>3 DEF LockMove, locks, Share, Release, CanWrite
  <1> QED
    BY <1>1, <1>2, <1>3 DEF LockInv

\* A request that holds nothing and takes nothing.
LEMMA IdleHandsKeep ==
    ASSUME IInv, LockInv, NEW w \in Callers, Waiting(w), UNCHANGED locks,
           \A v \in Callers \ {w} : call'[v] = call[v]
    PROVE  LockInv'
  <1>1. w \notin readers /\ w \notin writer
    BY DEF LockInv, Waiting, Reading, Writing
  <1> QED
    BY <1>1, LocksByRequest DEF LockMove, locks

\* A request that gives back what it holds.
LEMMA ReleaseKeeps ==
    ASSUME IInv, LockInv, NEW w \in Callers, Release(w),
           \A v \in Callers \ {w} : call'[v] = call[v]
    PROVE  LockInv'
  <1>1. w \notin readers' /\ w \notin writer' /\ (pending' => pending)
    BY DEF Release
  <1> QED
    BY <1>1, LocksByRequest DEF LockMove

\* A request that reads in its transaction.
LEMMA ReadingKeeps ==
    ASSUME IInv, LockInv, NEW w \in Callers, UNCHANGED locks \/ Share(w), ~Writing(w),
           Reading(w)', \A v \in Callers \ {w} : call'[v] = call[v]
    PROVE  LockInv'
  <1>1. w \notin writer'
    BY DEF LockInv, locks, Share
  <1>2. pending' => pending
    BY DEF locks, Share
  <1> QED
    BY <1>1, <1>2, LocksByRequest DEF LockMove

\* A request that writes or commits.
LEMMA WritingKeeps ==
    ASSUME IInv, LockInv, NEW w \in Callers, LockMove(w), w \in writer',
           Writing(w)', \A v \in Callers \ {w} : call'[v] = call[v]
    PROVE  LockInv'
  BY LocksByRequest

-----------------------------------------------------------------------------

\* Each step of a request is one of the four.
LEMMA StepLocks == ASSUME IInv, LockInv, NEW w \in Callers, Step(w) PROVE LockInv'
  <1>0. call \in [Callers -> CallRecords] /\ call[w] \in CallRecords
    BY DEF IInv, TypeOK, CallRecords
  <1>1. ASSUME NEW p \in Phases, Goto(w, p)
        PROVE  call'[w].at = p /\ \A v \in Callers \ {w} : call'[v] = call[v]
    BY <1>1, GotoFacts DEF IInv
  <1>2. ASSUME NEW c, call' = [call EXCEPT ![w] = c]
        PROVE  call'[w] = c /\ \A v \in Callers \ {w} : call'[v] = call[v]
    BY <1>0, <1>2
  <1>3. CASE Count(w)
    <2>1. CASE QueueOf(w) = << >>
      BY <1>1, <1>3, <2>1, IdleHandsKeep DEF Count, Waiting, At, Phases
    <2>2. CASE QueueOf(w) # << >>
      <3>1. PICK n : call' = [call EXCEPT ![w].at = "position", ![w].count = n]
        BY <1>3, <2>2 DEF Count
      <3>2. call'[w].at = "position" /\ \A v \in Callers \ {w} : call'[v] = call[v]
        BY <1>0, <3>1 DEF CallRecords
      <3> QED
        BY <1>3, <2>2, <3>2, ReadingKeeps DEF Count, Reading, Writing, At
    <2> QED
      BY <2>1, <2>2
  <1>4. CASE ReadCursor(w)
    <2>1. PICK n : call' = [call EXCEPT ![w].at = "entry", ![w].position = n]
      BY <1>4 DEF ReadCursor
    <2>2. call'[w].at = "entry" /\ \A v \in Callers \ {w} : call'[v] = call[v]
      BY <1>0, <2>1 DEF CallRecords
    <2> QED
      BY <1>4, <2>2, ReadingKeeps DEF ReadCursor, Reading, Writing, At
  <1>5. CASE ReadEntry(w)
    <2>1. CASE call[w].position \in DOMAIN QueueOf(w)
      <3>1. PICK x : call' = [call EXCEPT ![w].at = "advance", ![w].video = x]
        BY <1>5, <2>1 DEF ReadEntry
      <3>2. call'[w].at = "advance" /\ \A v \in Callers \ {w} : call'[v] = call[v]
        BY <1>0, <3>1 DEF CallRecords
      <3> QED
        BY <1>5, <2>1, <3>2, ReadingKeeps DEF ReadEntry, Reading, Writing, At
    <2>2. CASE call[w].position \notin DOMAIN QueueOf(w)
      BY <1>1, <1>5, <2>2, ReleaseKeeps DEF ReadEntry, Phases
    <2> QED
      BY <2>1, <2>2
  <1>6. CASE Advance(w)
    <2>1. CASE CanWrite(w)
      <3>1. Goto(w, "commit") /\ LockMove(w) /\ w \in writer'
        BY <1>6, <2>1 DEF Advance, Reserve, LockMove, IInv, TypeOK
      <3> QED
        BY <1>1, <3>1, WritingKeeps DEF Writing, Phases
    <2>2. CASE ~CanWrite(w)
      BY <1>1, <1>6, <2>2, ReleaseKeeps DEF Advance, Phases
    <2> QED
      BY <2>1, <2>2
  <1>7. CASE Clear(w)
    <2>1. Goto(w, "commit") /\ LockMove(w) /\ w \in writer'
      BY <1>7 DEF Clear, Reserve, LockMove, IInv, TypeOK
    <2> QED
      BY <1>1, <2>1, WritingKeeps DEF Writing, Phases
  <1>8. CASE BeginCommit(w)
    <2>1. Goto(w, "exclusive") /\ LockMove(w)
      BY <1>8 DEF BeginCommit, LockMove
    <2>2. w \in writer'
      BY <1>8 DEF BeginCommit, IInv, Local, Writing, At
    <2> QED
      BY <1>1, <2>1, <2>2, WritingKeeps DEF Writing, Phases
  <1>9. CASE CommitAdvance(w)
    BY <1>1, <1>9, ReleaseKeeps DEF CommitAdvance, Phases
  <1>10. CASE CommitImport(w) \/ Announced(w)
    BY <1>2, <1>10, ReleaseKeeps DEF CommitImport, Announced
  <1>11. CASE Announce(w)
    <2>1. Goto(w, "announcing") /\ LockMove(w) /\ w \in writer'
      BY <1>11 DEF Announce, LockMove
    <2> QED
      BY <1>1, <2>1, WritingKeeps DEF Writing, Phases
  <1>12. CASE Fallback(w) \/ Show(w)
    BY <1>2, <1>12, IdleHandsKeep DEF Fallback, Show, Waiting, At
  <1>13. CASE ReadWhere(w) \/ ReadRows(w)
    <2>1. \A v \in Callers \ {w} : call'[v] = call[v]
      BY <1>0, <1>13 DEF ReadWhere, ReadRows
    <2> QED
      BY <1>13, <2>1, IdleHandsKeep DEF ReadWhere, ReadRows, Waiting, At
  <1> QED
    BY <1>3, <1>4, <1>5, <1>6, <1>7, <1>8, <1>9, <1>10, <1>11, <1>12, <1>13 DEF Step

LEMMA NextLocks == ASSUME IInv, LockInv, [Next]_vars PROVE LockInv'
  <1>0. call \in [Callers -> CallRecords]
    BY DEF IInv, TypeOK, CallRecords
  <1>1. CASE UNCHANGED vars
    BY <1>1 DEF vars, LockInv, Reading, Writing
  <1>2. ASSUME NEW w \in Callers, Step(w) PROVE LockInv'
    BY <1>2, StepLocks
  <1>3. ASSUME NEW w \in Callers, NEW c, call' = [call EXCEPT ![w] = c]
        PROVE  \A v \in Callers \ {w} : call'[v] = call[v]
    BY <1>0, <1>3
  <1>4. ASSUME NEW w \in Callers, NEW s, NEW p, Request(w, s, p) PROVE LockInv'
    BY <1>3, <1>4, IdleHandsKeep DEF Request, Waiting, At
  <1>5. ASSUME NEW w \in Callers, NEW s, NEW q, RequestImport(w, s, q) PROVE LockInv'
    BY <1>3, <1>5, IdleHandsKeep DEF RequestImport, Waiting, At
  <1>6. ASSUME NEW w \in Callers, TimesOut(w) \/ Stop(w) PROVE LockInv'
    BY <1>3, <1>6, ReleaseKeeps DEF TimesOut, Stop
  <1> QED
    BY <1>1, <1>2, <1>4, <1>5, <1>6 DEF Next, PageRequest

-----------------------------------------------------------------------------

\* When every request waits, nobody is inside a transaction but a writer that
\* waits for readers, and no other reader is left.
LEMMA SomebodyGoesOn == ASSUME IInv, LockInv PROVE NoDeadlock
  <1> SUFFICES ASSUME NEW u \in Callers, ~At(u, "idle"),
                      \A w \in Callers : ~At(w, "idle") => Waits(w)
               PROVE  FALSE
    BY DEF NoDeadlock
  <1>1. readers \subseteq Callers /\ writer \subseteq readers
    BY DEF IInv, TypeOK
  <1>2. \A w \in readers : call[w].at \in {"exclusive", "announcing"}
    BY <1>1 DEF LockInv, Reading, Writing, Waits, At
  <1>3. \A w \in readers : writer = {w}
    BY <1>1, <1>2 DEF IInv, Local, Writing
  <1>4. \A w \in readers : readers = {w}
    BY <1>3
  <1>5. readers = {}
    BY <1>1, <1>2, <1>4 DEF Waits, At
  <1>6. writer = {} /\ ~pending
    BY <1>1, <1>5 DEF LockInv
  <1>7. CanRead(u) /\ CanWrite(u)
    BY <1>6 DEF CanRead, CanWrite
  <1>8. call[u].at \in {"exclusive", "announcing"}
    BY <1>7 DEF Waits
  <1>9. u \in readers
    BY <1>8 DEF IInv, Local, Writing
  <1> QED
    BY <1>5, <1>9

\* For any number of requests, as readers, upgrading readers and writers, the
\* locks never end in a circle, nor stay with a request that has gone.
THEOREM RequestsNeverDeadlock == Spec => []NoDeadlock
  <1>1. Init => LockInv
    BY DEF Init, LockInv
  <1>2. IInv /\ LockInv /\ [Next]_vars => LockInv'
    BY NextLocks
  <1>3. IInv /\ LockInv => NoDeadlock
    BY SomebodyGoesOn
  <1> QED
    BY <1>1, <1>2, <1>3, IInvHolds, PTL DEF Spec
=============================================================================
