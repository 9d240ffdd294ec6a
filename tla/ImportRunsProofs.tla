-------------------------- MODULE ImportRunsProofs --------------------------
(***************************************************************************)
(* Theorems about ImportRuns, for every set of sources and requests, every *)
(* combination of faults and every bound.  They hold of Spec: no fairness  *)
(* is assumed.                                                             *)
(***************************************************************************)
EXTENDS ImportRuns, SequenceTheorems, FiniteSetTheorems, TLAPS

Rows == [source : Sources, status : Status]

\* INSERT INTO youtube_import_runs keeps the table a table: a new last row,
\* every other row as it was.
LEMMA InsertLemma ==
    ASSUME NEW tbl \in Seq(Rows), NEW row \in Rows
    PROVE  /\ Append(tbl, row) \in Seq(Rows)
           /\ DOMAIN Append(tbl, row) = DOMAIN tbl \union {Len(tbl) + 1}
           /\ Append(tbl, row)[Len(tbl) + 1] = row
           /\ \A i \in DOMAIN tbl : Append(tbl, row)[i] = tbl[i]
           /\ Len(tbl) + 1 \notin DOMAIN tbl
  BY AppendProperties, LenProperties

\* UPDATE youtube_import_runs SET status ... WHERE id = ? changes that row's
\* status and nothing else.
LEMMA UpdateLemma ==
    ASSUME NEW tbl \in Seq(Rows), NEW i \in DOMAIN tbl, NEW st \in Status
    PROVE  /\ [tbl EXCEPT ![i].status = st] \in Seq(Rows)
           /\ DOMAIN [tbl EXCEPT ![i].status = st] = DOMAIN tbl
           /\ [tbl EXCEPT ![i].status = st][i] = [source |-> tbl[i].source, status |-> st]
           /\ \A j \in DOMAIN tbl \ {i} : [tbl EXCEPT ![i].status = st][j] = tbl[j]
  <1>1. tbl[i] \in Rows
    BY ElementOfSeq, LenProperties
  <1> DEFINE row == [tbl[i] EXCEPT !.status = st]
  <1>2. row \in Rows /\ row = [source |-> tbl[i].source, status |-> st]
    BY <1>1 DEF Rows
  <1>3. [tbl EXCEPT ![i] = row] \in Seq(Rows)
    BY <1>2, ExceptSeq, LenProperties
  <1> QED
    BY <1>2, <1>3

-----------------------------------------------------------------------------

\* What a step may do to the call of the one worker it is about: the rest of
\* TypeOK about calls follows from it.
CallOK(c) ==
    /\ c \in [at : Phases, src : Sources \union {0}, run : Nat,
              outcome : {"none"} \union FinalStatus]
    /\ c.at # "idle" => c.src \in Sources
    /\ c.at \in {"mark", "stamp"} => c.outcome \in FinalStatus

LEMMA CallUpdate ==
    ASSUME TypeOK, NEW w \in Workers, NEW c, CallOK(c),
           call' = [call EXCEPT ![w] = c]
    PROVE  /\ call' \in [Workers -> [at : Phases, src : Sources \union {0}, run : Nat,
                                     outcome : {"none"} \union FinalStatus]]
           /\ \A v \in Workers : call'[v].at # "idle" => call'[v].src \in Sources
           /\ \A v \in Workers :
                 call'[v].at \in {"mark", "stamp"} => call'[v].outcome \in FinalStatus
  BY DEF TypeOK, CallOK

\* Tables and workers keep their types under every step, faults included.
LEMMA TypeInductive == TypeOK /\ [Next]_vars => TypeOK'
  <1> SUFFICES ASSUME TypeOK, [Next]_vars
               PROVE  TypeOK'
    OBVIOUS
  <1> USE DEF Phases, FinalStatus, Status, Synced
  <1>idle. CallOK(Idle)
    BY DEF CallOK, Idle
  <1>a. ASSUME NEW w \in Workers, NEW s \in Sources, Begin(w, s)
        PROVE  call' = [call EXCEPT ![w] = [Idle EXCEPT !.at = "lookup", !.src = s]]
               /\ CallOK([Idle EXCEPT !.at = "lookup", !.src = s])
    BY <1>a DEF Begin, CallOK, Idle
  <1>b. ASSUME NEW w \in Workers, NEW c, CallOK(c), call' = [call EXCEPT ![w] = c],
               UNCHANGED <<source, runs, todo>>
        PROVE  TypeOK'
    BY <1>b, CallUpdate DEF TypeOK
  <1>1. ASSUME NEW s \in Sources, CreateSource(s) \/ UpdateSource(s) \/ IntervalElapses(s)
        PROVE  TypeOK'
    <2>1. PICK e \in BOOLEAN, a \in Synced :
             source' = [source EXCEPT ![s] = [enabled |-> e, synced |-> a]]
      <3>1. CASE CreateSource(s)
        BY <3>1 DEF CreateSource
      <3>2. CASE UpdateSource(s)
        BY <3>2 DEF UpdateSource
      <3>3. CASE IntervalElapses(s)
        <4>1. source[s] \in [enabled : BOOLEAN, synced : Synced]
          BY DEF TypeOK
        <4>2. source' = [source EXCEPT ![s] = [enabled |-> source[s].enabled,
                                               synced  |-> "stale"]]
          <5>1. [source[s] EXCEPT !.synced = "stale"] =
                   [enabled |-> source[s].enabled, synced |-> "stale"]
            BY <4>1
          <5> QED
            BY <3>3, <5>1 DEF IntervalElapses
        <4> QED
          BY <4>1, <4>2
      <3> QED
        BY <1>1, <3>1, <3>2, <3>3
    <2>2. source' \in [Sources -> [enabled : BOOLEAN, synced : Synced]]
      BY <2>1 DEF TypeOK
    <2>3. UNCHANGED <<runs, call, todo>>
      BY <1>1 DEF CreateSource, UpdateSource, IntervalElapses
    <2> QED
      BY <2>2, <2>3 DEF TypeOK
  <1>2. ASSUME NEW r \in Requests, NEW s \in Sources, RequestRun(r, s)
        PROVE  TypeOK'
    BY <1>2, <1>a, <1>b DEF RequestRun, Workers
  <1>3. CASE SchedulerTick
    BY <1>3 DEF TypeOK, SchedulerTick, DueSources
  <1>4. ASSUME NEW s \in Sources, SchedulerNext(s)
        PROVE  TypeOK'
    <2>1. Scheduler \in Workers
      BY DEF Workers
    <2>2. UNCHANGED <<source, runs>> /\ todo' \subseteq Sources
      BY <1>4 DEF SchedulerNext, TypeOK
    <2> QED
      BY <1>4, <1>a, <2>1, <2>2, CallUpdate DEF SchedulerNext, TypeOK
  <1>5. ASSUME NEW w \in Workers, RunStep(w)
        PROVE  TypeOK'
    <2>0. call[w] \in [at : Phases, src : Sources \union {0}, run : Nat,
                       outcome : {"none"} \union FinalStatus]
          /\ CallOK(call[w])
      BY DEF TypeOK, CallOK
    <2>g. ASSUME NEW p \in Phases \ {"idle", "mark", "stamp"}, call[w].at # "idle",
                 Goto(w, p), UNCHANGED <<source, runs, todo>>
          PROVE  TypeOK'
      <3>1. CallOK([call[w] EXCEPT !.at = p])
        BY <2>0, <2>g DEF CallOK
      <3>2. call' = [call EXCEPT ![w] = [call[w] EXCEPT !.at = p]]
        BY <2>g DEF Goto
      <3> QED
        BY <3>1, <3>2, <1>b, <2>g
    <2>r. ASSUME Return(w), UNCHANGED <<source, runs, todo>>
          PROVE  TypeOK'
      BY <2>r, <1>b, <1>idle DEF Return
    <2>f. ASSUME NEW st \in FinalStatus, call[w].at # "idle",
                 Finish(w, st), UNCHANGED <<source, runs, todo>>
          PROVE  TypeOK'
      <3>1. CallOK([call[w] EXCEPT !.at = "mark", !.outcome = st])
        BY <2>0, <2>f DEF CallOK
      <3>2. call' = [call EXCEPT ![w] = [call[w] EXCEPT !.at = "mark", !.outcome = st]]
        BY <2>f, <2>0 DEF Finish, TypeOK
      <3> QED
        BY <3>1, <3>2, <1>b, <2>f
    <2>1. CASE Lookup(w)
      BY <2>1, <2>g, <2>r DEF Lookup
    <2>2. CASE CheckRunning(w)
      BY <2>2, <2>g, <2>r DEF CheckRunning
    <2>3. CASE InsertRun(w)
      <3> DEFINE c == [call[w] EXCEPT !.at = "fetch", !.run = Len(runs) + 1]
      <3>1. call[w].src \in Sources /\ runs \in Seq(Rows) /\ Len(runs) + 1 \in Nat
        BY <2>3, LenProperties DEF InsertRun, TypeOK, Rows
      <3>2. CallOK(c) /\ call' = [call EXCEPT ![w] = c]
        BY <2>3, <2>0, <3>1 DEF InsertRun, CallOK, TypeOK
      <3>3. runs' \in Seq(Rows)
        BY <2>3, <3>1, InsertLemma DEF InsertRun, Rows
      <3> QED
        BY <3>2, <3>3, <2>3, CallUpdate DEF InsertRun, TypeOK, Rows
    <2>4. CASE Fetch(w)
      BY <2>4, <2>g, <2>f DEF Fetch
    <2>5. CASE EnsurePlaylist(w)
      BY <2>5, <2>g DEF EnsurePlaylist
    <2>6. CASE ImportEntries(w)
      BY <2>6, <2>f DEF ImportEntries
    <2>7. CASE MarkRun(w)
      <3> DEFINE c == [call[w] EXCEPT !.at = "stamp"]
      <3>1. call[w].outcome \in FinalStatus /\ runs \in Seq(Rows)
        BY <2>7 DEF MarkRun, TypeOK, Rows
      <3>2. CallOK(c) /\ call' = [call EXCEPT ![w] = c]
        BY <2>7, <2>0, <3>1 DEF MarkRun, Goto, CallOK
      <3>3. runs' \in Seq(Rows)
        <4>1. CASE call[w].run \in DOMAIN runs
          BY <2>7, <3>1, <4>1, UpdateLemma DEF MarkRun
        <4>2. CASE call[w].run \notin DOMAIN runs
          <5>1. runs \in [DOMAIN runs -> Rows]
            BY <3>1, LenProperties
          <5>2. runs' = runs
            BY <2>7, <5>1, <4>2 DEF MarkRun
          <5> QED
            BY <5>2, <3>1
        <4> QED
          BY <4>1, <4>2
      <3> QED
        BY <3>2, <3>3, <2>7, CallUpdate DEF MarkRun, TypeOK, Rows
    <2>8. CASE StampSource(w)
      <3>1. call[w].src \in Sources /\ call' = [call EXCEPT ![w] = Idle]
        BY <2>8 DEF StampSource, Return, TypeOK
      <3>2. source' \in [Sources -> [enabled : BOOLEAN, synced : Synced]]
        BY <2>8, <3>1 DEF StampSource, TypeOK
      <3> QED
        BY <3>1, <3>2, <2>8, <1>idle, CallUpdate DEF StampSource, TypeOK
    <2> QED
      BY <1>5, <2>1, <2>2, <2>3, <2>4, <2>5, <2>6, <2>7, <2>8 DEF RunStep
  <1>6. ASSUME NEW w \in Workers, CheckRunningError(w) \/ StatementFails(w)
        PROVE  TypeOK'
    <2>1. CASE CheckRunningError(w)
      <3>1. CallOK([call[w] EXCEPT !.at = "insert"])
        BY <2>1 DEF CheckRunningError, CallOK, TypeOK
      <3> QED
        BY <2>1, <3>1, <1>b DEF CheckRunningError, Goto
    <2>2. CASE StatementFails(w)
      BY <2>2, <1>b, <1>idle DEF StatementFails, Return
    <2> QED
      BY <1>6, <2>1, <2>2
  <1>7. ASSUME NEW r \in Requests, ClientDisconnects(r)
        PROVE  TypeOK'
    BY <1>7, <1>b, <1>idle DEF ClientDisconnects, Return, Workers
  <1>8. CASE Crash
    BY <1>8 DEF Crash, TypeOK, Idle
  <1>9. CASE UNCHANGED vars
    BY <1>9 DEF vars, TypeOK
  <1> QED
    BY <1>1, <1>2, <1>3, <1>4, <1>5, <1>6, <1>7, <1>8, <1>9 DEF Next, SchedulerLoop

\* Every reachable state is well typed.
THEOREM TypeCorrect == Spec => []TypeOK
  <1>1. Init => TypeOK
    BY DEF Init, TypeOK, Idle, Phases, FinalStatus, Status, Synced
  <1>2. TypeOK /\ [Next]_vars => TypeOK'
    BY TypeInductive
  <1> QED
    BY <1>1, <1>2, PTL DEF Spec

-----------------------------------------------------------------------------

\* Rows a worker does not hold stay out of its way: a step that changes
\* neither the table nor the row of any owner keeps ownership.  It may only
\* let a worker go idle or move on among the phases.
LEMMA OwnershipFrame ==
    ASSUME RunOwnership, TypeOK, TypeOK', NEW w \in Workers,
           runs' = runs,
           \A v \in Workers \ {w} : call'[v] = call[v],
           call'[w].at \in Owning =>
              /\ call[w].at \in Owning /\ call[w].at # "stamp" /\ call'[w].at # "stamp"
              /\ call'[w].src = call[w].src /\ call'[w].run = call[w].run
    PROVE  RunOwnership'
  <1>1. ASSUME NEW v \in Workers, call'[v].at \in Owning
        PROVE  /\ call[v].at \in Owning /\ HoldsItsRun(v)'
               /\ call'[v].run = call[v].run
    <2>1. call[v].at \in Owning /\ HoldsItsRun(v)
      BY <1>1 DEF RunOwnership
    <2> QED
      BY <1>1, <2>1 DEF HoldsItsRun
  <1> QED
    BY <1>1 DEF RunOwnership, Owning

\* A worker owns the row it inserted and nobody else's, under every step.
LEMMA OwnershipInductive == RunOwnership /\ TypeOK /\ TypeOK' /\ [Next]_vars => RunOwnership'
  <1> SUFFICES ASSUME RunOwnership, TypeOK, TypeOK', [Next]_vars
               PROVE  RunOwnership'
    OBVIOUS
  <1>a. ASSUME UNCHANGED <<runs, call>>
        PROVE  RunOwnership'
    BY <1>a DEF RunOwnership, HoldsItsRun
  <1>b. ASSUME NEW w \in Workers, NEW c, c.at \notin Owning,
               call' = [call EXCEPT ![w] = c], runs' = runs
        PROVE  RunOwnership'
    <2>1. call'[w] = c /\ \A v \in Workers \ {w} : call'[v] = call[v]
      BY <1>b DEF TypeOK
    <2> QED
      BY <1>b, <2>1, OwnershipFrame
  <1>i. Idle.at \notin Owning
    BY DEF Idle, Owning
  <1>1. ASSUME NEW s \in Sources, CreateSource(s) \/ UpdateSource(s) \/ IntervalElapses(s)
        PROVE  RunOwnership'
    BY <1>1, <1>a DEF CreateSource, UpdateSource, IntervalElapses
  <1>2. ASSUME NEW w \in Workers, NEW s \in Sources, Begin(w, s), runs' = runs
        PROVE  RunOwnership'
    <2>1. [Idle EXCEPT !.at = "lookup", !.src = s].at \notin Owning
      BY DEF Idle, Owning
    <2> QED
      BY <1>2, <2>1, <1>b DEF Begin
  <1>3. CASE SchedulerTick
    BY <1>3, <1>a DEF SchedulerTick
  <1>r. ASSUME NEW w \in Workers, Return(w), runs' = runs
        PROVE  RunOwnership'
    BY <1>r, <1>b, <1>i DEF Return
  <1>g. ASSUME NEW w \in Workers, NEW p \in {"check", "insert"}, Goto(w, p), runs' = runs
        PROVE  RunOwnership'
    <2> DEFINE c == [call[w] EXCEPT !.at = p]
    <2>1. c.at = p /\ call' = [call EXCEPT ![w] = c]
      BY <1>g DEF Goto, TypeOK
    <2> QED
      BY <1>g, <2>1, <1>b DEF Owning
  <1>5. ASSUME NEW w \in Workers, RunStep(w)
        PROVE  RunOwnership'
    <2>n. ASSUME NEW p \in {"ensure", "import"}, Goto(w, p), runs' = runs,
                 call[w].at \in Owning \ {"stamp"}
          PROVE  RunOwnership'
      <3>1. \A v \in Workers \ {w} : call'[v] = call[v]
        BY <2>n DEF Goto, TypeOK
      <3>2. call'[w] = [call[w] EXCEPT !.at = p]
        BY <2>n DEF Goto, TypeOK
      <3>3. /\ call'[w].at = p
            /\ call'[w].src = call[w].src /\ call'[w].run = call[w].run
        BY <3>2 DEF TypeOK
      <3> QED
        BY <2>n, <3>1, <3>3, OwnershipFrame
    <2>f. ASSUME NEW st \in FinalStatus, Finish(w, st), runs' = runs,
                 call[w].at \in Owning \ {"stamp"}
          PROVE  RunOwnership'
      <3>1. \A v \in Workers \ {w} : call'[v] = call[v]
        BY <2>f DEF Finish, TypeOK
      <3>2. call'[w] = [call[w] EXCEPT !.at = "mark", !.outcome = st]
        BY <2>f DEF Finish, TypeOK
      <3>3. /\ call'[w].at = "mark"
            /\ call'[w].src = call[w].src /\ call'[w].run = call[w].run
        BY <3>2 DEF TypeOK
      <3> QED
        BY <2>f, <3>1, <3>3, OwnershipFrame
    <2>1. CASE Lookup(w)
      BY <2>1, <1>g, <1>r DEF Lookup
    <2>2. CASE CheckRunning(w)
      BY <2>2, <1>g, <1>r DEF CheckRunning
    <2>3. CASE InsertRun(w)
      <3> DEFINE row == [source |-> call[w].src, status |-> "running"]
      <3>1. runs \in Seq(Rows) /\ row \in Rows /\ runs' = Append(runs, row)
        BY <2>3 DEF InsertRun, TypeOK, Rows, Status
      <3>2. /\ DOMAIN runs' = DOMAIN runs \union {Len(runs) + 1}
            /\ runs'[Len(runs) + 1] = row
            /\ \A i \in DOMAIN runs : runs'[i] = runs[i]
            /\ Len(runs) + 1 \notin DOMAIN runs
        BY <3>1, InsertLemma
      <3>3. /\ call'[w].at = "fetch" /\ call'[w].src = call[w].src
            /\ call'[w].run = Len(runs) + 1
            /\ \A v \in Workers \ {w} : call'[v] = call[v]
        BY <2>3 DEF InsertRun, TypeOK
      <3>4. \A v \in Workers \ {w} : call[v].at \in Owning =>
               HoldsItsRun(v) /\ call[v].run # Len(runs) + 1
        BY <3>2 DEF RunOwnership, HoldsItsRun
      <3>5. \A v \in Workers : call'[v].at \in Owning => HoldsItsRun(v)'
        BY <3>2, <3>3, <3>4 DEF HoldsItsRun
      <3> QED
        BY <3>3, <3>4, <3>5 DEF RunOwnership
    <2>4. CASE Fetch(w)
      BY <2>4, <2>n, <2>f DEF Fetch, Owning, FinalStatus
    <2>5. CASE EnsurePlaylist(w)
      BY <2>5, <2>n DEF EnsurePlaylist, Owning
    <2>6. CASE ImportEntries(w)
      BY <2>6, <2>f DEF ImportEntries, Owning, FinalStatus
    <2>7. CASE MarkRun(w)
      <3> DEFINE id == call[w].run
      <3>1. /\ call[w].at \in Owning /\ HoldsItsRun(w)
            /\ call[w].outcome \in Status /\ runs \in Seq(Rows)
        BY <2>7 DEF MarkRun, RunOwnership, TypeOK, Owning, Rows, Status
      <3>2. id \in DOMAIN runs /\ runs[id].source = call[w].src
        BY <3>1 DEF HoldsItsRun
      <3>3. /\ DOMAIN runs' = DOMAIN runs
            /\ runs'[id] = [source |-> call[w].src, status |-> call[w].outcome]
            /\ \A i \in DOMAIN runs \ {id} : runs'[i] = runs[i]
        BY <2>7, <3>1, <3>2, UpdateLemma DEF MarkRun
      <3>4. call'[w] = [call[w] EXCEPT !.at = "stamp"]
            /\ \A v \in Workers \ {w} : call'[v] = call[v]
        BY <2>7 DEF MarkRun, Goto, TypeOK
      <3>5. /\ call'[w].at = "stamp" /\ call'[w].src = call[w].src
            /\ call'[w].run = id /\ call'[w].outcome = call[w].outcome
        BY <3>4 DEF TypeOK
      <3>6. \A v \in Workers \ {w} : call[v].at \in Owning =>
               HoldsItsRun(v) /\ call[v].run # id
        BY <3>1 DEF RunOwnership
      <3>7. HoldsItsRun(w)'
        BY <3>2, <3>3, <3>5 DEF HoldsItsRun
      <3>8. ASSUME NEW v \in Workers \ {w}, call'[v].at \in Owning
            PROVE  HoldsItsRun(v)' /\ call'[v].run # id
        <4>1. call'[v] = call[v] /\ HoldsItsRun(v) /\ call[v].run # id
          BY <3>4, <3>6, <3>8
        <4>2. call[v].run \in DOMAIN runs \ {id}
          BY <4>1 DEF HoldsItsRun
        <4>3. runs'[call[v].run] = runs[call[v].run]
          BY <3>3, <4>2
        <4> QED
          BY <3>3, <4>1, <4>2, <4>3 DEF HoldsItsRun
      <3>9. ASSUME NEW u \in Workers, NEW v \in Workers, u # v,
                   call'[u].at \in Owning, call'[v].at \in Owning
            PROVE  call'[u].run # call'[v].run
        <4>1. CASE u = w \/ v = w
          BY <4>1, <3>5, <3>8, <3>9
        <4>2. CASE u # w /\ v # w
          BY <4>2, <3>4, <3>9 DEF RunOwnership
        <4> QED
          BY <4>1, <4>2
      <3> QED
        BY <3>7, <3>8, <3>9 DEF RunOwnership
    <2>8. CASE StampSource(w)
      BY <2>8, <1>r DEF StampSource
    <2> QED
      BY <1>5, <2>1, <2>2, <2>3, <2>4, <2>5, <2>6, <2>7, <2>8 DEF RunStep
  <1>8. CASE Crash
    BY <1>8, <1>i DEF Crash, RunOwnership
  <1>9. CASE UNCHANGED vars
    BY <1>9, <1>a DEF vars
  <1> QED
    <2>1. ASSUME NEW r \in Requests, NEW s \in Sources, RequestRun(r, s)
          PROVE  RunOwnership'
      BY <2>1, <1>2 DEF RequestRun, Workers
    <2>2. ASSUME NEW s \in Sources, SchedulerNext(s)
          PROVE  RunOwnership'
      BY <2>2, <1>2 DEF SchedulerNext, Workers
    <2>3. ASSUME NEW w \in Workers, CheckRunningError(w) \/ StatementFails(w)
          PROVE  RunOwnership'
      BY <2>3, <1>g, <1>r DEF CheckRunningError, StatementFails
    <2>4. ASSUME NEW r \in Requests, ClientDisconnects(r)
          PROVE  RunOwnership'
      BY <2>4, <1>r DEF ClientDisconnects, Workers
    <2> QED
      BY <1>1, <1>3, <1>5, <1>8, <1>9, <2>1, <2>2, <2>3, <2>4 DEF Next, SchedulerLoop

\* Whatever overlaps, fails, is dropped or crashes, a worker marks only the
\* row it inserted itself, and no row is ever held by two workers.
THEOREM OwnershipTheorem == Spec => []RunOwnership
  <1>1. Init => RunOwnership
    BY DEF Init, RunOwnership, Idle, Owning
  <1>2. RunOwnership /\ TypeOK /\ TypeOK' /\ [Next]_vars => RunOwnership'
    BY OwnershipInductive
  <1> QED
    BY <1>1, <1>2, TypeCorrect, PTL DEF Spec

-----------------------------------------------------------------------------

\* The refinement mapping's image of last_synced_at.
StampedSources == {s \in Sources : source[s].synced \notin {"absent", "never"}}

\* A step that leaves the run table alone and gives no source its first
\* last_synced_at is invisible in the ledger.
LEMMA LedgerStutter ==
    ASSUME runs' = runs, StampedSources' = StampedSources
    PROVE  UNCHANGED Ledger!vars
  BY DEF Ledger!vars, StampedSources

\* Every step of the workers, the administrator, the clock and the faults is
\* a step of the ledger or leaves it as it is.
LEMMA LedgerStep ==
    TypeOK /\ RunOwnership /\ [Next]_vars => [Ledger!Next]_Ledger!vars
  <1> SUFFICES ASSUME TypeOK, RunOwnership, [Next]_vars
               PROVE  Ledger!Next \/ UNCHANGED Ledger!vars
    OBVIOUS
  <1>a. ASSUME UNCHANGED <<source, runs>>
        PROVE  UNCHANGED Ledger!vars
    BY <1>a, LedgerStutter DEF StampedSources
  <1>1. ASSUME NEW s \in Sources, CreateSource(s) \/ UpdateSource(s) \/ IntervalElapses(s)
        PROVE  UNCHANGED Ledger!vars
    <2>0. source \in [Sources -> [enabled : BOOLEAN, synced : Synced]]
      BY DEF TypeOK
    <2>1. \A t \in Sources \ {s} : source'[t] = source[t]
      BY <1>1, <2>0 DEF CreateSource, UpdateSource, IntervalElapses
    <2>2. source'[s].synced \in {"absent", "never"}
             <=> source[s].synced \in {"absent", "never"}
      <3>1. CASE CreateSource(s)
        BY <3>1, <2>0 DEF CreateSource
      <3>2. CASE UpdateSource(s)
        BY <3>2, <2>0 DEF UpdateSource
      <3>3. CASE IntervalElapses(s)
        BY <3>3, <2>0 DEF IntervalElapses
      <3> QED
        BY <1>1, <3>1, <3>2, <3>3
    <2>3. StampedSources' = StampedSources
      BY <2>1, <2>2 DEF StampedSources
    <2>4. runs' = runs
      BY <1>1 DEF CreateSource, UpdateSource, IntervalElapses
    <2> QED
      BY <2>3, <2>4, LedgerStutter
  <1>2. ASSUME NEW w \in Workers, InsertRun(w)
        PROVE  Ledger!Next
    <2>1. call[w].src \in Sources /\ Ledger!Open(call[w].src)
      BY <1>2 DEF InsertRun, TypeOK, Ledger!Open
    <2> QED
      BY <2>1 DEF Ledger!Next
  <1>3. ASSUME NEW w \in Workers, MarkRun(w)
        PROVE  Ledger!Next
    <2>1. /\ call[w].run \in DOMAIN runs /\ runs[call[w].run].status = "running"
          /\ call[w].outcome \in FinalStatus
      <3>1. call[w].at = "mark" /\ HoldsItsRun(w)
        BY <1>3 DEF MarkRun, RunOwnership, Owning
      <3>2. call[w].outcome \in FinalStatus
        BY <3>1 DEF TypeOK
      <3> QED
        BY <3>1, <3>2 DEF HoldsItsRun
    <2>2. Ledger!Close(call[w].run, call[w].outcome)
      BY <1>3, <2>1 DEF MarkRun, Ledger!Close
    <2> QED
      BY <2>1, <2>2 DEF Ledger!Next, Ledger!FinalStatus, FinalStatus
  <1>4. ASSUME NEW w \in Workers, StampSource(w)
        PROVE  Ledger!Next
    <2>0. PICK s \in Sources : s = call[w].src
      BY <1>4 DEF StampSource, TypeOK
    <2>1. /\ s \in Sources /\ call[w].run \in DOMAIN runs
          /\ runs[call[w].run].source = s /\ runs[call[w].run].status \in FinalStatus
      <3>1. call[w].at = "stamp" /\ HoldsItsRun(w)
        BY <1>4 DEF StampSource, RunOwnership, Owning
      <3>2. s \in Sources /\ call[w].outcome \in FinalStatus
        BY <3>1 DEF TypeOK
      <3> QED
        BY <2>0, <3>1, <3>2 DEF HoldsItsRun
    <2>2. Ledger!Finished(s)
      BY <2>1 DEF Ledger!Finished, Ledger!FinalStatus, FinalStatus
    <2>3. StampedSources' = StampedSources \union {s}
      <3>1. source'[s].synced = "recent" /\ \A t \in Sources \ {s} : source'[t] = source[t]
        BY <1>4, <2>0 DEF StampSource, TypeOK
      <3> QED
        BY <2>1, <3>1 DEF StampedSources
    <2>4. Ledger!Stamp(s)
      BY <1>4, <2>2, <2>3 DEF StampSource, Ledger!Stamp, StampedSources
    <2> QED
      BY <2>4 DEF Ledger!Next
  <1>5. ASSUME NEW w \in Workers, RunStep(w)
        PROVE  Ledger!Next \/ UNCHANGED Ledger!vars
    <2>1. CASE Lookup(w) \/ CheckRunning(w) \/ Fetch(w) \/ EnsurePlaylist(w) \/ ImportEntries(w)
      BY <2>1, <1>a DEF Lookup, CheckRunning, Fetch, EnsurePlaylist, ImportEntries
    <2> QED
      BY <1>2, <1>3, <1>4, <1>5, <2>1 DEF RunStep
  <1>6. ASSUME NEW w \in Workers, CheckRunningError(w) \/ StatementFails(w)
        PROVE  UNCHANGED Ledger!vars
    BY <1>6, <1>a DEF CheckRunningError, StatementFails
  <1>7. ASSUME NEW r \in Requests, ClientDisconnects(r) \/ \E s \in Sources : RequestRun(r, s)
        PROVE  UNCHANGED Ledger!vars
    BY <1>7, <1>a DEF ClientDisconnects, RequestRun
  <1>8. CASE SchedulerLoop \/ Crash \/ UNCHANGED vars
    BY <1>8, <1>a DEF SchedulerLoop, SchedulerTick, SchedulerNext, Crash, vars
  <1> QED
    BY <1>1, <1>5, <1>6, <1>7, <1>8 DEF Next

\* The import's bookkeeping implements the ledger: rows are only appended,
\* closed at most once and never edited after, and last_synced_at is set only
\* when a run of the source has finished -- under any interleaving and faults.
THEOREM LedgerImplemented == Spec => LedgerRefinement
  <1>1. Init => Ledger!Init
    BY DEF Init, Ledger!Init
  <1>2. TypeOK /\ RunOwnership /\ [Next]_vars => [Ledger!Next]_Ledger!vars
    BY LedgerStep
  <1> QED
    BY <1>1, <1>2, TypeCorrect, OwnershipTheorem, PTL
    DEF Spec, LedgerRefinement, Ledger!Spec

-----------------------------------------------------------------------------
(* How far runs of one source overlap, when the COUNT does not fail.       *)

LEMMA WindowShrinks ==
    ASSUME TypeOK, NEW w \in Workers, NEW c, call' = [call EXCEPT ![w] = c], c.at # "insert",
           NEW s
    PROVE  Window(s)' \subseteq Window(s)
  <1>1. call'[w] = c /\ \A v \in Workers \ {w} : call'[v] = call[v]
    BY DEF TypeOK
  <1> QED
    BY <1>1 DEF Window

\* A worker comes between the check and the INSERT only while no row of the
\* source says 'running'; the other steps that matter are the two that write rows.
LEMMA WindowMoves ==
    ASSUME TypeOK, "dbError" \notin Faults, [Next]_vars, NEW s \in Sources
    PROVE  \/ UNCHANGED runs /\ (Window(s)' \subseteq Window(s) \/ RunningOf(s) = {})
           \/ \E w \in Workers : InsertRun(w) \/ MarkRun(w)
  <1> DEFINE Moved == UNCHANGED runs /\ (Window(s)' \subseteq Window(s) \/ RunningOf(s) = {})
  <1>1. ASSUME UNCHANGED <<runs, call>>
        PROVE  Moved
    BY <1>1 DEF Window
  <1>2. ASSUME NEW w \in Workers, Return(w), UNCHANGED runs
        PROVE  Moved
    <2>1. Idle.at # "insert"
      BY DEF Idle
    <2> QED
      BY <1>2, <2>1, WindowShrinks DEF Return
  <1>3. ASSUME NEW w \in Workers, NEW t \in Sources, Begin(w, t), UNCHANGED runs
        PROVE  Moved
    <2>1. [Idle EXCEPT !.at = "lookup", !.src = t].at # "insert"
      BY DEF Idle
    <2> QED
      BY <1>3, <2>1, WindowShrinks DEF Begin
  <1>4. ASSUME NEW w \in Workers, NEW p, p # "insert", Goto(w, p), UNCHANGED runs
        PROVE  Moved
    <2>1. [call[w] EXCEPT !.at = p].at # "insert"
      BY <1>4 DEF TypeOK
    <2>2. call' = [call EXCEPT ![w] = [call[w] EXCEPT !.at = p]]
      BY <1>4 DEF Goto
    <2> QED
      BY <1>4, <2>1, <2>2, WindowShrinks
  <1>5. ASSUME NEW w \in Workers, NEW st, Finish(w, st), UNCHANGED runs
        PROVE  Moved
    <2>1. [call[w] EXCEPT !.at = "mark", !.outcome = st].at # "insert"
      BY DEF TypeOK
    <2>2. call' = [call EXCEPT ![w] = [call[w] EXCEPT !.at = "mark", !.outcome = st]]
      BY <1>5 DEF Finish, TypeOK
    <2> QED
      BY <1>5, <2>1, <2>2, WindowShrinks
  <1>6. ASSUME NEW w \in Workers, CheckRunning(w)
        PROVE  Moved
    <2>1. CASE RunningOf(call[w].src) # {}
      BY <1>2, <1>6, <2>1 DEF CheckRunning
    <2>2. CASE RunningOf(call[w].src) = {}
      <3>1. Goto(w, "insert") /\ UNCHANGED runs
        BY <1>6, <2>2 DEF CheckRunning
      <3>2. CASE call[w].src = s
        BY <2>2, <3>1, <3>2
      <3>3. CASE call[w].src # s
        <4>1. call'[w].src = call[w].src /\ \A v \in Workers \ {w} : call'[v] = call[v]
          BY <3>1 DEF Goto, TypeOK
        <4> QED
          BY <3>1, <3>3, <4>1 DEF Window
      <3> QED
        BY <3>2, <3>3
    <2> QED
      BY <2>1, <2>2
  <1>7. ASSUME NEW w \in Workers, RunStep(w), ~InsertRun(w), ~MarkRun(w)
        PROVE  Moved
    <2>1. CASE Lookup(w)
      BY <1>2, <1>4, <2>1 DEF Lookup
    <2>2. CASE Fetch(w) \/ EnsurePlaylist(w) \/ ImportEntries(w) \/ StampSource(w)
      BY <1>2, <1>4, <1>5, <2>2 DEF Fetch, EnsurePlaylist, ImportEntries, StampSource
    <2> QED
      BY <1>6, <1>7, <2>1, <2>2 DEF RunStep
  <1>8. ASSUME NEW t \in Sources, CreateSource(t) \/ UpdateSource(t) \/ IntervalElapses(t)
        PROVE  Moved
    BY <1>1, <1>8 DEF CreateSource, UpdateSource, IntervalElapses
  <1>9. ASSUME NEW r \in Requests, ClientDisconnects(r) \/ \E t \in Sources : RequestRun(r, t)
        PROVE  Moved
    BY <1>2, <1>3, <1>9 DEF ClientDisconnects, RequestRun, Workers
  <1>10. CASE SchedulerLoop
    BY <1>1, <1>3, <1>10 DEF SchedulerLoop, SchedulerTick, SchedulerNext, Workers
  <1>11. CASE Crash
    BY <1>11 DEF Crash, Window, Idle
  <1>12. CASE UNCHANGED vars
    BY <1>1, <1>12 DEF vars
  <1> QED
    BY <1>7, <1>8, <1>9, <1>10, <1>11, <1>12 DEF Next, CheckRunningError, StatementFails

\* The INSERT adds one row to its source and takes one worker out of the window.
LEMMA InsertMoves ==
    ASSUME TypeOK, NEW w \in Workers, InsertRun(w), NEW s \in Sources
    PROVE  /\ call[w].src = s => /\ w \in Window(s) /\ Window(s)' = Window(s) \ {w}
                                 /\ RunningOf(s)' = RunningOf(s) \union {Len(runs) + 1}
           /\ call[w].src # s => /\ Window(s)' = Window(s) /\ RunsOf(s)' = RunsOf(s)
                                 /\ RunningOf(s)' = RunningOf(s)
  <1> DEFINE row == [source |-> call[w].src, status |-> "running"]
  <1>1. runs \in Seq(Rows) /\ row \in Rows /\ runs' = Append(runs, row)
    BY DEF InsertRun, TypeOK, Rows, Status
  <1>2. /\ DOMAIN runs' = DOMAIN runs \union {Len(runs) + 1}
        /\ runs'[Len(runs) + 1] = row
        /\ \A i \in DOMAIN runs : runs'[i] = runs[i]
        /\ Len(runs) + 1 \notin DOMAIN runs
    BY <1>1, InsertLemma
  <1>3. /\ call[w].at = "insert" /\ call'[w].at = "fetch"
        /\ \A v \in Workers \ {w} : call'[v] = call[v]
    BY DEF InsertRun, TypeOK
  <1> QED
    BY <1>2, <1>3 DEF Window, RunsOf, RunningOf

\* Closing a row leaves every row with its source and makes none 'running'.
LEMMA MarkMoves ==
    ASSUME TypeOK, RunOwnership, NEW w \in Workers, MarkRun(w), NEW s \in Sources
    PROVE  /\ Window(s)' \subseteq Window(s) /\ RunsOf(s)' = RunsOf(s)
           /\ RunningOf(s)' \subseteq RunningOf(s)
  <1> DEFINE id == call[w].run
  <1>1. /\ call[w].at \in Owning /\ HoldsItsRun(w)
        /\ call[w].outcome \in FinalStatus /\ runs \in Seq(Rows)
    BY DEF MarkRun, RunOwnership, TypeOK, Owning, Rows
  <1>2. id \in DOMAIN runs /\ call[w].outcome \in Status /\ call[w].outcome # "running"
    BY <1>1 DEF HoldsItsRun, Status, FinalStatus
  <1>3. /\ DOMAIN runs' = DOMAIN runs
        /\ runs'[id] = [source |-> runs[id].source, status |-> call[w].outcome]
        /\ \A i \in DOMAIN runs \ {id} : runs'[i] = runs[i]
    BY <1>1, <1>2, UpdateLemma DEF MarkRun
  <1>4. RunsOf(s)' = RunsOf(s) /\ RunningOf(s)' \subseteq RunningOf(s)
    BY <1>2, <1>3 DEF RunsOf, RunningOf
  <1>5. [call[w] EXCEPT !.at = "stamp"].at # "insert"
    BY DEF TypeOK
  <1>6. Window(s)' \subseteq Window(s)
    BY <1>5, WindowShrinks DEF MarkRun, Goto
  <1> QED
    BY <1>4, <1>6

LEMMA OverlapCounts ==
    ASSUME TypeOK, NEW s
    PROVE  /\ IsFiniteSet(Workers) /\ Cardinality(Workers) \in Nat
           /\ IsFiniteSet(RunningOf(s)) /\ Cardinality(RunningOf(s)) \in Nat
           /\ IsFiniteSet(Window(s)) /\ Cardinality(Window(s)) \in Nat
           /\ Cardinality(Window(s)) <= Cardinality(Workers)
  <1>1. IsFiniteSet(Workers)
    BY WorkersAssumption, FS_Singleton, FS_Union DEF Workers
  <1>2. IsFiniteSet(DOMAIN runs)
    <2>1. Len(runs) \in Nat /\ DOMAIN runs = 1..Len(runs)
      BY LenProperties DEF TypeOK
    <2> QED
      BY <2>1, FS_Interval
  <1>3. RunningOf(s) \subseteq DOMAIN runs /\ Window(s) \subseteq Workers
    BY DEF RunningOf, RunsOf, Window
  <1> QED
    BY <1>1, <1>2, <1>3, FS_Subset, FS_CardinalityType

LEMMA OverlapInductive ==
    ASSUME "dbError" \notin Faults, TypeOK, TypeOK', RunOwnership, OverlapBound, [Next]_vars
    PROVE  OverlapBound'
  <1> SUFFICES ASSUME NEW s \in Sources
               PROVE  Cardinality(RunningOf(s)') + Cardinality(Window(s)') <= Cardinality(Workers)
    BY DEF OverlapBound
  <1>0. Cardinality(RunningOf(s)) + Cardinality(Window(s)) <= Cardinality(Workers)
    BY DEF OverlapBound
  <1>1. /\ IsFiniteSet(RunningOf(s)') /\ Cardinality(RunningOf(s)') \in Nat
        /\ IsFiniteSet(Window(s)') /\ Cardinality(Window(s)') \in Nat
        /\ Cardinality(Window(s)') <= Cardinality(Workers)
    <2>1. Len(runs') \in Nat /\ DOMAIN runs' = 1..Len(runs')
      BY LenProperties DEF TypeOK
    <2>2. IsFiniteSet(DOMAIN runs')
      BY <2>1, FS_Interval
    <2>3. RunningOf(s)' \subseteq DOMAIN runs' /\ Window(s)' \subseteq Workers
      BY DEF RunningOf, RunsOf, Window
    <2>4. IsFiniteSet(Workers)
      BY OverlapCounts
    <2> QED
      BY <2>2, <2>3, <2>4, FS_Subset, FS_CardinalityType
  <1>2. /\ IsFiniteSet(RunningOf(s)) /\ Cardinality(RunningOf(s)) \in Nat
        /\ IsFiniteSet(Window(s)) /\ Cardinality(Window(s)) \in Nat
        /\ Cardinality(Workers) \in Nat
    BY OverlapCounts
  <1>3. ASSUME RunningOf(s)' \subseteq RunningOf(s), Window(s)' \subseteq Window(s)
        PROVE  Cardinality(RunningOf(s)') + Cardinality(Window(s)') <= Cardinality(Workers)
    <2>1. /\ Cardinality(RunningOf(s)') <= Cardinality(RunningOf(s))
          /\ Cardinality(Window(s)') <= Cardinality(Window(s))
      BY <1>2, <1>3, FS_Subset
    <2> QED
      BY <1>0, <1>1, <1>2, <2>1
  <1>4. CASE UNCHANGED runs /\ RunningOf(s) = {}
    <2>1. RunningOf(s)' = {}
      BY <1>4 DEF RunningOf, RunsOf
    <2> QED
      BY <1>1, <1>2, <2>1, FS_EmptySet
  <1>5. CASE UNCHANGED runs /\ Window(s)' \subseteq Window(s)
    <2>1. RunningOf(s)' = RunningOf(s)
      BY <1>5 DEF RunningOf, RunsOf
    <2> QED
      BY <1>3, <1>5, <2>1
  <1>6. ASSUME NEW w \in Workers, InsertRun(w)
        PROVE  Cardinality(RunningOf(s)') + Cardinality(Window(s)') <= Cardinality(Workers)
    <2>1. CASE call[w].src = s
      <3>1. /\ w \in Window(s) /\ Window(s)' = Window(s) \ {w}
            /\ RunningOf(s)' = RunningOf(s) \union {Len(runs) + 1}
        BY <1>6, <2>1, InsertMoves
      <3>2. Cardinality(Window(s)') = Cardinality(Window(s)) - 1
        BY <1>2, <3>1, FS_RemoveElement
      <3>3. Cardinality(RunningOf(s)') <= Cardinality(RunningOf(s)) + 1
        <4>1. Cardinality(RunningOf(s) \union {Len(runs) + 1})
                 \in {Cardinality(RunningOf(s)), Cardinality(RunningOf(s)) + 1}
          BY <1>2, FS_AddElement
        <4> QED
          BY <1>2, <3>1, <4>1
      <3> QED
        BY <1>0, <1>1, <1>2, <3>2, <3>3
    <2>2. CASE call[w].src # s
      BY <1>3, <1>6, <2>2, InsertMoves
    <2> QED
      BY <2>1, <2>2
  <1>7. ASSUME NEW w \in Workers, MarkRun(w)
        PROVE  Cardinality(RunningOf(s)') + Cardinality(Window(s)') <= Cardinality(Workers)
    BY <1>3, <1>7, MarkMoves
  <1> QED
    BY <1>4, <1>5, <1>6, <1>7, WindowMoves

\* When no COUNT fails, the rows of a source that say 'running' and the workers
\* about to insert one never outnumber the workers, crashes included.
THEOREM OverlapIsBounded ==
    ASSUME "dbError" \notin Faults
    PROVE  Spec => []OverlapBound
  <1>1. Init => OverlapBound
    <2> SUFFICES ASSUME Init, NEW s \in Sources
                 PROVE  Cardinality(RunningOf(s)) + Cardinality(Window(s)) <= Cardinality(Workers)
      BY DEF OverlapBound
    <2>1. RunningOf(s) = {} /\ Window(s) = {}
      BY DEF Init, RunningOf, RunsOf, Window, Idle
    <2>2. IsFiniteSet(Workers)
      BY WorkersAssumption, FS_Singleton, FS_Union DEF Workers
    <2> QED
      BY <2>1, <2>2, FS_EmptySet, FS_CardinalityType
  <1>2. TypeOK /\ TypeOK' /\ RunOwnership /\ OverlapBound /\ [Next]_vars => OverlapBound'
    BY OverlapInductive
  <1> QED
    BY <1>1, <1>2, TypeCorrect, OwnershipTheorem, PTL DEF Spec

\* When no COUNT fails, a row no worker will close stops its source for ever.
THEOREM WedgeLasts ==
    ASSUME "dbError" \notin Faults
    PROVE  Spec => WedgedStaysWedged
  <1> DEFINE Wedged(s) == Window(s) = {} /\ \E i \in RunningOf(s) : Orphan(i)
  <1>1. TypeOK /\ RunOwnership /\ [Next]_vars =>
           [\A s \in Sources : Wedged(s) => Window(s)' = {} /\ RunsOf(s)' = RunsOf(s)]_vars
    <2> SUFFICES ASSUME TypeOK, RunOwnership, [Next]_vars, NEW s \in Sources,
                        Window(s) = {}, RunningOf(s) # {}
                 PROVE  Window(s)' = {} /\ RunsOf(s)' = RunsOf(s)
      OBVIOUS
    <2>1. CASE UNCHANGED runs
      <3>1. ASSUME NEW w \in Workers, InsertRun(w) \/ MarkRun(w)
            PROVE  Window(s)' \subseteq Window(s)
        BY <3>1, InsertMoves, MarkMoves
      <3>2. Window(s)' \subseteq Window(s)
        BY <3>1, WindowMoves
      <3> QED
        BY <2>1, <3>2 DEF RunsOf
    <2>2. ASSUME NEW w \in Workers, InsertRun(w)
          PROVE  Window(s)' = {} /\ RunsOf(s)' = RunsOf(s)
      BY <2>2, InsertMoves
    <2>3. ASSUME NEW w \in Workers, MarkRun(w)
          PROVE  Window(s)' = {} /\ RunsOf(s)' = RunsOf(s)
      BY <2>3, MarkMoves
    <2> QED
      BY <2>1, <2>2, <2>3, WindowMoves
  <1> QED
    BY <1>1, TypeCorrect, OwnershipTheorem, PTL DEF Spec, WedgedStaysWedged

-----------------------------------------------------------------------------
(* When the README's claims about runs in flight hold.                     *)

\* With no request under way the scheduler is the only worker, and the bound on
\* overlaps is one: its INSERT finds no running row of the source, whatever
\* crashes left behind.
THEOREM SchedulerAloneSkips ==
    ASSUME Requests = {}, "dbError" \notin Faults
    PROVE  Spec => SchedulerSkipsInFlight
  <1>1. ASSUME TypeOK, OverlapBound, InsertRun(Scheduler)
        PROVE  RunningOf(call[Scheduler].src) = {}
    <2> DEFINE s == call[Scheduler].src
    <2>1. Workers = {Scheduler} /\ Cardinality(Workers) = 1
      BY FS_Singleton DEF Workers
    <2>2. s \in Sources /\ Scheduler \in Window(s)
      BY <1>1, <2>1 DEF TypeOK, InsertRun, Window
    <2>3. /\ IsFiniteSet(RunningOf(s)) /\ Cardinality(RunningOf(s)) \in Nat
          /\ IsFiniteSet(Window(s)) /\ Cardinality(Window(s)) \in Nat
      BY <1>1, OverlapCounts
    <2>4. Cardinality(Window(s)) # 0
      BY <2>2, <2>3, FS_EmptySet
    <2>5. Cardinality(RunningOf(s)) + Cardinality(Window(s)) <= 1
      BY <1>1, <2>1, <2>2 DEF OverlapBound
    <2>6. Cardinality(RunningOf(s)) = 0
      BY <2>3, <2>4, <2>5
    <2> QED
      BY <2>3, <2>6, FS_EmptySet
  <1>2. TypeOK /\ OverlapBound /\ [Next]_vars =>
           [InsertRun(Scheduler) => RunningOf(call[Scheduler].src) = {}]_vars
    BY <1>1
  <1>3. Spec => []OverlapBound
    BY OverlapIsBounded
  <1> QED
    BY <1>2, <1>3, TypeCorrect, PTL DEF Spec, SchedulerSkipsInFlight

\* The worker that will close row i.
Owns(w, i) == call[w].at \in Owning /\ call[w].run = i

\* A worker that goes on holds the row it held; rows are as they were.
LEMMA HoldsOn ==
    ASSUME TypeOK, RunningMeansInFlight, NEW w \in Workers, NEW c,
           call' = [call EXCEPT ![w] = c], UNCHANGED runs,
           \A i \in DOMAIN runs : Owns(w, i) /\ runs[i].status = "running" =>
                                     c.at \in Owning /\ c.run = i
    PROVE  RunningMeansInFlight'
  <1>1. call'[w] = c /\ \A v \in Workers \ {w} : call'[v] = call[v]
    BY DEF TypeOK
  <1> QED
    BY <1>1 DEF RunningMeansInFlight, Orphan, Owns

LEMMA InsertIsInFlight ==
    ASSUME TypeOK, RunningMeansInFlight, NEW w \in Workers, InsertRun(w)
    PROVE  RunningMeansInFlight'
  <1> DEFINE row == [source |-> call[w].src, status |-> "running"]
  <1>1. runs \in Seq(Rows) /\ row \in Rows /\ runs' = Append(runs, row)
    BY DEF InsertRun, TypeOK, Rows, Status
  <1>2. /\ DOMAIN runs' = DOMAIN runs \union {Len(runs) + 1}
        /\ \A i \in DOMAIN runs : runs'[i] = runs[i]
    BY <1>1, InsertLemma
  <1>3. /\ call[w].at = "insert" /\ call'[w].at = "fetch" /\ call'[w].run = Len(runs) + 1
        /\ \A v \in Workers \ {w} : call'[v] = call[v]
    BY DEF InsertRun, TypeOK
  <1> QED
    BY <1>2, <1>3 DEF RunningMeansInFlight, Orphan, Owning

LEMMA MarkIsInFlight ==
    ASSUME TypeOK, RunOwnership, RunningMeansInFlight, NEW w \in Workers, MarkRun(w)
    PROVE  RunningMeansInFlight'
  <1> DEFINE id == call[w].run
  <1>1. /\ call[w].at \in Owning /\ HoldsItsRun(w)
        /\ call[w].outcome \in FinalStatus /\ runs \in Seq(Rows)
    BY DEF MarkRun, RunOwnership, TypeOK, Owning, Rows
  <1>2. id \in DOMAIN runs /\ call[w].outcome \in Status /\ call[w].outcome # "running"
    BY <1>1 DEF HoldsItsRun, Status, FinalStatus
  <1>3. /\ DOMAIN runs' = DOMAIN runs
        /\ runs'[id] = [source |-> runs[id].source, status |-> call[w].outcome]
        /\ \A i \in DOMAIN runs \ {id} : runs'[i] = runs[i]
    BY <1>1, <1>2, UpdateLemma DEF MarkRun
  <1>4. \A v \in Workers \ {w} : call'[v] = call[v]
    BY DEF MarkRun, Goto, TypeOK
  <1> QED
    BY <1>2, <1>3, <1>4 DEF RunningMeansInFlight, Orphan

LEMMA StepIsInFlight ==
    ASSUME TypeOK, RunOwnership, RunningMeansInFlight, NEW w \in Workers, RunStep(w)
    PROVE  RunningMeansInFlight'
  <1>1. ASSUME Return(w), UNCHANGED runs,
               \A i \in DOMAIN runs : Owns(w, i) => runs[i].status # "running"
        PROVE  RunningMeansInFlight'
    BY <1>1, HoldsOn DEF Return
  <1>2. ASSUME NEW p \in Owning \union {"check", "insert"}, Goto(w, p), UNCHANGED runs,
               p \in Owning \/ call[w].at \notin Owning
        PROVE  RunningMeansInFlight'
    <2> DEFINE c == [call[w] EXCEPT !.at = p]
    <2>1. c.at = p /\ c.run = call[w].run
      BY DEF TypeOK
    <2>2. call' = [call EXCEPT ![w] = c]
      BY <1>2 DEF Goto
    <2> HIDE DEF c
    <2> QED
      BY <1>2, <2>1, <2>2, HoldsOn DEF Owns
  <1>3. ASSUME NEW st, Finish(w, st), UNCHANGED runs
        PROVE  RunningMeansInFlight'
    <2> DEFINE c == [call[w] EXCEPT !.at = "mark", !.outcome = st]
    <2>1. c.at = "mark" /\ c.run = call[w].run
      BY DEF TypeOK
    <2>2. call' = [call EXCEPT ![w] = c]
      BY <1>3 DEF Finish, TypeOK
    <2> HIDE DEF c
    <2> QED
      BY <1>3, <2>1, <2>2, HoldsOn DEF Owns, Owning
  <1>4. CASE Lookup(w) \/ CheckRunning(w)
    BY <1>1, <1>2, <1>4 DEF Lookup, CheckRunning, Owns, Owning
  <1>5. CASE Fetch(w) \/ EnsurePlaylist(w) \/ ImportEntries(w)
    BY <1>2, <1>3, <1>5 DEF Fetch, EnsurePlaylist, ImportEntries, Owning
  <1>6. CASE StampSource(w)
    <2>1. \A i \in DOMAIN runs : Owns(w, i) => runs[i].status # "running"
      <3>1. call[w].at = "stamp" /\ HoldsItsRun(w) /\ call[w].outcome \in FinalStatus
        BY <1>6 DEF StampSource, RunOwnership, Owning, TypeOK
      <3>2. runs[call[w].run].status = call[w].outcome
        BY <3>1 DEF HoldsItsRun
      <3> QED
        BY <3>1, <3>2 DEF Owns, FinalStatus
    <2> QED
      BY <1>1, <1>6, <2>1 DEF StampSource
  <1>7. CASE InsertRun(w)
    BY <1>7, InsertIsInFlight
  <1>8. CASE MarkRun(w)
    BY <1>8, MarkIsInFlight
  <1> QED
    BY <1>4, <1>5, <1>6, <1>7, <1>8 DEF RunStep

\* While nothing is interrupted and no statement fails, a row says 'running'
\* only as long as some worker executes that run.
THEOREM RunningIsInFlight ==
    ASSUME Faults = {}
    PROVE  Spec => []RunningMeansInFlight
  <1>1. Init => RunningMeansInFlight
    BY DEF Init, RunningMeansInFlight
  <1>2. TypeOK /\ RunOwnership /\ RunningMeansInFlight /\ [Next]_vars => RunningMeansInFlight'
    <2> SUFFICES ASSUME TypeOK, RunOwnership, RunningMeansInFlight, [Next]_vars
                 PROVE  RunningMeansInFlight'
      OBVIOUS
    <2>1. ASSUME UNCHANGED <<runs, call>>
          PROVE  RunningMeansInFlight'
      BY <2>1 DEF RunningMeansInFlight, Orphan
    <2>2. ASSUME NEW w \in Workers, NEW s, Begin(w, s), call[w].at = "idle", UNCHANGED runs
          PROVE  RunningMeansInFlight'
      BY <2>2, HoldsOn DEF Begin, Owns, Owning
    <2>3. ASSUME NEW s \in Sources, CreateSource(s) \/ UpdateSource(s) \/ IntervalElapses(s)
          PROVE  RunningMeansInFlight'
      BY <2>1, <2>3 DEF CreateSource, UpdateSource, IntervalElapses
    <2>4. ASSUME NEW r \in Requests, NEW s, RequestRun(r, s)
          PROVE  RunningMeansInFlight'
      BY <2>2, <2>4 DEF RequestRun, Workers
    <2>5. CASE SchedulerLoop
      BY <2>1, <2>2, <2>5 DEF SchedulerLoop, SchedulerTick, SchedulerNext, Workers
    <2>6. ASSUME NEW w \in Workers, RunStep(w)
          PROVE  RunningMeansInFlight'
      BY <2>6, StepIsInFlight
    <2> QED
      BY <2>1, <2>3, <2>4, <2>5, <2>6
         DEF Next, CheckRunningError, StatementFails, ClientDisconnects, Crash, vars
  <1> QED
    BY <1>1, <1>2, TypeCorrect, OwnershipTheorem, PTL DEF Spec
=============================================================================
