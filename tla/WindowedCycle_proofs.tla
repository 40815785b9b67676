------------------------- MODULE WindowedCycle_proofs -------------------------
(***************************************************************************)
(* What holds of a windowed cycle whatever its window, its throttles, its  *)
(* collection, the time its publishes take and the calls that start and    *)
(* stop it: which lateness of its reads the Mongo cursor survives, what an *)
(* iteration covers, and what a cancelled worker still does.               *)
(***************************************************************************)
EXTENDS WindowedCycle, FiniteSetTheorems, TLAPS

\* What Euclidean division leaves of its dividend.
LEMMA Division ==
    ASSUME NEW a \in Nat, NEW b \in Nat \ {0}
    PROVE  a \div b \in Nat /\ (a \div b) * b <= a
  BY SMT

\* determineRateInterval leaves the bounds it is given only if they are the wrong way
\* round, which nothing checks: then it may return the minimum, above the maximum.
THEOREM DelayInBounds ==
    ASSUME NEW interval \in Nat, NEW min \in Nat, NEW max \in Nat,
           NEW publishes \in Nat \ {0}
    PROVE  LET delay == PublishDelay(interval, min, max, publishes)
           IN  /\ delay \in Nat
               /\ min <= max => min <= delay /\ delay <= max
               /\ min > max => delay \in {min, max}
  <1>1. interval \div publishes \in Nat
    BY Division
  <1> QED
    BY <1>1 DEF PublishDelay

\* computeBatchsize asks for a batch that is consumed, one item an interval,
\* before the cursor's timeout.
THEOREM BatchFitsCursor ==
    ASSUME NEW interval \in Nat \ {0}, interval < CursorTimeout
    PROVE  /\ BatchSize(interval) \in 1..MaxBatch
           /\ BatchSize(interval) * interval <= CursorTimeout
  <1> DEFINE size == CursorTimeout \div interval
  <1>1. CursorTimeout \in Nat /\ MaxBatch \in Nat \ {0}
    BY WindowAssumption
  <1>2. size \in Nat /\ size * interval <= CursorTimeout
    BY <1>1, Division
  <1>3. BatchSize(interval) = IF size <= 1 THEN 1
                              ELSE IF size > MaxBatch THEN MaxBatch ELSE size - 1
    BY DEF BatchSize
  <1> HIDE DEF size
  <1>4. \A n \in Nat : n <= size => n * interval <= CursorTimeout
    <2> SUFFICES ASSUME NEW n \in Nat, n <= size PROVE n * interval <= size * interval
      BY <1>1, <1>2
    <2>1. \E m \in Nat : size = n + m
      <3>1. size - n \in Nat /\ size = n + (size - n)
        BY <1>2
      <3> QED BY <3>1
    <2>2. PICK m \in Nat : size = n + m
      BY <2>1
    <2>3. (n + m) * interval = n * interval + m * interval /\ m * interval \in Nat
          /\ n * interval \in Nat
      BY SMT
    <2> QED BY <2>2, <2>3
  <1>5. CASE size <= 1
    BY <1>1, <1>3, <1>5
  <1>6. CASE size > 1 /\ size > MaxBatch
    BY <1>1, <1>2, <1>3, <1>4, <1>6
  <1>7. CASE size > 1 /\ size <= MaxBatch
    BY <1>1, <1>2, <1>3, <1>4, <1>7
  <1> QED
    BY <1>1, <1>2, <1>5, <1>6, <1>7

-----------------------------------------------------------------------------
(* The state machine. *)

USE WindowAssumption, DocsAssumption, NoWorkerAssumption

LEMMA BatchType == MaxThrottle # 0 => BatchSize(MaxThrottle) \in 1..MaxBatch
  <1> SUFFICES ASSUME MaxThrottle # 0 PROVE BatchSize(MaxThrottle) \in 1..MaxBatch
    OBVIOUS
  <1>1. MaxThrottle \in Nat \ {0} /\ CursorTimeout \in Nat
    OBVIOUS
  <1>2. CursorTimeout \div MaxThrottle \in Nat
    BY <1>1, Division
  <1> QED
    BY <1>2 DEF BatchSize

LEMMA CountIsNat == \A S \in SUBSET Docs : Cardinality(S) \in Nat
  BY FS_Subset, FS_CardinalityType

LEMMA DelayIsNat ==
    \A n \in Nat : PublishDelay(TimeWindow, MinThrottle, MaxThrottle, n + 1) \in Nat
  <1> TAKE n \in Nat
  <1>1. n + 1 \in Nat \ {0}
    OBVIOUS
  <1> QED
    BY <1>1, DelayInBounds

LEMMA SetPC ==
    ASSUME NEW r \in Work, NEW p \in WorkPC PROVE [r EXCEPT !.pc = p] \in Work
  BY DEF Work

\* The updates of several fields of a worker that the actions make.
LEMMA Windows ==
    ASSUME NEW r \in Work, NEW i \in Int, NEW t \in 0..MaxTime
    PROVE  [r EXCEPT !.pc = "query", !.start = i, !.end = t] \in Work
  BY DEF Work, WorkPC

LEMMA Wakes ==
    ASSUME NEW r \in Work, NEW t \in 0..MaxTime
    PROVE  [r EXCEPT !.pc = "query", !.end = t] \in Work
  BY DEF Work, WorkPC

LEMMA Pauses ==
    ASSUME NEW r \in Work, NEW t \in 0..MaxTime, NEW n \in Nat
    PROVE  [r EXCEPT !.pc = "query", !.end = t, !.idle = n] \in Work
  BY DEF Work, WorkPC

LEMMA Queries ==
    ASSUME NEW r \in Work, NEW S \in SUBSET Docs, NEW b \in 0..MaxBatch
    PROVE  [r EXCEPT !.pc = "setup", !.todo = S, !.fetched = b, !.idle = 0, !.lag = 0] \in Work
  BY DEF Work, WorkPC

LEMMA Throttles ==
    ASSUME NEW r \in Work, NEW n \in Nat
    PROVE  [r EXCEPT !.pc = "queue", !.live = TRUE, !.rate = n, !.since = n] \in Work
  BY DEF Work, WorkPC

LEMMA Proceeds ==
    ASSUME NEW r \in Work, NEW n \in Nat
    PROVE  [r EXCEPT !.pc = "next", !.idle = n, !.since = 0] \in Work
  BY DEF Work, WorkPC

LEMMA Finishes ==
    ASSUME NEW r \in Work PROVE [r EXCEPT !.pc = "pause", !.live = FALSE] \in Work
  BY DEF Work, WorkPC

LEMMA Fetches ==
    ASSUME NEW r \in Work, NEW b \in 0..MaxBatch
    PROVE  [r EXCEPT !.fetched = b, !.idle = 0, !.lag = 0] \in Work
  BY DEF Work

\* What a publish makes of a worker.
LEMMA PublishedType ==
    ASSUME NEW r \in Work, r.fetched > 0, NEW d, NEW time \in Nat, NEW late \in 0..2
    PROVE  LET n == Published(r, d, time, late)
           IN  /\ n \in Work
               /\ n.pc = "record" /\ n.fetched = r.fetched - 1 /\ n.rate = r.rate
               /\ n.live = r.live /\ n.idle = r.idle + time
               /\ n.since = IF time < r.rate THEN time ELSE r.rate
               /\ n.lag = r.lag + Larger(Larger(time, r.rate) - MaxThrottle, 0)
               /\ n.start = r.start /\ n.end = r.end /\ n.todo = r.todo \ {d}
               /\ n.late = late
  <1> DEFINE since == IF time < r.rate THEN time ELSE r.rate
             lag == r.lag + Larger(Larger(time, r.rate) - MaxThrottle, 0)
  <1>1. since \in Nat /\ lag \in Nat /\ r.idle + time \in Nat
        /\ r.fetched - 1 \in 0..MaxBatch /\ r.todo \ {d} \in SUBSET Docs
    BY DEF Larger, Work
  <1>2. Published(r, d, time, late) =
          [r EXCEPT !.pc = "record", !.todo = r.todo \ {d}, !.fetched = r.fetched - 1,
                    !.idle = r.idle + time, !.since = since, !.lag = lag, !.late = late]
    BY DEF Published
  <1> HIDE DEF since, lag
  <1>3. /\ Published(r, d, time, late) \in Work
        /\ LET n == Published(r, d, time, late)
           IN  /\ n.pc = "record" /\ n.fetched = r.fetched - 1 /\ n.rate = r.rate
               /\ n.live = r.live /\ n.idle = r.idle + time
               /\ n.since = since /\ n.lag = lag
               /\ n.start = r.start /\ n.end = r.end /\ n.todo = r.todo \ {d}
               /\ n.late = late
    BY <1>1, <1>2 DEF Work, WorkPC
  <1> QED
    BY <1>3 DEF since, lag

\* A publish, with its document and how long it takes.
LEMMA PublishStep ==
    ASSUME TypeOK, NEW w \in Workers, Publish(w)
    PROVE  \E d \in work[w].todo, time \in Nat :
             LET n == work'[w]
                 r == work[w]
             IN  /\ r.pc = "next" /\ r.fetched > 0 /\ n \in Work
                 /\ pending' = pending \ {d} /\ n.todo = r.todo \ {d}
                 /\ n.pc = "record" /\ n.fetched = r.fetched - 1 /\ n.rate = r.rate
                 /\ n.live = r.live /\ n.idle = r.idle + time
                 /\ n.since = IF time < r.rate THEN time ELSE r.rate
                 /\ n.lag = r.lag + Larger(Larger(time, r.rate) - MaxThrottle, 0)
                 /\ n.start = r.start /\ n.end = r.end
                 /\ n.late = IF w \in cancelled /\ r.late < 2 THEN r.late + 1 ELSE r.late
                 /\ work' = [work EXCEPT ![w] = n]
  <1> DEFINE late == work[w].late + (IF w \in cancelled /\ work[w].late < 2 THEN 1 ELSE 0)
  <1>1. PICK d \in work[w].todo, time \in PublishTimes :
           /\ pending' = pending \ {d}
           /\ work' = [work EXCEPT ![w] = Published(work[w], d, time, late)]
    BY DEF Publish
  <1>2. work[w] \in Work /\ time \in Nat /\ work[w].pc = "next" /\ work[w].fetched > 0
    BY DEF TypeOK, Publish, At
  <1>3. late \in 0..2 /\ late = IF w \in cancelled /\ work[w].late < 2 THEN work[w].late + 1
                                ELSE work[w].late
    BY <1>2 DEF Work
  <1> HIDE DEF late
  <1> DEFINE n == Published(work[w], d, time, late)
  <1>4. work' = [work EXCEPT ![w] = n] /\ work'[w] = n
    BY <1>1 DEF TypeOK
  <1>5. /\ n \in Work
        /\ n.pc = "record" /\ n.fetched = work[w].fetched - 1 /\ n.rate = work[w].rate
        /\ n.live = work[w].live /\ n.idle = work[w].idle + time
        /\ n.since = IF time < work[w].rate THEN time ELSE work[w].rate
        /\ n.lag = work[w].lag + Larger(Larger(time, work[w].rate) - MaxThrottle, 0)
        /\ n.start = work[w].start /\ n.end = work[w].end /\ n.todo = work[w].todo \ {d}
        /\ n.late = late
    BY <1>2, <1>3, PublishedType
  <1> HIDE DEF n
  <1> QED
    BY <1>1, <1>2, <1>3, <1>4, <1>5

LEMMA TypeInit == Init => TypeOK /\ RateInv
  <1>0. IdleWork \in Work /\ "init" \in WorkPC
    BY DEF IdleWork, Work, WorkPC
  <1>1. IdleWork \in Work /\ [IdleWork EXCEPT !.pc = "init"] \in Work
    BY <1>0, SetPC
  <1>2. [NewMeta EXCEPT !.state = {"starting"}] \in Meta
    BY DEF NewMeta, Meta, CycleStates
  <1> QED
    BY <1>1, <1>2 DEF Init, TypeOK, RateInv, IdleWork

\* A step keeps the throttles' clocks, and gets past a query only with an interval to
\* divide by.
LEMMA RateStep ==
    ASSUME TypeOK, RateInv, [Next]_vars
    PROVE  RateInv'
  <1>0. /\ work \in [Workers -> Work]
        /\ \A v \in Workers : work[v].since <= work[v].rate
                              /\ (work[v].pc \notin {"idle", "init", "query"} => MaxThrottle # 0)
    BY DEF TypeOK, RateInv
  <1>1. ASSUME NEW w \in Workers, Worker(w) PROVE RateInv'
    <2> DEFINE r == work[w]
               n == work'[w]
    <2>f. \A v \in Workers \ {w} : work'[v] = work[v]
      BY <1>0, <1>1 DEF Worker, WorkerStep, FirstWindow, Query, QueryFailed, Setup, CoolDown, Wake,
         Proceed, Stopped, CursorSkips, FetchMore, Publish, Record, Finish,
         CursorFailed, Failed, Pause, Exit, Goto
    <2> SUFFICES n.since <= n.rate /\ (n.pc \notin {"idle", "init", "query"} => MaxThrottle # 0)
      BY <1>0, <2>f DEF RateInv
    <2>0. r \in Work /\ r.since \in Nat /\ r.rate \in Nat /\ r.since <= r.rate
          /\ (r.pc \notin {"idle", "init"} => MaxThrottle # 0)
      BY <1>0, <1>1 DEF Work, Worker, Panicked, At
    <2>1. CASE Setup(w)
      <3>1. Cardinality(r.todo) \in Nat
        BY <2>0, CountIsNat DEF Work
      <3>2. PublishDelay(TimeWindow, MinThrottle, MaxThrottle, Cardinality(r.todo) + 1) \in Nat
        BY <3>1, DelayIsNat
      <3>3. \/ n.since = r.since /\ n.rate = r.rate
            \/ n.since = n.rate /\ n.rate \in Nat
        BY <1>0, <2>1, <2>0, <3>2 DEF Setup, Goto, Work
      <3>4. r.pc = "setup"
        BY <2>1 DEF Setup, At
      <3> QED
        BY <2>0, <3>3, <3>4
    <2>2. CASE Publish(w)
      <3>1. PICK time \in Nat : n.rate = r.rate
                                /\ n.since = IF time < r.rate THEN time ELSE r.rate
        BY <2>2, PublishStep
      <3>2. r.pc = "next"
        BY <2>2 DEF Publish, At
      <3> QED
        BY <2>0, <3>1, <3>2
    <2>3. CASE QueryFailed(w) \/ Stopped(w) \/ Failed(w)
      BY <1>0, <2>3 DEF QueryFailed, Stopped, Failed, Exit, IdleWork
    <2>4. CASE Proceed(w)
      BY <1>0, <2>0, <2>4 DEF Proceed, At, Work
    <2>5. CASE FirstWindow(w) \/ Query(w) \/ CoolDown(w) \/ Wake(w) \/ CursorSkips(w)
               \/ FetchMore(w) \/ Record(w) \/ Finish(w) \/ CursorFailed(w) \/ Pause(w)
      <3>1. n.since = r.since /\ n.rate = r.rate
        BY <1>0, <2>0, <2>5 DEF FirstWindow, Query, CoolDown, Wake, CursorSkips, FetchMore, Record,
           Finish, CursorFailed, Pause, Goto, Work
      <3>2. n.pc \notin {"idle", "init", "query"} => r.pc \notin {"idle", "init"}
        BY <1>0, <2>0, <2>5 DEF FirstWindow, Query, CoolDown, Wake, CursorSkips, FetchMore, Record,
           Finish, CursorFailed, Pause, Goto, At, Work
      <3> QED
        BY <2>0, <3>1, <3>2
    <2> QED
      BY <1>1, <2>1, <2>2, <2>3, <2>4, <2>5 DEF Worker, WorkerStep
  <1>2. ASSUME NEW w \in Workers, Start(w) PROVE RateInv'
    BY <1>0, <1>2 DEF Start, At, Goto, RateInv, Work
  <1>3. CASE UNCHANGED work
    BY <1>0, <1>3 DEF RateInv
  <1> QED
    BY <1>1, <1>2, <1>3 DEF Next, vars, StopCall, StopReturn, Modify, Tick

LEMMA TypeStep == TypeOK /\ RateInv /\ [Next]_vars => TypeOK' /\ RateInv'
  <1> SUFFICES ASSUME TypeOK, RateInv, [Next]_vars PROVE TypeOK'
    BY RateStep
  <1> USE DEF TypeOK, Meta, CycleStates
  <1>0. CASE UNCHANGED vars
    BY <1>0 DEF vars
  <1>1. ASSUME NEW w \in Workers, Worker(w) PROVE TypeOK'
    <2> DEFINE r == work[w]
    <2>0. /\ r \in Work /\ now \in 0..MaxTime /\ now - TimeWindow \in Int
          /\ r.idle + Wait(w) \in Nat
          /\ InWindow(r.start, r.end) \in SUBSET Docs
          /\ r.pc \notin {"idle", "init"} => BatchSize(MaxThrottle) \in 0..MaxBatch
      BY <1>1, BatchType DEF Work, Wait, InWindow, RateInv, Worker, Panicked, At
    <2>1. CASE FirstWindow(w)
      BY <2>1, <2>0, Windows DEF FirstWindow, At
    <2>2. CASE Query(w)
      <3> DEFINE n == [r EXCEPT !.pc = "setup", !.todo = InWindow(r.start, r.end),
                                !.fetched = BatchSize(MaxThrottle), !.idle = 0, !.lag = 0]
      <3>1. n \in Work
        BY <2>0, <2>2, Queries DEF Query, At
      <3>2. work' = [work EXCEPT ![w] = n]
        BY <2>2 DEF Query
      <3> HIDE DEF n
      <3>3. work' \in [Workers -> Work]
        BY <3>1, <3>2
      <3> QED
        BY <2>2, <3>3 DEF Query
    <2>3. CASE QueryFailed(w)
      BY <2>3 DEF QueryFailed, At, UpdateState, Exit, IdleWork, Work, WorkPC
    <2>4. CASE Setup(w)
      <3> DEFINE count == Cardinality(r.todo)
                 rate == PublishDelay(TimeWindow, MinThrottle, MaxThrottle, count + 1)
                 n == [r EXCEPT !.pc = "queue", !.live = TRUE, !.rate = rate, !.since = rate]
      <3>1. count \in Nat
        BY <2>0, CountIsNat DEF Work
      <3>2. rate \in Nat
        BY <3>1, DelayIsNat
      <3>3. n \in Work /\ [r EXCEPT !.pc = "cool"] \in Work
        BY <2>0, <3>2, Throttles, SetPC DEF WorkPC
      <3>4. work' = [work EXCEPT ![w] = n] \/ work' = [work EXCEPT ![w] = [r EXCEPT !.pc = "cool"]]
        BY <2>4 DEF Setup, Goto
      <3>5. work' \in [Workers -> Work]
        BY <3>3, <3>4
      <3> QED
        BY <2>4, <3>1, <3>5 DEF Setup
    <2>5. CASE CoolDown(w)
      BY <2>5 DEF CoolDown, At, UpdateState, Goto, Work, WorkPC
    <2>6. CASE Wake(w)
      BY <2>6, <2>0, Wakes DEF Wake, At
    <2>7. CASE Proceed(w)
      <3>1. [r EXCEPT !.pc = "next", !.idle = r.idle + Wait(w), !.since = 0] \in Work
        BY <2>0, Proceeds
      <3>2. work' = [work EXCEPT ![w] = [r EXCEPT !.pc = "next", !.idle = r.idle + Wait(w),
                                                  !.since = 0]]
        BY <2>7 DEF Proceed
      <3> QED
        BY <2>7, <3>1, <3>2 DEF Proceed
    <2>8. CASE Stopped(w)
      BY <2>8 DEF Stopped, At, UpdateState, Exit, IdleWork, Work, WorkPC
    <2>9. CASE CursorSkips(w)
      BY <2>9 DEF CursorSkips, At, Work, WorkPC
    <2>10. CASE FetchMore(w)
      <3>1. [r EXCEPT !.fetched = BatchSize(MaxThrottle), !.idle = 0, !.lag = 0] \in Work
        BY <2>0, <2>10, Fetches DEF FetchMore, At
      <3>2. work' = [work EXCEPT ![w] = [r EXCEPT !.fetched = BatchSize(MaxThrottle),
                                                  !.idle = 0, !.lag = 0]]
        BY <2>10 DEF FetchMore
      <3> QED
        BY <2>10, <3>1, <3>2 DEF FetchMore
    <2>11. CASE Publish(w)
      <3>1. work' \in [Workers -> Work] /\ pending' \subseteq Docs
        BY <2>11, PublishStep
      <3> QED
        BY <2>11, <3>1 DEF Publish
    <2>12. CASE Record(w)
      BY <2>12 DEF Record, At, UpdateProgress, Goto, Work, WorkPC
    <2>13. CASE Finish(w)
      <3>1. [r EXCEPT !.pc = "pause", !.live = FALSE] \in Work
        BY <2>0, Finishes
      <3>2. work' = [work EXCEPT ![w] = [r EXCEPT !.pc = "pause", !.live = FALSE]]
        BY <2>13 DEF Finish
      <3> QED
        BY <2>13, <3>1, <3>2 DEF Finish, UpdateProgress
    <2>14. CASE CursorFailed(w)
      BY <2>14 DEF CursorFailed, At, UpdateProgress, Goto, Work, WorkPC
    <2>15. CASE Failed(w)
      BY <2>15 DEF Failed, At, UpdateState, Exit, IdleWork, Work, WorkPC
    <2>16. CASE Pause(w)
      <3>1. [r EXCEPT !.pc = "query", !.end = now, !.idle = r.idle + Wait(w)] \in Work
        BY <2>0, Pauses
      <3>2. work' = [work EXCEPT ![w] = [r EXCEPT !.pc = "query", !.end = now,
                                                  !.idle = r.idle + Wait(w)]]
        BY <2>16 DEF Pause
      <3> QED
        BY <2>16, <3>1, <3>2 DEF Pause
    <2> QED
      BY <1>1, <2>1, <2>2, <2>3, <2>4, <2>5, <2>6, <2>7, <2>8, <2>9, <2>10, <2>11,
         <2>12, <2>13, <2>14, <2>15, <2>16 DEF Worker, WorkerStep
  <1>2. ASSUME NEW w \in Workers, Start(w) PROVE TypeOK'
    BY <1>2 DEF Start, At, UpdateState, Goto, Work, WorkPC
  <1>3. ASSUME NEW k \in Clients, StopCall(k) \/ StopReturn(k) PROVE TypeOK'
    BY <1>3 DEF StopCall, StopReturn, UpdateState, Work, WorkPC
  <1>4. ASSUME NEW d \in Docs, Modify(d) PROVE TypeOK'
    BY <1>4 DEF Modify, Work, WorkPC
  <1>5. CASE Tick
    BY <1>5 DEF Tick, Work, WorkPC
  <1> QED
    BY <1>0, <1>1, <1>2, <1>3, <1>4, <1>5 DEF Next

\* Every reachable state is well typed.
THEOREM TypeCorrect == Spec => []TypeOK
  BY TypeInit, TypeStep, PTL DEF Spec

-----------------------------------------------------------------------------
(* The pace of a worker, and the cursor it reads from. *)

\* k intervals are no longer than n, if k is no more than n.
LEMMA FewerIntervals ==
    ASSUME NEW k \in Int, NEW n \in Nat, k <= n
    PROVE  k * MaxThrottle \in Int /\ n * MaxThrottle \in Int /\ k * MaxThrottle <= n * MaxThrottle
  <1>1. PICK m \in Nat : n = k + m
    <2>1. n - k \in Nat /\ n = k + (n - k)
      OBVIOUS
    <2> QED BY <2>1
  <1>2. (k + m) * MaxThrottle = k * MaxThrottle + m * MaxThrottle
        /\ m * MaxThrottle \in Nat /\ k * MaxThrottle \in Int
    BY SMT
  <1> QED
    BY <1>1, <1>2

\* Reading a whole batch takes no longer than the cursor lives, and leaves time for one
\* interval more where the cursor lives for two.
LEMMA BatchLeavesOne ==
    ASSUME MaxThrottle # 0, MaxThrottle < CursorTimeout
    PROVE  /\ BatchSize(MaxThrottle) * MaxThrottle <= CursorTimeout
           /\ 2 * MaxThrottle <= CursorTimeout =>
                BatchSize(MaxThrottle) * MaxThrottle + MaxThrottle <= CursorTimeout
  <1> DEFINE size == CursorTimeout \div MaxThrottle
             B == BatchSize(MaxThrottle)
  <1>1. B \in 1..MaxBatch /\ B * MaxThrottle <= CursorTimeout
    BY BatchFitsCursor
  <1>2. size \in Nat /\ size * MaxThrottle <= CursorTimeout
    BY Division
  <1>3. B = IF size <= 1 THEN 1 ELSE IF size > MaxBatch THEN MaxBatch ELSE size - 1
    BY DEF BatchSize
  <1>4. (B + 1) * MaxThrottle = B * MaxThrottle + MaxThrottle /\ B * MaxThrottle \in Int
    BY <1>1, SMT
  <1> HIDE DEF size, B
  <1>5. CASE size <= 1
    <2>1. B = 1
      BY <1>3, <1>5
    <2>2. 1 * MaxThrottle = MaxThrottle
      OBVIOUS
    <2>3. 2 * MaxThrottle <= CursorTimeout => MaxThrottle + MaxThrottle <= CursorTimeout
      OBVIOUS
    <2> QED BY <1>1, <2>1, <2>2, <2>3 DEF B
  <1>6. CASE size > 1
    <2>1. B + 1 <= size
      BY <1>1, <1>2, <1>3, <1>6
    <2>2. (B + 1) * MaxThrottle <= size * MaxThrottle /\ size * MaxThrottle \in Int
      BY <1>1, <1>2, <2>1, FewerIntervals
    <2> QED
      BY <1>1, <1>2, <1>4, <2>2 DEF B
  <1> QED
    BY <1>2, <1>5, <1>6

\* A worker that took no more than its batch, and has waited for no more than an
\* interval per item and its lag, is in time when its lag allows.
LEMMA InTime ==
    ASSUME MaxThrottle # 0, MaxThrottle < CursorTimeout, NEW r, OnTime(r),
           r.idle \in Nat, r.lag \in Nat, r.fetched \in Nat,
           BatchSize(MaxThrottle) \in Nat,
           r.idle <= (BatchSize(MaxThrottle) - r.fetched) * MaxThrottle + r.lag
    PROVE  r.idle <= CursorTimeout
  <1> DEFINE B == BatchSize(MaxThrottle)
  <1>1. B - r.fetched \in Int /\ B - r.fetched <= B
    OBVIOUS
  <1>2. (B - r.fetched) * MaxThrottle <= B * MaxThrottle /\ B * MaxThrottle \in Int
        /\ (B - r.fetched) * MaxThrottle \in Int
    BY <1>1, FewerIntervals
  <1>3. r.idle <= B * MaxThrottle + r.lag
    BY <1>2
  <1> QED
    BY <1>2, <1>3, BatchLeavesOne DEF OnTime

LEMMA PaceInit == Init => PaceInv
  BY DEF Init, PaceInv, Paced, IdleWork

\* A worker that is not setting up or publishing owes its cursor nothing.
LEMMA AtRest ==
    ASSUME NEW r \in Work, OnTime(r) => r.idle <= CursorTimeout,
           r.pc \notin {"setup", "queue", "next", "record"}, r.pc = "pause" => ~r.live
    PROVE  Paced(r)
  BY DEF Paced

LEMMA PaceStep == TypeOK /\ RateInv /\ PaceInv /\ TypeOK' /\ [Next]_vars => PaceInv'
  <1> SUFFICES ASSUME TypeOK, RateInv, PaceInv, TypeOK', [Next]_vars PROVE PaceInv'
    OBVIOUS
  <1>0. /\ work \in [Workers -> Work] /\ work' \in [Workers -> Work]
        /\ \A v \in Workers : Paced(work[v]) /\ work[v].since <= work[v].rate
    BY DEF TypeOK, PaceInv, RateInv
  <1>a. CursorTimeout \in Nat /\ MaxThrottle \in Nat
    OBVIOUS
  <1>1. ASSUME NEW w \in Workers, Worker(w) PROVE PaceInv'
    <2> DEFINE r == work[w]
               n == work'[w]
               B == BatchSize(MaxThrottle)
    <2>f. \A v \in Workers \ {w} : work'[v] = work[v]
      BY <1>0, <1>1 DEF Worker, WorkerStep, FirstWindow, Query, QueryFailed, Setup, CoolDown, Wake,
         Proceed, Stopped, CursorSkips, FetchMore, Publish, Record, Finish,
         CursorFailed, Failed, Pause, Exit, Goto
    <2> SUFFICES Paced(n)
      BY <1>0, <2>f DEF PaceInv
    <2>t. /\ r \in Work /\ n \in Work /\ Paced(r) /\ r.since <= r.rate
          /\ r.idle \in Nat /\ r.fetched \in Nat /\ r.rate \in Nat /\ r.since \in Nat /\ r.lag \in Nat
      BY <1>0 DEF Work
    <2>b. r.pc \notin {"idle", "init"} => MaxThrottle # 0 /\ B \in Nat
      BY <1>1, BatchType DEF RateInv, Worker, Panicked, At
    <2>1. CASE FirstWindow(w) \/ CoolDown(w) \/ Wake(w)
      <3>1. n.pc \in {"query", "sleep"} /\ n.idle = r.idle /\ n.lag = r.lag
        BY <1>0, <2>1, <2>t DEF FirstWindow, CoolDown, Wake, Goto, Work
      <3> QED
        BY <2>t, <3>1, AtRest DEF Paced, OnTime
    <2>2. CASE Query(w)
      <3>1. n.pc = "setup" /\ n.idle = 0 /\ n.lag = 0 /\ n.fetched = B /\ r.pc = "query"
            /\ MaxThrottle < CursorTimeout
        BY <1>0, <2>2, <2>t DEF Query, At, Work
      <3> QED
        BY <1>a, <2>b, <3>1 DEF Paced
    <2>3. CASE QueryFailed(w) \/ Stopped(w) \/ Failed(w)
      BY <1>0, <1>a, <2>3, <2>t DEF QueryFailed, Stopped, Failed, Exit, IdleWork, Paced
    <2>4. CASE Setup(w)
      <3>1. Cardinality(r.todo) \in Nat
        BY <2>t, CountIsNat DEF Work
      <3>2. PublishDelay(TimeWindow, MinThrottle, MaxThrottle, Cardinality(r.todo) + 1) \in Nat
        BY <3>1, DelayIsNat
      <3>3. /\ r.pc = "setup" /\ r.idle = 0 /\ r.lag = 0 /\ MaxThrottle < CursorTimeout
            /\ B - r.fetched >= 0
        BY <2>4, <2>t DEF Setup, At, Paced
      <3>4. n.idle = 0 /\ n.lag = 0 /\ n.fetched = r.fetched
            /\ (n.pc = "cool" \/ (n.pc = "queue" /\ n.rate \in Nat /\ n.since = n.rate))
        <4> DEFINE rate == PublishDelay(TimeWindow, MinThrottle, MaxThrottle,
                                        Cardinality(r.todo) + 1)
        <4>1. \/ n = [r EXCEPT !.pc = "cool"]
              \/ n = [r EXCEPT !.pc = "queue", !.live = TRUE, !.rate = rate, !.since = rate]
          BY <1>0, <2>4 DEF Setup, Goto
        <4>2. rate \in Nat
          BY <3>2
        <4> HIDE DEF rate, n
        <4>3. CASE n = [r EXCEPT !.pc = "cool"]
          BY <2>t, <3>3, <4>3 DEF Work
        <4>4. CASE n = [r EXCEPT !.pc = "queue", !.live = TRUE, !.rate = rate, !.since = rate]
          BY <2>t, <3>3, <4>2, <4>4 DEF Work
        <4> QED
          BY <4>1, <4>3, <4>4
      <3>5. 0 <= (B - n.fetched) * MaxThrottle
        <4>1. B - n.fetched \in Nat
          BY <2>b, <2>t, <3>3, <3>4
        <4> QED
          BY <4>1, <1>a, SMT
      <3>6. n.idle <= CursorTimeout
        BY <1>a, <3>4
      <3> HIDE DEF n, B
      <3>7. CASE n.pc = "cool"
        BY <2>t, <3>6, <3>7, AtRest
      <3>8. CASE n.pc = "queue"
        <4> DEFINE due == (B - n.fetched) * MaxThrottle
        <4>1. B \in Nat /\ B - n.fetched >= 0 /\ 0 <= due /\ due \in Int
          BY <1>a, <2>b, <2>t, <3>3, <3>4, <3>5
        <4> HIDE DEF due
        <4>2. n.idle + (n.rate - n.since) <= due + n.lag
          BY <3>4, <3>8, <4>1
        <4>3. /\ n.idle <= CursorTimeout /\ MaxThrottle < CursorTimeout
              /\ n.pc = "queue"
          BY <3>3, <3>6, <3>8
        <4> QED
          BY <4>1, <4>2, <4>3 DEF Paced, B, due
      <3> QED
        BY <3>4, <3>7, <3>8
    <2>5. CASE Proceed(w)
      <3>1. n = [r EXCEPT !.pc = "next", !.idle = r.idle + Wait(w), !.since = 0]
        BY <1>0, <2>5 DEF Proceed
      <3>2. r.pc = "queue" /\ MaxThrottle < CursorTimeout /\ B - r.fetched >= 0
            /\ r.idle + (r.rate - r.since) <= (B - r.fetched) * MaxThrottle + r.lag
        BY <2>5, <2>t DEF Proceed, At, Paced
      <3>3. /\ n.pc = "next" /\ n.since = 0 /\ n.fetched = r.fetched /\ n.lag = r.lag
            /\ n.idle \in Nat /\ n.idle <= r.idle + (r.rate - r.since)
        BY <2>t, <3>1 DEF Work, Wait
      <3>4. (B - r.fetched) * MaxThrottle \in Int
        BY <1>a, <2>b, <2>t, <3>2, SMT
      <3>5. n.idle <= (B - n.fetched) * MaxThrottle + n.lag
        BY <2>t, <3>2, <3>3, <3>4
      <3>6. OnTime(n) => n.idle <= CursorTimeout
        BY <2>b, <2>t, <3>2, <3>3, <3>5, InTime
      <3> HIDE DEF n, B
      <3> QED
        BY <3>2, <3>3, <3>5, <3>6 DEF Paced, B
    <2>6. CASE CursorSkips(w)
      <3>1. /\ n.pc = r.pc /\ n.fetched = r.fetched /\ n.since = r.since
            /\ n.idle = r.idle /\ n.live = r.live /\ n.rate = r.rate /\ n.lag = r.lag
        BY <1>0, <2>6, <2>t DEF CursorSkips, Work
      <3> QED
        BY <2>t, <3>1 DEF Paced, OnTime
    <2>7. CASE FetchMore(w)
      <3>1. /\ n.pc = "next" /\ n.idle = 0 /\ n.lag = 0 /\ n.fetched = B /\ n.since = r.since
            /\ r.pc = "next"
        BY <1>0, <2>7, <2>t DEF FetchMore, At, Work
      <3> QED
        BY <1>a, <2>b, <2>t, <3>1 DEF Paced
    <2>8. CASE Publish(w)
      <3>1. PICK time \in Nat :
              /\ r.pc = "next" /\ n.pc = "record" /\ r.fetched > 0 /\ n.fetched = r.fetched - 1
              /\ n.rate = r.rate /\ n.idle = r.idle + time
              /\ n.since = IF time < r.rate THEN time ELSE r.rate
              /\ n.lag = r.lag + Larger(Larger(time, r.rate) - MaxThrottle, 0)
        BY <2>8, PublishStep
      <3>2. /\ r.since = 0 /\ r.idle <= (B - r.fetched) * MaxThrottle + r.lag
            /\ MaxThrottle < CursorTimeout /\ B - r.fetched >= 0
        BY <2>t, <3>1 DEF Paced
      <3>3. B - n.fetched = (B - r.fetched) + 1
        BY <2>b, <2>t, <3>1
      <3>4. /\ (B - r.fetched) * MaxThrottle \in Int
            /\ (B - n.fetched) * MaxThrottle = (B - r.fetched) * MaxThrottle + MaxThrottle
        <4>1. \A k \in Int : (k + 1) * MaxThrottle = k * MaxThrottle + MaxThrottle
                             /\ k * MaxThrottle \in Int
          BY <1>a, SMT
        <4> QED
          BY <2>b, <2>t, <3>1, <3>3, <4>1
      <3>5. n.idle + (n.rate - n.since) = r.idle + Larger(time, r.rate)
        BY <2>t, <3>1 DEF Larger
      <3>6. Larger(time, r.rate) <= MaxThrottle + Larger(Larger(time, r.rate) - MaxThrottle, 0)
            /\ Larger(time, r.rate) \in Nat /\ n.lag \in Nat
        BY <1>a, <2>t, <3>1 DEF Larger
      <3>7. n.idle + (n.rate - n.since) <= (B - n.fetched) * MaxThrottle + n.lag
        <4> DEFINE x == (B - r.fetched) * MaxThrottle
                   y == Larger(Larger(time, r.rate) - MaxThrottle, 0)
                   z == Larger(time, r.rate)
        <4>1. y \in Nat /\ n.lag = r.lag + y /\ z <= MaxThrottle + y /\ z \in Nat /\ x \in Int
              /\ r.idle <= x + r.lag
          BY <1>a, <3>1, <3>2, <3>4, <3>6 DEF Larger
        <4>2. (B - n.fetched) * MaxThrottle = x + MaxThrottle
          BY <3>4
        <4> HIDE DEF x, y, z
        <4>3. r.idle + z <= (x + MaxThrottle) + n.lag
          BY <1>a, <2>t, <4>1
        <4> QED
          BY <3>5, <4>2, <4>3 DEF z
      <3>8. n.idle \in Nat /\ n.idle <= n.idle + (n.rate - n.since)
        BY <2>t, <3>1
      <3>9. n.idle <= (B - n.fetched) * MaxThrottle + n.lag
        BY <2>t, <3>1, <3>4, <3>6, <3>7, <3>8
      <3>10. OnTime(n) => n.idle <= CursorTimeout
        BY <2>b, <2>t, <3>1, <3>2, <3>3, <3>6, <3>8, <3>9, InTime
      <3>11. B - n.fetched >= 0
        BY <2>b, <2>t, <3>1, <3>2, <3>3
      <3> HIDE DEF n, B
      <3> QED
        BY <3>1, <3>2, <3>7, <3>10, <3>11 DEF Paced, B
    <2>9. CASE Record(w)
      <3>1. /\ n.pc = "queue" /\ r.pc = "record" /\ n.fetched = r.fetched /\ n.since = r.since
            /\ n.idle = r.idle /\ n.rate = r.rate /\ n.lag = r.lag
        BY <1>0, <2>9, <2>t DEF Record, At, Goto, Work
      <3> QED
        BY <2>t, <3>1 DEF Paced, OnTime
    <2>10. CASE Finish(w) \/ CursorFailed(w)
      <3>1. n.pc \in {"pause", "failed"} /\ n.idle = r.idle /\ n.lag = r.lag
            /\ (n.pc = "pause" => ~n.live)
        BY <1>0, <2>10, <2>t DEF Finish, CursorFailed, Goto, Work
      <3> QED
        BY <2>t, <3>1, AtRest DEF Paced, OnTime
    <2>11. CASE Pause(w)
      <3>1. r.pc = "pause" /\ n.pc = "query" /\ n.idle = r.idle + Wait(w) /\ n.lag = r.lag
        BY <1>0, <2>11, <2>t DEF Pause, At, Work
      <3>2. n.idle = r.idle
        BY <2>t, <3>1 DEF Paced, Wait
      <3> QED
        BY <2>t, <3>1, <3>2, AtRest DEF Paced, OnTime
    <2> QED
      BY <1>1, <2>1, <2>2, <2>3, <2>4, <2>5, <2>6, <2>7, <2>8, <2>9, <2>10, <2>11
         DEF Worker, WorkerStep
  <1>2. ASSUME NEW w \in Workers, Start(w) PROVE PaceInv'
    BY <1>0, <1>2 DEF Start, At, Goto, PaceInv, Paced, OnTime
  <1>3. CASE UNCHANGED work
    BY <1>0, <1>3 DEF PaceInv
  <1> QED
    BY <1>1, <1>2, <1>3 DEF Next, vars, StopCall, StopReturn, Modify, Tick

\* Whatever the throttles, in whichever order, and however long publishes take: only
\* reads that come, in all, more than one MaxThrottle late lose a cursor, or late at all
\* when its timeout has no room for two.
THEOREM OnlyLatenessLosesCursors == Spec => []CursorStaysAlive
  <1>1. TypeOK /\ PaceInv => CursorStaysAlive
    <2> SUFFICES ASSUME TypeOK, PaceInv, NEW w \in Workers, OnTime(work[w])
                 PROVE  ~Lost(w)
      BY DEF CursorStaysAlive
    <2>1. work[w].idle \in Nat /\ work[w].idle <= CursorTimeout
      BY DEF TypeOK, Work, PaceInv, Paced
    <2> QED
      BY <2>1 DEF Lost
  <1> QED
    BY <1>1, TypeInit, TypeStep, PaceInit, PaceStep, PTL DEF Spec

-----------------------------------------------------------------------------
(* The window, and the context. *)

\* What a document's modification, a publish, the clock and the other workers
\* leave of a window that is being read.
LEMMA WindowStep == TypeOK /\ WindowInv /\ TypeOK' /\ [Next]_vars => WindowInv'
  <1> SUFFICES ASSUME TypeOK, WindowInv, TypeOK', [Next]_vars PROVE WindowInv'
    OBVIOUS
  <1> DEFINE Owed(w) == pending \intersect InWindow(work[w].start, work[w].end)
  <1>0. /\ now \in Nat /\ now' \in Nat /\ MaxTime \in Nat /\ modified \in [Docs -> Nat]
        /\ pending \subseteq Docs /\ work \in [Workers -> Work]
        /\ \A v \in Workers : work[v].end \in Nat /\ work[v].start \in Int
    BY DEF TypeOK, Work
  <1>1. ASSUME NEW w \in Workers, Worker(w) PROVE WindowInv'
    <2>0. now' = now /\ modified' = modified /\ pending' \subseteq pending
      BY <1>1 DEF Worker, WorkerStep, FirstWindow, Query, QueryFailed, Setup, CoolDown, Wake,
         Proceed, Stopped, CursorSkips, FetchMore, Publish, Record, Finish,
         CursorFailed, Failed, Pause
    <2>f. \A v \in Workers \ {w} : work'[v] = work[v]
      BY <1>0, <1>1 DEF Worker, WorkerStep, FirstWindow, Query, QueryFailed, Setup, CoolDown, Wake,
         Proceed, Stopped, CursorSkips, FetchMore, Publish, Record, Finish,
         CursorFailed, Failed, Pause, Exit, Goto
    <2> DEFINE Good(r) ==
          /\ r.end <= now
          /\ r.pc \in Reading => pending' \intersect InWindow(r.start, r.end) \subseteq r.todo
          /\ r.pc = "pause" => r.todo = {}
    <2>g. ASSUME Good(work'[w]) PROVE WindowInv'
      BY <2>0, <2>f, <2>g DEF WindowInv, InWindow, At
    <2>r. /\ work[w] \in Work /\ work[w].end <= now
          /\ work[w].pc \in Reading => Owed(w) \subseteq work[w].todo
      BY <1>0 DEF WindowInv
    <2>1. CASE FirstWindow(w) \/ Wake(w) \/ Pause(w) \/ CoolDown(w)
      <3>1. /\ work'[w].end = now \/ work'[w].end = work[w].end
            /\ work'[w].pc \in {"query", "sleep"}
        BY <1>0, <2>1 DEF FirstWindow, Wake, Pause, CoolDown, Goto, Work
      <3> QED
        BY <1>0, <2>g, <2>r, <3>1 DEF Reading
    <2>2. CASE Query(w)
      <3>1. /\ work'[w].end = work[w].end /\ work'[w].start = work[w].start
            /\ work'[w].pc = "setup"
            /\ work'[w].todo = InWindow(work[w].start, work[w].end)
        BY <1>0, <2>2 DEF Query
      <3> QED
        BY <2>g, <2>r, <3>1
    <2>3. CASE QueryFailed(w) \/ Stopped(w) \/ Failed(w)
      <3>1. work'[w].end = 0 /\ work'[w].pc = "idle"
        BY <1>0, <2>3 DEF QueryFailed, Stopped, Failed, Exit, IdleWork
      <3> QED
        BY <1>0, <2>g, <3>1 DEF Reading
    <2>4. CASE Setup(w) \/ Proceed(w) \/ FetchMore(w) \/ Record(w) \/ CursorFailed(w)
      <3>1. /\ work'[w].end = work[w].end /\ work'[w].start = work[w].start
            /\ work'[w].todo = work[w].todo /\ work'[w].pc # "pause" /\ pending' = pending
            /\ work[w].pc \in Reading
        BY <1>0, <2>4 DEF Setup, Proceed, FetchMore, Record, CursorFailed, Goto, At, Reading, Work
      <3> QED
        BY <2>g, <2>r, <3>1
    <2>5. CASE CursorSkips(w)
      <3>1. PICK d \in work[w].todo :
              /\ modified[d] >= work[w].end
              /\ work' = [work EXCEPT ![w].todo = @ \ {d}]
        BY <2>5 DEF CursorSkips
      <3>2. /\ work'[w].end = work[w].end /\ work'[w].start = work[w].start
            /\ work'[w].todo = work[w].todo \ {d} /\ work'[w].pc = "next"
            /\ work[w].pc \in Reading
        BY <1>0, <2>5, <3>1 DEF CursorSkips, At, Reading, Work
      <3>3. d \notin InWindow(work[w].start, work[w].end)
        BY <1>0, <2>r, <3>1 DEF InWindow, Work
      <3> QED
        BY <2>0, <2>g, <2>r, <3>2, <3>3
    <2>6. CASE Publish(w)
      <3>1. PICK d \in work[w].todo :
              /\ pending' = pending \ {d}
              /\ work'[w].todo = work[w].todo \ {d}
              /\ work'[w].end = work[w].end /\ work'[w].start = work[w].start
              /\ work'[w].pc = "record" /\ work[w].pc = "next"
        BY <2>6, PublishStep
      <3>2. work[w].pc \in Reading /\ work'[w].pc # "pause"
        BY <3>1 DEF Reading
      <3> QED
        BY <2>g, <2>r, <3>1, <3>2
    <2>7. CASE Finish(w)
      <3>1. /\ work'[w].end = work[w].end /\ work'[w].start = work[w].start
            /\ work'[w].todo = work[w].todo /\ work[w].todo = {} /\ pending' = pending
            /\ work[w].pc \in Reading
        BY <1>0, <2>7 DEF Finish, At, Reading, Work
      <3> QED
        BY <2>g, <2>r, <3>1
    <2> QED
      BY <1>1, <2>1, <2>2, <2>3, <2>4, <2>5, <2>6, <2>7 DEF Worker, WorkerStep
  <1>2. ASSUME NEW w \in Workers, Start(w) PROVE WindowInv'
    BY <1>0, <1>2 DEF Start, At, Goto, WindowInv, InWindow, Reading
  <1>3. ASSUME NEW d \in Docs, Modify(d) PROVE WindowInv'
    <2>1. /\ work' = work /\ now' = now /\ pending' = pending \union {d}
          /\ modified' = [modified EXCEPT ![d] = now]
      BY <1>3 DEF Modify
    <2>2. \A w \in Workers : Owed(w)' \subseteq Owed(w)
      BY <1>0, <2>1 DEF WindowInv, InWindow
    <2> QED
      BY <2>1, <2>2 DEF WindowInv, At
  <1>4. CASE Tick
    BY <1>0, <1>4 DEF Tick, WindowInv, InWindow, At
  <1>5. CASE UNCHANGED <<now, modified, pending, work>>
    BY <1>5 DEF WindowInv, InWindow, At
  <1> QED
    BY <1>1, <1>2, <1>3, <1>4, <1>5 DEF Next, vars, StopCall, StopReturn

\* However many workers overlap, and whatever is modified while they read: an
\* iteration that ends has attempted its window.
THEOREM WindowIsCovered == Spec => []WindowCovered
  <1>1. Init => WindowInv
    BY DEF Init, WindowInv, IdleWork, At, Reading
  <1>2. WindowInv => WindowCovered
    BY DEF WindowInv, WindowCovered, Reading, At
  <1> QED
    BY <1>1, <1>2, TypeInit, TypeStep, WindowStep, PTL DEF Spec

LEMMA LateStep == TypeOK /\ LateInv /\ [Next]_vars => LateInv'
  <1> SUFFICES ASSUME TypeOK, LateInv, [Next]_vars PROVE LateInv'
    OBVIOUS
  <1>0. /\ work \in [Workers -> Work]
        /\ \A v \in Workers : work[v].late # 0 =>
              work[v].late = 1 /\ v \in cancelled /\ work[v].pc \in {"record", "queue"}
    BY DEF TypeOK, LateInv
  <1>1. ASSUME NEW w \in Workers, Worker(w) PROVE LateInv'
    <2>1. CASE Publish(w)
      <3>1. work[w].pc = "next" /\ work[w].late = 0
        BY <1>0, <2>1 DEF Publish, At
      <3>2. /\ work'[w].late = IF w \in cancelled THEN 1 ELSE 0
            /\ work'[w].pc = "record" /\ cancelled' = cancelled
            /\ \A v \in Workers \ {w} : work'[v] = work[v]
        <4>1. /\ work'[w].late = IF w \in cancelled /\ work[w].late < 2 THEN work[w].late + 1
                                 ELSE work[w].late
              /\ work'[w].pc = "record"
          BY <2>1, PublishStep
        <4> QED
          BY <1>0, <2>1, <3>1, <4>1 DEF Publish
      <3> QED
        BY <1>0, <3>2 DEF LateInv
    <2>2. CASE QueryFailed(w) \/ Stopped(w) \/ Failed(w)
      BY <1>0, <2>2 DEF QueryFailed, Stopped, Failed, Exit, IdleWork, LateInv
    <2>3. CASE Proceed(w) \/ Record(w)
      <3>1. /\ work'[w].late = work[w].late /\ cancelled' = cancelled
            /\ work'[w].pc = "next" => work[w].pc = "queue" /\ w \notin cancelled
            /\ work'[w].pc \in {"next", "queue"}
            /\ \A v \in Workers \ {w} : work'[v] = work[v]
        BY <1>0, <2>3 DEF Proceed, Record, At, Goto, Work
      <3> QED
        BY <1>0, <3>1 DEF LateInv
    <2>4. CASE FirstWindow(w) \/ Query(w) \/ Setup(w) \/ CoolDown(w) \/ Wake(w)
               \/ CursorSkips(w) \/ FetchMore(w) \/ Finish(w) \/ CursorFailed(w) \/ Pause(w)
      <3>1. work[w].pc \notin {"record", "queue"}
        BY <2>4 DEF FirstWindow, Query, Setup, CoolDown, Wake, CursorSkips, FetchMore,
           Finish, CursorFailed, Pause, At
      <3>2. /\ work'[w].late = work[w].late /\ cancelled' = cancelled
            /\ \A v \in Workers \ {w} : work'[v] = work[v]
        BY <1>0, <2>4 DEF FirstWindow, Query, Setup, CoolDown, Wake, CursorSkips, FetchMore,
           Finish, CursorFailed, Pause, Goto, Work
      <3> QED
        BY <1>0, <3>1, <3>2 DEF LateInv
    <2> QED
      BY <1>1, <2>1, <2>2, <2>3, <2>4 DEF Worker, WorkerStep
  <1>2. ASSUME NEW w \in Workers, Start(w) PROVE LateInv'
    BY <1>0, <1>2 DEF Start, At, Goto, LateInv
  <1>3. CASE UNCHANGED work /\ cancelled \subseteq cancelled'
    BY <1>0, <1>3 DEF LateInv
  <1> QED
    BY <1>1, <1>2, <1>3 DEF Next, vars, StopCall, StopReturn, Modify, Tick

\* Whichever workers are stopped, and whenever: each attempts one more item at
\* most.
THEOREM OneLateAttempt == Spec => []AtMostOneLateAttempt
  <1>1. Init => LateInv
    BY DEF Init, LateInv, IdleWork
  <1>2. TypeOK /\ LateInv => AtMostOneLateAttempt
    BY DEF TypeOK, Work, LateInv, AtMostOneLateAttempt
  <1> QED
    BY <1>1, <1>2, TypeInit, TypeStep, LateStep, PTL DEF Spec
=============================================================================
