---------------------------- MODULE WindowedCycle ----------------------------
(***************************************************************************)
(* One ScalingWindow cycle: goroutines that query Mongo for the documents  *)
(* modified in a time window, publish them at a pace worked out from their *)
(* number, and query again; the documents being modified meanwhile; and    *)
(* the calls that start and stop the cycle.                                *)
(*                                                                         *)
(* Clock ticks order modifications and windows.  The pace is counted       *)
(* apart, in units of its own: how long the open cursor has been idle.     *)
(* Durations are whole numbers of such a unit, as they are of nanoseconds  *)
(* in the code, and are divided as Go divides.                             *)
(***************************************************************************)
EXTENDS Integers, FiniteSets

CONSTANTS
    Docs,       \* documents of the collection
    Workers,    \* slots for the goroutines running start(ctx, throttle)
    Clients,    \* threads that call Start and Stop
    Controls,   \* which of the two they call: a subset of {"start", "stop"}
    Faults,     \* what may fail: a subset of {"mongo"}
    TimeWindow, MinThrottle, MaxThrottle,   \* the cycle's configuration, unchecked
    CursorTimeout, MaxBatch,
    PublishTimes,   \* how long a Prepare and Execute may take
    MaxTime,    \* bound: the clock stops there
    NoWorker

ASSUME WindowAssumption ==
    /\ TimeWindow \in Nat /\ MinThrottle \in Nat /\ MaxThrottle \in Nat /\ MaxTime \in Nat
    /\ CursorTimeout \in Nat \ {0} /\ MaxBatch \in Nat \ {0}
    /\ PublishTimes \subseteq Nat
ASSUME DocsAssumption == IsFiniteSet(Docs)
ASSUME ChoiceAssumption == Controls \subseteq {"start", "stop"} /\ Faults \subseteq {"mongo"}
ASSUME NoWorkerAssumption == NoWorker \notin Workers

VARIABLES
    now,        \* the clock
    modified,   \* content.lastModified of each document
    pending,    \* documents modified since they were last attempted
    meta,       \* the cycle's CycleMetadata
    work,       \* the goroutines
    cancelled,  \* the workers whose context is cancelled
    handle,     \* the worker whose context abstractCycle.cancel cancels
    client      \* what is left to do of each API call

vars == <<now, modified, pending, meta, work, cancelled, handle, client>>

CycleStates == {"starting", "running", "stopped", "unhealthy", "cooldown"}
Meta == [state : SUBSET CycleStates, completed : Nat, total : Nat]
NewMeta == [state |-> {"stopped"}, completed |-> 0, total |-> 0]

WorkPC == {"idle", "init", "query", "setup", "cool", "sleep", "queue", "next",
           "record", "failed", "pause"}

\* start, end: the window; todo: what the cursor has still to return; fetched:
\* what it can return without asking Mongo; rate: the throttle's interval;
\* since: how long since its last token, as long as it has none to give; live: it
\* has not been cancelled; idle: how long since Mongo was last asked.  Not in the
\* code: lag, by how much the reads since then came more than MaxThrottle apart, in
\* all; late, attempts after the cancellation.
IdleWork == [pc |-> "idle", start |-> 0, end |-> 0, todo |-> {}, fetched |-> 0,
             rate |-> 0, since |-> 0, live |-> FALSE, idle |-> 0, lag |-> 0, late |-> 0]

Work == [pc : WorkPC, start : Int, end : 0..MaxTime, todo : SUBSET Docs,
         fetched : 0..MaxBatch, rate : Nat, since : Nat, live : BOOLEAN,
         idle : Nat, lag : Nat, late : 0..2]

TypeOK ==
    /\ now \in 0..MaxTime
    /\ modified \in [Docs -> 0..MaxTime]
    /\ pending \subseteq Docs
    /\ meta \in Meta
    /\ work \in [Workers -> Work]
    /\ cancelled \subseteq Workers
    /\ handle \in Workers \union {NoWorker}
    /\ client \in [Clients -> {"idle", "stop"}]

Init ==
    /\ now = 0
    /\ modified = [d \in Docs |-> 0] /\ pending = Docs
    /\ meta = [NewMeta EXCEPT !.state = {"starting"}]
    /\ \E w \in Workers :       \* the scheduler started the cycle
         /\ work = [v \in Workers |->
                      IF v = w THEN [IdleWork EXCEPT !.pc = "init"] ELSE IdleWork]
         /\ handle = w
    /\ cancelled = {}
    /\ client = [k \in Clients |-> "idle"]

-----------------------------------------------------------------------------
\* determineRateInterval; nothing checks that min is below max.
PublishDelay(interval, min, max, publishes) ==
    LET delay == interval \div publishes
    IN  IF delay < min THEN min ELSE IF delay > max THEN max ELSE delay

\* Variant: no interval is kept in reserve.
BatchSizeWhole(interval) ==
    LET size == CursorTimeout \div interval
    IN  IF size > MaxBatch THEN MaxBatch ELSE size

\* computeBatchsize, for an interval below the cursor's timeout
BatchSize(interval) ==
    LET size == CursorTimeout \div interval
    IN  IF size <= 1 THEN 1 ELSE IF size > MaxBatch THEN MaxBatch ELSE size - 1

Larger(m, n) == IF m > n THEN m ELSE n

-----------------------------------------------------------------------------
At(w, pc) == work[w].pc = pc
Goto(w, pc) == work' = [work EXCEPT ![w].pc = pc]
UpdateState(s) == meta' = [meta EXCEPT !.state = s]

Exit(w) ==
    /\ work' = [work EXCEPT ![w] = IdleWork]
    /\ cancelled' = cancelled \ {w}
    /\ handle' = IF handle = w THEN NoWorker ELSE handle

\* The window's documents: modified at its start or later, before its end.
InWindow(start, end) == {d \in Docs : start <= modified[d] /\ modified[d] < end}

FirstWindow(w) ==
    /\ At(w, "init")
    /\ work' = [work EXCEPT ![w].pc = "query", ![w].start = now - TimeWindow,
                            ![w].end = now]
    /\ UNCHANGED <<now, modified, pending, meta, cancelled, handle, client>>

\* A maximum throttle of 0s is a division by zero: the process panics.
Panicked == MaxThrottle = 0 /\ \E w \in Workers : At(w, "query")

\* Variant: the window ends one tick early.
QueryShort(w) ==
    /\ At(w, "query")
    /\ MaxThrottle < CursorTimeout
    /\ work' = [work EXCEPT ![w].pc = "setup",
                            ![w].todo = InWindow(work[w].start, work[w].end - 1),
                            ![w].fetched = BatchSize(MaxThrottle),
                            ![w].idle = 0, ![w].lag = 0]
    /\ UNCHANGED <<now, modified, pending, meta, cancelled, handle, client>>

Query(w) ==
    /\ At(w, "query")
    /\ MaxThrottle < CursorTimeout
    /\ work' = [work EXCEPT ![w].pc = "setup",
                            ![w].todo = InWindow(work[w].start, work[w].end),
                            ![w].fetched = BatchSize(MaxThrottle),
                            ![w].idle = 0, ![w].lag = 0]
    /\ UNCHANGED <<now, modified, pending, meta, cancelled, handle, client>>

\* Mongo cannot be opened or queried, or the throttle outlasts its cursors.
QueryFailed(w) ==
    /\ At(w, "query")
    /\ "mongo" \in Faults \/ MaxThrottle >= CursorTimeout
    /\ UpdateState({"stopped", "unhealthy"})
    /\ Exit(w)
    /\ UNCHANGED <<now, modified, pending, client>>

\* SetMetadata, and a throttle for one publish more than there are documents, which
\* has a token to begin with.
Setup(w) ==
    LET count == Cardinality(work[w].todo)
        rate  == PublishDelay(TimeWindow, MinThrottle, MaxThrottle, count + 1)
    IN  /\ At(w, "setup")
        /\ meta' = [state |-> {"running"}, completed |-> 0, total |-> count]
        /\ IF count = 0
             THEN Goto(w, "cool")
             ELSE work' = [work EXCEPT ![w].pc = "queue", ![w].live = TRUE,
                                       ![w].rate = rate, ![w].since = rate]
        /\ UNCHANGED <<now, modified, pending, cancelled, handle, client>>

\* performCooldown: the state, a sleep that nothing interrupts, a new end.
CoolDown(w) ==
    /\ At(w, "cool")
    /\ UpdateState({"cooldown"})
    /\ Goto(w, "sleep")
    /\ UNCHANGED <<now, modified, pending, cancelled, handle, client>>

Wake(w) ==
    /\ At(w, "sleep")
    /\ work' = [work EXCEPT ![w].pc = "query", ![w].end = now]
    /\ UNCHANGED <<now, modified, pending, meta, cancelled, handle, client>>

\* Queue waits for a token, one an interval; a throttle that was cancelled lets
\* through at once.
Wait(w) == IF work[w].live THEN work[w].rate - work[w].since ELSE 0

\* Variant: the context is not checked.
ProceedUnchecked(w) ==
    /\ At(w, "queue")
    /\ work' = [work EXCEPT ![w].pc = "next", ![w].idle = @ + Wait(w), ![w].since = 0]
    /\ UNCHANGED <<now, modified, pending, meta, cancelled, handle, client>>

Proceed(w) ==
    /\ At(w, "queue")
    /\ w \notin cancelled
    /\ work' = [work EXCEPT ![w].pc = "next", ![w].idle = @ + Wait(w), ![w].since = 0]
    /\ UNCHANGED <<now, modified, pending, meta, cancelled, handle, client>>

Stopped(w) ==
    /\ At(w, "queue")
    /\ w \in cancelled
    /\ UpdateState({"stopped"})
    /\ Exit(w)
    /\ UNCHANGED <<now, modified, pending, client>>

\* A document modified since the query has left the window: the cursor may not
\* return it any more.
CursorSkips(w) ==
    /\ At(w, "next")
    /\ \E d \in work[w].todo :
         /\ modified[d] >= work[w].end
         /\ work' = [work EXCEPT ![w].todo = @ \ {d}]
    /\ UNCHANGED <<now, modified, pending, meta, cancelled, handle, client>>

\* Mongo closes a cursor that was idle for too long.
Lost(w) == work[w].idle > CursorTimeout

FetchMore(w) ==
    /\ At(w, "next")
    /\ work[w].todo # {} /\ work[w].fetched = 0
    /\ ~Lost(w)
    /\ work' = [work EXCEPT ![w].fetched = BatchSize(MaxThrottle), ![w].idle = 0, ![w].lag = 0]
    /\ UNCHANGED <<now, modified, pending, meta, cancelled, handle, client>>

\* Variant: an item is taken from a batch that is used up.
PublishUnfetched(w) ==
    /\ At(w, "next")
    /\ \E d \in work[w].todo :
         /\ pending' = pending \ {d}
         /\ work' = [work EXCEPT ![w].pc = "record", ![w].todo = @ \ {d},
                                 ![w].fetched = @ - 1]
    /\ UNCHANGED <<now, modified, meta, cancelled, handle, client>>

\* A worker after a publish of d that takes this long: the next read comes when it is
\* over and the throttle has its token.
Published(r, d, time, late) ==
    [r EXCEPT !.pc = "record", !.todo = @ \ {d}, !.fetched = @ - 1,
              !.idle  = @ + time,
              !.since = IF time < r.rate THEN time ELSE r.rate,
              !.lag   = @ + Larger(Larger(time, r.rate) - MaxThrottle, 0),
              !.late  = late]

Publish(w) ==
    /\ At(w, "next")
    /\ work[w].fetched > 0
    /\ \E d \in work[w].todo, time \in PublishTimes :
         LET more == IF w \in cancelled /\ work[w].late < 2 THEN 1 ELSE 0
         IN  /\ pending' = pending \ {d}
             /\ work' = [work EXCEPT ![w] = Published(work[w], d, time, work[w].late + more)]
    /\ UNCHANGED <<now, modified, meta, cancelled, handle, client>>

UpdateProgress == meta' = [meta EXCEPT !.completed = @ + 1]

Record(w) ==
    /\ At(w, "record")
    /\ UpdateProgress
    /\ Goto(w, "queue")
    /\ UNCHANGED <<now, modified, pending, cancelled, handle, client>>

\* The cursor is exhausted: progress is updated, and the throttle cancelled.
Finish(w) ==
    /\ At(w, "next")
    /\ work[w].todo = {}
    /\ UpdateProgress
    /\ work' = [work EXCEPT ![w].pc = "pause", ![w].live = FALSE]
    /\ UNCHANGED <<now, modified, pending, cancelled, handle, client>>

\* The cursor breaks, or is found closed: progress is updated with the error, then the state.
CursorFailed(w) ==
    /\ At(w, "next")
    /\ "mongo" \in Faults \/ (work[w].fetched = 0 /\ Lost(w))
    /\ UpdateProgress
    /\ Goto(w, "failed")
    /\ UNCHANGED <<now, modified, pending, cancelled, handle, client>>

Failed(w) ==
    /\ At(w, "failed")
    /\ UpdateState({"stopped", "unhealthy"})
    /\ Exit(w)
    /\ UNCHANGED <<now, modified, pending, client>>

\* Variant: the end of the window stays where it was.
PauseSameEnd(w) ==
    /\ At(w, "pause")
    /\ work' = [work EXCEPT ![w].pc = "query", ![w].idle = @ + Wait(w)]
    /\ UNCHANGED <<now, modified, pending, meta, cancelled, handle, client>>

\* The last Queue, and the next iteration: its window ends now.
Pause(w) ==
    /\ At(w, "pause")
    /\ work' = [work EXCEPT ![w].pc = "query", ![w].end = now, ![w].idle = @ + Wait(w)]
    /\ UNCHANGED <<now, modified, pending, meta, cancelled, handle, client>>

WorkerStep(w) ==
    \/ FirstWindow(w) \/ Query(w) \/ QueryFailed(w) \/ Setup(w) \/ CoolDown(w)
    \/ Wake(w) \/ Proceed(w) \/ Stopped(w) \/ CursorSkips(w) \/ FetchMore(w)
    \/ Publish(w) \/ Record(w) \/ Finish(w) \/ CursorFailed(w) \/ Failed(w) \/ Pause(w)

Worker(w) == ~Panicked /\ WorkerStep(w)

-----------------------------------------------------------------------------
Start(w) ==
    /\ "start" \in Controls /\ ~Panicked
    /\ At(w, "idle")
    /\ handle' = w
    /\ UpdateState({"starting"})
    /\ Goto(w, "init")
    /\ UNCHANGED <<now, modified, pending, cancelled, client>>

StopCall(k) ==
    /\ "stop" \in Controls /\ ~Panicked
    /\ client[k] = "idle"
    /\ cancelled' = cancelled \union ({handle} \ {NoWorker})
    /\ client' = [client EXCEPT ![k] = "stop"]
    /\ UNCHANGED <<now, modified, pending, meta, work, handle>>

StopReturn(k) ==
    /\ client[k] = "stop" /\ ~Panicked
    /\ UpdateState({"stopped"})
    /\ client' = [client EXCEPT ![k] = "idle"]
    /\ UNCHANGED <<now, modified, pending, work, cancelled, handle>>

Tick ==
    /\ now < MaxTime
    /\ now' = now + 1
    /\ UNCHANGED <<modified, pending, meta, work, cancelled, handle, client>>

\* Nothing is modified in the last instant: no window could end after it.
Modify(d) ==
    /\ now < MaxTime
    /\ modified' = [modified EXCEPT ![d] = now]
    /\ pending' = pending \union {d}
    /\ UNCHANGED <<now, meta, work, cancelled, handle, client>>

Next ==
    \/ \E w \in Workers : Worker(w) \/ Start(w)
    \/ \E k \in Clients : StopCall(k) \/ StopReturn(k)
    \/ \E d \in Docs : Modify(d)
    \/ Tick

Spec == Init /\ [][Next]_vars

\* Goroutines are scheduled, sleeps end, Mongo and the notifier answer, calls
\* return and time passes.
FairSpec ==
    /\ Spec
    /\ \A w \in Workers : WF_vars(Worker(w))
    /\ \A k \in Clients : WF_vars(StopReturn(k))
    /\ WF_vars(Tick)

-----------------------------------------------------------------------------
(* Properties. *)

\* An iteration that ends has attempted every document modified in its window,
\* unless it was modified again since, for a later window to find.
WindowCovered ==
    \A w \in Workers : At(w, "pause") =>
        pending \intersect InWindow(work[w].start, work[w].end) = {}

\* Why it has: from the query on, such a document is one the cursor has still to
\* return, and a window ends no later than now, when documents are modified.
Reading == {"setup", "queue", "next", "record", "pause"}

WindowInv ==
    \A w \in Workers :
        /\ work[w].end <= now
        /\ work[w].pc \in Reading =>
               pending \intersect InWindow(work[w].start, work[w].end) \subseteq work[w].todo
        /\ At(w, "pause") => work[w].todo = {}

\* Every document modified since the start of a running cycle's window is
\* attempted in the end, those modified while an iteration was publishing, or
\* asleep, included.
UpdatesPublished ==
    \A w \in Workers, d \in Docs :
        ~At(w, "init") /\ ~At(w, "idle") /\ d \in pending /\ modified[d] >= work[w].start
            ~> d \notin pending \/ w \in cancelled \/ At(w, "idle")

\* Mongo is asked for the next batch before it gives the cursor up, as long as the
\* reads of a batch come no more than MaxThrottle apart, or late by one MaxThrottle in
\* all where the timeout has room for two: the batch is one item short of what the
\* timeout allows.  A publish that takes longer than that, or a MinThrottle above
\* MaxThrottle, can lose the cursor.
OnTime(r) == r.lag = 0 \/ (r.lag <= MaxThrottle /\ 2 * MaxThrottle <= CursorTimeout)

CursorStaysAlive == \A w \in Workers : OnTime(work[w]) => ~Lost(w)

\* A throttle's clock stops at its interval, and a worker does not get past its query
\* with a maximum throttle of 0s.
RateInv ==
    \A w \in Workers :
        /\ work[w].since <= work[w].rate
        /\ work[w].pc \notin {"idle", "init", "query"} => MaxThrottle # 0

\* Why it is: the cursor has been idle, and will have been when the throttle lets
\* the next read through, for a MaxThrottle per document taken from its batch at most,
\* and the lag.
Paced(r) ==
    LET taken == BatchSize(MaxThrottle) - r.fetched
    IN  /\ OnTime(r) => r.idle <= CursorTimeout
        /\ r.pc \in {"setup", "queue", "next", "record"} =>
               MaxThrottle < CursorTimeout /\ taken >= 0
        /\ r.pc = "setup" => r.idle = 0 /\ r.lag = 0
        /\ r.pc \in {"queue", "record"} =>
               r.idle + (r.rate - r.since) <= taken * MaxThrottle + r.lag
        /\ r.pc = "next" => r.since = 0 /\ r.idle <= taken * MaxThrottle + r.lag
        /\ r.pc = "pause" => ~r.live

PaceInv == \A w \in Workers : Paced(work[w])

\* Once its context is cancelled, a worker attempts one more item at most.
AtMostOneLateAttempt == \A w \in Workers : work[w].late <= 1

\* Why: after that item it only records it and looks at its context.
LateInv ==
    \A w \in Workers : work[w].late # 0 =>
        work[w].late = 1 /\ w \in cancelled /\ work[w].pc \in {"record", "queue"}

(* What the documentation says, checked where the code disagrees. *)

\* api.yml, stop: the cycle stops, and frees its connections to Mongo.
CancelledWorkerExits == \A w \in Workers : w \in cancelled ~> w \notin cancelled

\* README: the next iteration's window starts where the last one's ended.
WindowsAbut ==
    [][\A w \in Workers : At(w, "pause") /\ work'[w].pc = "query"
          => work'[w].start = work[w].end]_vars

\* The comment on the last Queue: it waits before the next iteration.
IterationsArePaced ==
    [][\A w \in Workers : At(w, "pause") /\ work'[w].pc = "query"
          => work'[w].idle - work[w].idle = work[w].rate - work[w].since]_vars

\* The comment on computeBatchsize: the cursor does not time out during the cycle.
CursorOutlivesBatch == \A w \in Workers : ~Lost(w)
=============================================================================
