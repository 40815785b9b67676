---------------------------- MODULE ThrottledCycle ----------------------------
(***************************************************************************)
(* One ThrottledWholeCollection cycle: its metadata, the goroutines that   *)
(* publish it, the list of UUIDs kept in S3, the metadata saved in S3, and *)
(* the API calls that start, stop and reset it.                            *)
(*                                                                         *)
(* A Mongo collection has NDocs documents; Kept are the ones that are      *)
(* neither blank nor blacklisted.  The k-th kept document is item k, so a  *)
(* pass publishes items 1..Items.  Every list of UUIDs the code builds is  *)
(* a run of consecutive items, and is represented by its two ends.         *)
(***************************************************************************)
EXTENDS Integers, FiniteSets

CONSTANTS
    NDocs,      \* documents of the Mongo collection
    Kept,       \* the documents that are published
    Workers,    \* slots for the goroutines running start(ctx)
    Clients,    \* threads that call Stop and Reset
    Controls,   \* what is called on the cycle: a subset of ControlNames
    Faults,     \* what may fail: a subset of FaultNames
    Overlap,    \* may Start or Reset be called before the last worker exited?
    NoWorker

ControlNames == {"start", "stop", "reset", "save"}
FaultNames   == {"mongo", "listRead", "listWrite", "stateRead", "crash"}

ASSUME CollectionAssumption == NDocs \in Nat /\ Kept \subseteq 1..NDocs
ASSUME ChoiceAssumption ==
    /\ Controls \subseteq ControlNames
    /\ Faults \subseteq FaultNames
    /\ Overlap \in BOOLEAN
ASSUME NoWorkerAssumption == NoWorker \notin Workers

Items     == Cardinality(Kept)
KeptIn(s) == Cardinality({d \in Kept : d <= s})

\* Completed is compared with the list's length and the cursor's position only,
\* so every value above NDocs behaves as Cap does.
Cap      == NDocs + 1
Bump(c)  == IF c < Cap THEN c + 1 ELSE Cap

NoList   == -1
NoItem   == 0

VARIABLES
    meta,       \* the cycle's CycleMetadata
    saved,      \* the CycleMetadata last written to S3
    listFrom,   \* the list in S3 is items listFrom+1..Items (NoList: none)
    work,       \* the goroutines
    cancelled,  \* the workers whose context is cancelled
    handle,     \* the worker whose context abstractCycle.cancel cancels
    stage,      \* the process: down, ready (restored), up
    client      \* what is left to do of each API call

vars == <<meta, saved, listFrom, work, cancelled, handle, stage, client>>

CycleStates == {"starting", "running", "stopped", "unhealthy"}

\* "done" is not in the code: the items attempted in the pass that the rest of
\* the record counts.
Meta == [completed : 0..Cap, total : 0..(Cap + NDocs), current : 0..NDocs,
         state : SUBSET CycleStates, done : SUBSET (1..NDocs)]

EmptyMeta == [completed |-> 0, total |-> 0, current |-> NoItem,
              state |-> {}, done |-> {}]
NewMeta   == [EmptyMeta EXCEPT !.state = {"stopped"}]

WorkPC == {"idle", "init", "load", "cursor", "persist", "setup", "empty",
           "queue", "next", "record"}

\* skip: the metadata's Completed for this pass; from: the documents the cursor
\* skips; next, last: what is left of the UUID list; len: its Length();
\* late: attempts after the context was cancelled (not in the code).
IdleWork == [pc |-> "idle", skip |-> 0, from |-> 0, next |-> 1, last |-> 0,
             len |-> 0, late |-> 0]

Work == [pc : WorkPC, skip : 0..Cap, from : 0..Cap, next : 1..(NDocs + 1),
         last : 0..NDocs, len : 0..(Cap + NDocs), late : 0..2]

ClientPC == {"idle", "stop", "reset", "clear"}

TypeOK ==
    /\ meta \in Meta
    /\ saved \in Meta
    /\ listFrom \in NoList..NDocs
    /\ work \in [Workers -> Work]
    /\ cancelled \subseteq Workers
    /\ handle \in Workers \union {NoWorker}
    /\ stage \in {"down", "ready", "up"}
    /\ client \in [Clients -> ClientPC]

Init ==
    /\ meta = NewMeta
    /\ saved = NewMeta      \* nothing saved: boot keeps the new cycle's metadata
    /\ listFrom = NoList
    /\ work = [w \in Workers |-> IdleWork]
    /\ cancelled = {}
    /\ handle = NoWorker
    /\ stage = "down"
    /\ client = [k \in Clients |-> "idle"]

-----------------------------------------------------------------------------
(* The worker: start(ctx) and what it calls. *)

At(w, pc) == work[w].pc = pc
Goto(w, pc) == work' = [work EXCEPT ![w].pc = pc]

\* The goroutine returns; its slot and its context are free again.
Exit(w) ==
    /\ work' = [work EXCEPT ![w] = IdleWork]
    /\ cancelled' = cancelled \ {w}
    /\ handle' = IF handle = w THEN NoWorker ELSE handle

UpdateState(s) == meta' = [meta EXCEPT !.state = s]

ReadSkip(w) ==
    /\ At(w, "init")
    /\ work' = [work EXCEPT ![w].pc = "load", ![w].skip = meta.completed]
    /\ UNCHANGED <<meta, saved, listFrom, cancelled, handle, stage, client>>

ListLength == Items - listFrom
ListUsable == listFrom # NoList /\ ListLength > 0

\* Variant: one item too many is skipped.
LoadFromS3Past(w) ==
    /\ At(w, "load")
    /\ work[w].skip > 0 /\ ListUsable /\ work[w].skip < ListLength
    /\ work' = [work EXCEPT ![w].pc = "setup",
                            ![w].next = listFrom + work[w].skip + 2,
                            ![w].last = Items,
                            ![w].len = ListLength]
    /\ UNCHANGED <<meta, saved, listFrom, cancelled, handle, stage, client>>

\* LoadIntoMemory takes the UUIDs from S3 when skip is inside the list there.
LoadFromS3(w) ==
    /\ At(w, "load")
    /\ work[w].skip > 0 /\ ListUsable /\ work[w].skip < ListLength
    /\ work' = [work EXCEPT ![w].pc = "setup",
                            ![w].next = listFrom + work[w].skip + 1,
                            ![w].last = Items,
                            ![w].len = ListLength]
    /\ UNCHANGED <<meta, saved, listFrom, cancelled, handle, stage, client>>

\* Otherwise it reads the cursor, from zero when skip is past the list's end.
UseCursor(w) ==
    /\ At(w, "load")
    /\ \E from \in {0, work[w].skip} :
        /\ \/ work[w].skip = 0
           \/ from = 0 /\ ListUsable /\ work[w].skip >= ListLength
           \/ from = work[w].skip /\ (~ListUsable \/ "listRead" \in Faults)
        /\ work' = [work EXCEPT ![w].pc = "cursor", ![w].from = from]
    /\ UNCHANGED <<meta, saved, listFrom, cancelled, handle, stage, client>>

\* Variant: off by one, the item before the first is loaded too.
LoadedBefore(w, last, pc) ==
    LET first == KeptIn(work[w].from)
    IN  work' = [work EXCEPT ![w].pc = pc,
                             ![w].next = first,
                             ![w].last = last,
                             ![w].len = work[w].from + last - first + 1]

\* The documents up to the last one read give items KeptIn(from)+1..last.
Loaded(w, last, pc) ==
    LET first == KeptIn(work[w].from) + 1
    IN  work' = [work EXCEPT ![w].pc = pc,
                             ![w].next = first,
                             ![w].last = last,
                             ![w].len = work[w].from + last - first + 1]

LoadComplete(w) ==
    /\ At(w, "cursor")
    /\ NDocs = 0 \/ w \notin cancelled
    /\ Loaded(w, Items, IF NDocs = 0 THEN "setup" ELSE "persist")
    /\ UNCHANGED <<meta, saved, listFrom, cancelled, handle, stage, client>>

LoadInterrupted(w) ==
    /\ At(w, "cursor")
    /\ NDocs > 0 /\ w \in cancelled
    /\ \E last \in KeptIn(work[w].from)..Items : Loaded(w, last, "setup")
    /\ UNCHANGED <<meta, saved, listFrom, cancelled, handle, stage, client>>

\* Mongo cannot be opened or queried, or the cursor breaks.
LoadFailed(w) ==
    /\ work[w].pc \in {"load", "cursor"}
    /\ "mongo" \in Faults
    /\ UpdateState({"stopped", "unhealthy"})
    /\ Exit(w)
    /\ UNCHANGED <<saved, listFrom, stage, client>>

\* persistInS3 writes what this load collected, all of the list or its tail.
Persist(w) ==
    /\ At(w, "persist")
    /\ \/ listFrom' = work[w].next - 1
       \/ "listWrite" \in Faults /\ UNCHANGED listFrom
    /\ Goto(w, "setup")
    /\ UNCHANGED <<meta, saved, cancelled, handle, stage, client>>

Setup(w) ==
    /\ At(w, "setup")
    /\ meta' = [completed |-> work[w].skip, total |-> work[w].len,
                current |-> NoItem, state |-> {"running"},
                done |-> IF work[w].next = 1 THEN {} ELSE meta.done]
    /\ Goto(w, IF work[w].len = 0 THEN "empty" ELSE "queue")
    /\ UNCHANGED <<saved, listFrom, cancelled, handle, stage, client>>

NothingToPublish(w) ==
    /\ At(w, "empty")
    /\ UpdateState({"stopped", "unhealthy"})
    /\ Exit(w)
    /\ UNCHANGED <<saved, listFrom, stage, client>>

\* Variant: the context is not checked.
ProceedUnchecked(w) ==
    /\ At(w, "queue")
    /\ Goto(w, "next")
    /\ UNCHANGED <<meta, saved, listFrom, cancelled, handle, stage, client>>

\* After the throttle, the context is checked once per item.
Proceed(w) ==
    /\ At(w, "queue")
    /\ w \notin cancelled
    /\ Goto(w, "next")
    /\ UNCHANGED <<meta, saved, listFrom, cancelled, handle, stage, client>>

Stopped(w) ==
    /\ At(w, "queue")
    /\ w \in cancelled
    /\ UpdateState({"stopped"})
    /\ Exit(w)
    /\ UNCHANGED <<saved, listFrom, stage, client>>

\* Prepare and Execute, whether or not they succeed.
Publish(w) ==
    /\ At(w, "next")
    /\ work[w].next <= work[w].last
    /\ meta' = [meta EXCEPT !.done = @ \union {work[w].next}]
    /\ work' = [work EXCEPT ![w].pc = "record",
                            ![w].late = IF w \in cancelled /\ @ < 2 THEN @ + 1 ELSE @]
    /\ UNCHANGED <<saved, listFrom, cancelled, handle, stage, client>>

\* updateProgress: one more completed, whatever it was that completed.
UpdateProgress(item) ==
    meta' = [meta EXCEPT !.completed = Bump(@), !.current = item]

Record(w) ==
    /\ At(w, "record")
    /\ UpdateProgress(work[w].next)
    /\ work' = [work EXCEPT ![w].pc = "queue", ![w].next = @ + 1]
    /\ UNCHANGED <<saved, listFrom, cancelled, handle, stage, client>>

\* Variant: the goroutine returns after one pass.
FinishReturns(w) ==
    /\ At(w, "next")
    /\ work[w].next > work[w].last
    /\ UpdateProgress(NoItem)
    /\ Exit(w)
    /\ UNCHANGED <<saved, listFrom, stage, client>>

Finish(w) ==
    /\ At(w, "next")
    /\ work[w].next > work[w].last
    /\ UpdateProgress(NoItem)
    /\ work' = [work EXCEPT ![w].pc = "load", ![w].skip = 0]
    /\ UNCHANGED <<saved, listFrom, cancelled, handle, stage, client>>

Worker(w) ==
    \/ ReadSkip(w) \/ LoadFromS3(w) \/ UseCursor(w) \/ LoadComplete(w)
    \/ LoadInterrupted(w) \/ LoadFailed(w) \/ Persist(w) \/ Setup(w)
    \/ NothingToPublish(w) \/ Proceed(w) \/ Stopped(w) \/ Publish(w)
    \/ Record(w) \/ Finish(w)

-----------------------------------------------------------------------------
(* Start, Stop and Reset, of the API and of the scheduler. *)

AllIdle == \A w \in Workers : At(w, "idle")
Drained == AllIdle /\ \A k \in Clients : client[k] = "idle"
MayCall(op) == op \in Controls /\ stage = "up"

\* Start makes a context, keeps its cancel and runs a goroutine: whatever
\* runs already goes on.
Spawn(w) ==
    /\ At(w, "idle")
    /\ work' = [work EXCEPT ![w].pc = "init"]
    /\ handle' = w
    /\ UpdateState({"starting"})

Start(w) ==
    /\ MayCall("start")
    /\ Overlap \/ Drained
    /\ Spawn(w)
    /\ UNCHANGED <<saved, listFrom, cancelled, stage, client>>

Cancel == cancelled' = cancelled \union ({handle} \ {NoWorker})

StopCall(k) ==
    /\ client[k] = "idle" /\ MayCall("stop")
    /\ Cancel
    /\ client' = [client EXCEPT ![k] = "stop"]
    /\ UNCHANGED <<meta, saved, listFrom, work, handle, stage>>

StopReturn(k) ==
    /\ client[k] = "stop"
    /\ UpdateState({"stopped"})
    /\ client' = [client EXCEPT ![k] = "idle"]
    /\ UNCHANGED <<saved, listFrom, work, cancelled, handle, stage>>

ResetCall(k) ==
    /\ client[k] = "idle" /\ MayCall("reset")
    /\ Overlap \/ Drained
    /\ Cancel
    /\ client' = [client EXCEPT ![k] = "reset"]
    /\ UNCHANGED <<meta, saved, listFrom, work, handle, stage>>

ResetStop(k) ==
    /\ client[k] = "reset"
    /\ UpdateState({"stopped"})
    /\ client' = [client EXCEPT ![k] = "clear"]
    /\ UNCHANGED <<saved, listFrom, work, cancelled, handle, stage>>

ResetClear(k) ==
    /\ client[k] = "clear"
    /\ meta' = EmptyMeta
    /\ client' = [client EXCEPT ![k] = "idle"]
    /\ UNCHANGED <<saved, listFrom, work, cancelled, handle, stage>>

Return(k) == StopReturn(k) \/ ResetStop(k) \/ ResetClear(k)

Client(k) == StopCall(k) \/ ResetCall(k) \/ Return(k)

-----------------------------------------------------------------------------
(* The process: restore, start, checkpoint, crash. *)

\* NewCycle, then RestorePreviousState: a failed read leaves the new metadata.
Boot ==
    /\ stage = "down"
    /\ stage' = "ready"
    /\ \/ meta' = saved
       \/ "stateRead" \in Faults /\ meta' = NewMeta
    /\ UNCHANGED <<saved, listFrom, work, cancelled, handle, client>>

SchedulerStart ==
    /\ stage = "ready"
    /\ stage' = "up"
    /\ \E w \in Workers : Spawn(w)
    /\ UNCHANGED <<saved, listFrom, cancelled, client>>

\* The checkpoint, or the save at the end of Shutdown; one that fails to write is
\* one that does not happen.
Save ==
    /\ MayCall("save")
    /\ saved' = meta
    /\ UNCHANGED <<meta, listFrom, work, cancelled, handle, stage, client>>

Crash ==
    /\ stage # "down"
    /\ "crash" \in Faults
    /\ stage' = "down"
    /\ meta' = NewMeta
    /\ work' = [w \in Workers |-> IdleWork]
    /\ cancelled' = {}
    /\ handle' = NoWorker
    /\ client' = [k \in Clients |-> "idle"]
    /\ UNCHANGED <<saved, listFrom>>

Next ==
    \/ \E w \in Workers : Worker(w) \/ Start(w)
    \/ \E k \in Clients : Client(k)
    \/ Boot \/ SchedulerStart \/ Save \/ Crash

Spec == Init /\ [][Next]_vars

\* Go schedules every runnable goroutine and each call a worker makes returns;
\* an API call that began is carried to its end; main goes on to start.  Nothing
\* is assumed of the callers, of the checkpoint's ticker or of the faults.
Fairness ==
    /\ \A w \in Workers : WF_vars(Worker(w))
    /\ \A k \in Clients : WF_vars(Return(k))
    /\ WF_vars(Boot) /\ WF_vars(SchedulerStart)

FairSpec == Spec /\ Fairness

-----------------------------------------------------------------------------
(* Properties. *)

\* Where a pass that starts from metadata m begins: after m.completed items, or
\* from zero when that is past the end of the list.
ResumePoint(m) == IF m.completed < Items THEN m.completed ELSE 0

Covered(m) == 1..ResumePoint(m) \subseteq m.done

\* The items a resumed pass skips were all attempted: neither the metadata in
\* memory, which Start reads, nor the one saved in S3, which a restart reads,
\* counts an item as completed that the pass has not attempted.
ResumePointSound == Covered(meta) /\ Covered(saved)

\* A worker that finds its list exhausted, and goes on to the next pass,
\* belongs to a pass that has attempted every item, whatever crashes, restarts
\* and restored metadata it is made of.
PassCoversCollection ==
    \A w \in Workers :
        At(w, "next") /\ work[w].next > work[w].last => 1..Items \subseteq meta.done

\* Stopping is prompt: once its context is cancelled, a worker attempts at most
\* the one item for which it had already checked the context.
AtMostOneLateAttempt == \A w \in Workers : work[w].late <= 1

\* A list that is short because its load was interrupted is never consumed: its
\* end would be taken for the end of the collection.
ShortListUnused ==
    \A w \in Workers : work[w].pc \in {"next", "record"} => work[w].last = Items

\* Why both hold, however workers overlap: after that item the worker only records
\* it and looks at its context, and only a load that was interrupted is short.
ContextInv ==
    \A w \in Workers :
        /\ work[w].late # 0 =>
               work[w].late = 1 /\ w \in cancelled /\ work[w].pc \in {"record", "queue"}
        /\ work[w].pc \in {"setup", "queue"} => w \in cancelled \/ work[w].last = Items
        /\ work[w].pc \in {"persist", "next", "record"} => work[w].last = Items

\* While callers wait for the worker to exit before they start or reset again,
\* at most one goroutine works for the cycle.
OneWorker ==
    \A v, w \in Workers : ~At(v, "idle") /\ ~At(w, "idle") => v = w

\* A worker whose context is cancelled returns.
CancelledWorkerExits == \A w \in Workers : w \in cancelled ~> w \notin cancelled

\* A worker goes on to publish every item, again and again and from whatever
\* metadata it resumed, until it is stopped, Mongo fails or the process dies.
Republishes ==
    \A w \in Workers, i \in 1..Items :
        ~At(w, "idle") ~> \/ meta.current = i
                          \/ w \in cancelled
                          \/ "unhealthy" \in meta.state
                          \/ stage = "down"

-----------------------------------------------------------------------------
(* Why ResumePointSound holds when no worker overlaps another and S3 keeps   *)
(* the list: the invariant that each step preserves.                         *)

\* skip counts items of the pass that done describes, or is past the end.
SkipCovered(skip, done) == skip < Items => 1..skip \subseteq done

\* The list in S3, when there is one, is the whole collection's.
WholeList == listFrom = 0 /\ Items > 0

LoadingInv(w) ==
    /\ work[w].pc \in {"load", "cursor", "persist", "setup"}
         => SkipCovered(work[w].skip, meta.done) /\ (work[w].skip > 0 => WholeList)
    /\ work[w].pc \in {"cursor", "persist"}
         => work[w].from = 0 /\ (work[w].skip = 0 \/ work[w].skip >= Items)
    /\ At(w, "persist")
         => work[w].next = 1 /\ work[w].last = Items /\ work[w].len = Items
    /\ At(w, "setup")
         => /\ work[w].next = (IF work[w].skip < Items THEN work[w].skip + 1 ELSE 1)
            /\ \/ w \in cancelled
               \/ /\ work[w].last = Items /\ work[w].len = Items
                  /\ Items > 0 => listFrom = 0

PublishingInv(w) ==
    /\ work[w].pc \in {"queue", "next", "record"}
         => /\ 1..(work[w].next - 1) \subseteq meta.done
            /\ meta.completed < Items => work[w].next = meta.completed + 1
    /\ At(w, "queue") => w \in cancelled \/ (work[w].last = Items /\ WholeList)
    /\ work[w].pc \in {"next", "record"} => work[w].last = Items /\ WholeList
    /\ At(w, "record") => work[w].next \in meta.done /\ work[w].next <= Items

CallersInv ==
    /\ stage # "up" => Drained
    /\ \A k \in Clients : client[k] \in {"reset", "clear"} => AllIdle

ResumeInv ==
    /\ OneWorker
    /\ CallersInv
    /\ listFrom \in {NoList, 0}
    /\ meta.completed > 0 => WholeList
    /\ saved.completed > 0 => WholeList
    /\ ResumePointSound
    /\ \A w \in Workers : LoadingInv(w) /\ PublishingInv(w)

-----------------------------------------------------------------------------
(* What the documentation says, checked where the code disagrees. *)

\* api.yml, reset: the cycle is back "to the beginning of its iteration" (only
\* Reset leaves the state empty).
ResetStartsOver == meta.state = {} => meta.completed = 0

\* README: a cycle only becomes unhealthy through Mongo (stated for runs in
\* which Mongo does not fail and the collection is not empty).
UnhealthyMeansMongo == "unhealthy" \notin meta.state

\* README: a stopped cycle is no longer processing, once the call that stopped
\* it is over: no worker that is not itself being stopped is publishing.
StoppedMeansIdle ==
    meta.state = {"stopped"} /\ (\A k \in Clients : client[k] = "idle")
        => \A w \in Workers : work[w].pc \in {"queue", "next", "record"} => w \in cancelled
=============================================================================
