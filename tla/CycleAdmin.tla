------------------------------ MODULE CycleAdmin ------------------------------
(***************************************************************************)
(* The API that creates, deletes, resumes, stops and resets a cycle and     *)
(* changes its throttle, for one cycle ID: the cycles made for that ID, the *)
(* one that the scheduler's map holds, the goroutines that publish them,    *)
(* and the boot, checkpoint, shutdown and crash around the calls.           *)
(*                                                                          *)
(* ThrottledCycle has the steps of one cycle, its states and what S3 keeps   *)
(* of it, and WindowedCycle those of another.  Here a goroutine loads in one *)
(* step and then attempts its items in order, or only waits; when several    *)
(* goroutines count in one metadata, or a late one may, it holds any number. *)
(* A Shutdown that overlaps a Start is Scheduler's.                          *)
(***************************************************************************)
EXTENDS CycleConfig, FiniteSets

CONSTANTS
    Objects,    \* slots for the cycles made for the ID
    Workers,    \* slots for their goroutines
    Threads,    \* the threads of API calls
    Items,      \* how many items the collection has
    TheID,      \* the cycle ID
    Files,      \* the configuration files: sequences of configurations
    Bodies,     \* the bodies of POST /cycles, all of TheID
    Intervals,  \* the bodies of PUT /cycles/{id}/throttle
    Controls,   \* what each thread calls: a subset of ControlNames
    None

ControlNames == {"resume", "stop", "reset", "throttle"}

ASSUME ItemsAssumption == Items \in Nat \ {0}
ASSUME ConfigsAssumption ==
    /\ \A b \in Bodies : b \in Config /\ ID(b) = TheID
    /\ \A f \in Files : \A i \in DOMAIN f : f[i] \in Config
    /\ Intervals \subseteq Times
ASSUME CallsAssumption == Controls \in [Threads -> SUBSET ControlNames]
ASSUME NoneAssumption == None \notin Objects \union Workers \union Config

VARIABLES
    file,       \* the configuration file
    mode,       \* the process is down, or the scheduler is stopped, starting or running
    current,    \* the cycle in the scheduler's map, or None
    cycle,      \* the cycles
    work,       \* the goroutines
    cancel,     \* the goroutine of each cycle that its Stop cancels, or None
    cancelled,  \* the goroutines whose context is cancelled
    saved,      \* the CycleMetadata in S3
    thread,     \* the API calls under way
    halted,     \* not in the code: the cycles that were stopped, or whose goroutine
                \* gave up, since they were last started
    revived,    \* not in the code: the cycles resumed after they left the map
    wanted      \* not in the code: configured or created, and not deleted since

goroutines == <<work, cancel, cancelled, halted>>
vars == <<file, mode, current, cycle, goroutines, saved, thread, revived, wanted>>

\* A count past the end is as good as Items: the next load starts from zero.  Two
\* fields are not in the code: "done", the items attempted in the pass that completed
\* counts, until it is at the end, and "mixed", that not only one goroutine counted.
Meta == [completed : 0..Items, done : SUBSET (1..Items), mixed : BOOLEAN]

EmptyMeta == [completed |-> 0, done |-> {}, mixed |-> FALSE]
MixedMeta == [completed |-> 0, done |-> {}, mixed |-> TRUE]   \* of any number

NoCycle == [config |-> None, meta |-> EmptyMeta]
Cycle   == [config : Config \union {None}, meta : Meta]

IdleWork == [pc |-> "idle", of |-> None, next |-> 1]
Work     == [pc : {"idle", "first", "again", "window", "queue"},
             of : Objects \union {None}, next : 1..(Items + 1)]

IdleThread == [pc |-> "idle", call |-> None, of |-> None,
               throttle |-> None, copy |-> EmptyMeta]
Thread == [pc : {"idle", "found", "copied", "removed"}, call : ControlNames \union {None},
           of : Objects \union {None}, throttle : Times \union {None}, copy : Meta]

TypeOK ==
    /\ file \in Files
    /\ mode \in {"down", "stopped", "starting", "running"}
    /\ current \in Objects \union {None}
    /\ cycle \in [Objects -> Cycle]
    /\ work \in [Workers -> Work]
    /\ cancel \in [Objects -> Workers \union {None}]
    /\ cancelled \subseteq Workers
    /\ saved \in Meta
    /\ thread \in [Threads -> Thread]
    /\ halted \subseteq Objects
    /\ revived \subseteq Objects
    /\ wanted \in BOOLEAN

Init ==
    /\ file \in Files
    /\ mode = "down"
    /\ current = None
    /\ cycle = [o \in Objects |-> NoCycle]
    /\ work = [w \in Workers |-> IdleWork]
    /\ cancel = [o \in Objects |-> None]
    /\ cancelled = {}
    /\ saved = EmptyMeta    \* nothing saved: boot keeps the new cycle's metadata
    /\ thread = [t \in Threads |-> IdleThread]
    /\ halted = {}
    /\ revived = {}
    /\ wanted = FALSE

-----------------------------------------------------------------------------
(* The goroutine of a cycle: start(ctx). *)

At(w, pc)  == work[w].pc = pc
MetaOf(w)  == cycle[work[w].of].meta
SetMeta(w, m) == cycle' = [cycle EXCEPT ![work[w].of].meta = m]

Publishing(o) == {w \in Workers : At(w, "queue") /\ work[w].of = o}

\* From where an iteration loads: the first of a goroutine from the metadata's
\* Completed, every later one from zero.
Skips(w) ==
    IF At(w, "again") THEN {0}
    ELSE IF MetaOf(w).mixed THEN 0..Items
    ELSE {MetaOf(w).completed}

From(skip) == IF skip < Items THEN skip ELSE 0

\* The metadata that the iteration begins with.
BeginMeta(w, skip) ==
    IF Publishing(work[w].of) # {} \/ (MetaOf(w).mixed /\ From(skip) > 0)
      THEN MixedMeta
      ELSE [completed |-> skip, mixed |-> FALSE,
            done |-> IF From(skip) = 0 THEN {} ELSE MetaOf(w).done]

Begin(w) ==
    /\ work[w].pc \in {"first", "again"}
    /\ IF IsThrottled(cycle[work[w].of].config)
         THEN \E skip \in Skips(w) :
                  /\ work' = [work EXCEPT ![w].pc = "queue", ![w].next = From(skip) + 1]
                  /\ SetMeta(w, BeginMeta(w, skip))
         ELSE work' = [work EXCEPT ![w].pc = "window"] /\ UNCHANGED cycle
    /\ UNCHANGED <<file, mode, current, cancel, cancelled, saved, thread, halted, revived,
                   wanted>>

\* start returns.
Exit(w) ==
    /\ work' = [work EXCEPT ![w] = IdleWork]
    /\ cancel' = [cancel EXCEPT ![work[w].of] = IF @ = w THEN None ELSE @]
    /\ cancelled' = cancelled \ {w}
    /\ UNCHANGED <<file, mode, current, saved, thread, revived, wanted>>

\* The context is looked at before each item; the goroutine of a scaling window
\* looks at it between its windows.
Stopped(w) ==
    /\ work[w].pc \in {"queue", "window"}
    /\ w \in cancelled
    /\ Exit(w)
    /\ UNCHANGED <<cycle, halted>>

\* Mongo fails, or a throttled cycle's collection is empty.
GiveUp(w) ==
    /\ work[w].pc \in {"first", "again", "window"}
    /\ \/ UNCHANGED cycle
       \/ /\ ~At(w, "window") /\ IsThrottled(cycle[work[w].of].config)
          /\ \E skip \in Skips(w) : SetMeta(w, BeginMeta(w, skip))
    /\ halted' = halted \union {o \in Objects : cancel[o] = w}
    /\ Exit(w)

\* updateProgress, after an item and, with none, at the end of the list
Progress(m, items) ==
    IF m.mixed THEN m
    ELSE IF m.completed + 1 < Items
      THEN [m EXCEPT !.completed = @ + 1, !.done = @ \union items]
      ELSE [completed |-> Items, done |-> {}, mixed |-> FALSE]

\* An item is attempted and counted.
Publish(w) ==
    /\ At(w, "queue") /\ work[w].next <= Items
    /\ w \notin cancelled
    /\ SetMeta(w, Progress(MetaOf(w), {work[w].next}))
    /\ work' = [work EXCEPT ![w].next = @ + 1]
    /\ UNCHANGED <<file, mode, current, cancel, cancelled, saved, thread, halted, revived,
                   wanted>>

Finish(w) ==
    /\ At(w, "queue") /\ work[w].next > Items
    /\ w \notin cancelled
    /\ SetMeta(w, Progress(MetaOf(w), {}))
    /\ work' = [work EXCEPT ![w].pc = "again", ![w].next = 1]
    /\ UNCHANGED <<file, mode, current, cancel, cancelled, saved, thread, halted, revived,
                   wanted>>

Worker(w) == Begin(w) \/ Stopped(w) \/ GiveUp(w) \/ Publish(w) \/ Finish(w)

-----------------------------------------------------------------------------
(* What the handlers and the scheduler do with a cycle. *)

Fresh(o) == cycle[o].config = None
Quiet(o) == \A w \in Workers : work[w].of # o

\* Go frees a cycle that nothing refers to.
Free(o) ==
    /\ ~Fresh(o) /\ Quiet(o) /\ o # current
    /\ \A t \in Threads : thread[t].of # o
    /\ cycle' = [cycle EXCEPT ![o] = NoCycle]
    /\ halted' = halted \ {o}
    /\ revived' = revived \ {o}
    /\ UNCHANGED <<file, mode, current, work, cancel, cancelled, saved, thread, wanted>>

\* Start runs a goroutine, whether or not the cycle has one, and keeps its cancel
\* function in place of the last one's.
Start(o) ==
    /\ \E w \in Workers :
        /\ At(w, "idle")
        /\ work' = [work EXCEPT ![w] = [pc |-> "first", of |-> o, next |-> 1]]
        /\ cancel' = [cancel EXCEPT ![o] = w]
    /\ halted' = halted \ {o}
    /\ UNCHANGED cancelled

\* Stop cancels the goroutine that was started last.
Stop(o) ==
    /\ cancelled' = cancelled \union ({cancel[o]} \ {None})
    /\ halted' = halted \union {o}
    /\ UNCHANGED <<work, cancel>>

Put(o, c, m) ==
    /\ Fresh(o)
    /\ cycle' = [cycle EXCEPT ![o] = [config |-> NewCycle(c), meta |-> m]]
    /\ current' = o

\* Variant: the new cycle is not started.
AddCycleIdle(c, m) ==
    \E o \in Objects : Put(o, c, m) /\ UNCHANGED goroutines

\* createCycle, when no cycle has the ID: NewCycle, SetMetadata and AddCycle, which
\* starts it when the scheduler runs.
AddCycle(c, m) ==
    \E o \in Objects :
        /\ Put(o, c, m)
        /\ IF mode = "running" THEN Start(o) ELSE UNCHANGED goroutines

\* Variant: the cycle leaves the map, and is not stopped.
RemoveCycleRunning ==
    current # None /\ current' = None /\ UNCHANGED goroutines

\* scheduler.DeleteCycle
RemoveCycle == current # None /\ current' = None /\ Stop(current)

-----------------------------------------------------------------------------
(* The API calls. *)

\* Start holds the lock for reading as it walks the map: a call that writes the map
\* waits for it.
Unlocked == mode \in {"stopped", "running"}

\* POST /cycles
CreateCycle(b) ==
    /\ Unlocked
    /\ Validate(b) /\ current = None
    /\ AddCycle(b, EmptyMeta)
    /\ wanted' = TRUE
    /\ UNCHANGED <<file, mode, saved, thread, revived>>

\* DELETE /cycles/{id}
DeleteCycle ==
    /\ Unlocked
    /\ RemoveCycle
    /\ wanted' = FALSE
    /\ UNCHANGED <<file, mode, cycle, saved, thread, revived>>

\* The other calls look the cycle up first; the throttle is set of a throttled one.
Find(t, call) ==
    /\ thread[t].pc = "idle" /\ call \in Controls[t]
    /\ current # None
    /\ call = "throttle" => IsThrottled(cycle[current].config)
    /\ \E d \in (IF call = "throttle" THEN Intervals ELSE {None}) :
           thread' = [thread EXCEPT ![t].pc = "found", ![t].call = call,
                                    ![t].of = current, ![t].throttle = d]
    /\ UNCHANGED <<file, mode, current, cycle, goroutines, saved, revived, wanted>>

Found(t, call) == thread[t].pc = "found" /\ thread[t].call = call

Answer(t) == thread' = [thread EXCEPT ![t] = IdleThread]

\* The cycle may run already, and may have left the map since it was found.
ResumeCycle(t) ==
    /\ Found(t, "resume")
    /\ Start(thread[t].of)
    /\ revived' = revived \union ({thread[t].of} \ {current})
    /\ Answer(t)
    /\ UNCHANGED <<file, mode, current, cycle, saved, wanted>>

StopCycle(t) ==
    /\ Found(t, "stop")
    /\ Stop(thread[t].of)
    /\ Answer(t)
    /\ UNCHANGED <<file, mode, current, cycle, saved, revived, wanted>>

\* A goroutine may count one more item in the metadata that replaces the old.
ResetCycle(t) ==
    /\ Found(t, "reset")
    /\ Stop(thread[t].of)
    /\ cycle' = [cycle EXCEPT ![thread[t].of].meta =
                     IF Publishing(thread[t].of) = {} THEN EmptyMeta ELSE MixedMeta]
    /\ Answer(t)
    /\ UNCHANGED <<file, mode, current, saved, revived, wanted>>

\* SetCycleThrottle copies the metadata of the cycle it found ...
CopyMetadata(t) ==
    /\ Found(t, "throttle")
    /\ thread' = [thread EXCEPT ![t].pc = "copied",
                                ![t].copy = cycle[thread[t].of].meta]
    /\ UNCHANGED <<file, mode, current, cycle, goroutines, saved, revived, wanted>>

\* ... deletes whatever cycle has the ID by then ...
RemoveOld(t) ==
    /\ thread[t].pc = "copied" /\ Unlocked
    /\ thread' = [thread EXCEPT ![t].pc = "removed"]
    /\ \/ RemoveCycle
       \/ current = None /\ UNCHANGED <<current, goroutines>>
    /\ UNCHANGED <<file, mode, cycle, saved, revived, wanted>>

Retuned(t) == [TransformToConfig(cycle[thread[t].of].config)
                   EXCEPT !.throttle = thread[t].throttle]

\* Variant: the metadata is set after the cycle was added, and started.
AddNewThenSet(t) ==
    /\ \/ /\ thread[t].pc = "removed" /\ current = None /\ Unlocked
          /\ AddCycle(Retuned(t), EmptyMeta)
          /\ thread' = [thread EXCEPT ![t].pc = "set", ![t].of = current']
       \/ /\ thread[t].pc = "set"
          /\ cycle' = [cycle EXCEPT ![thread[t].of].meta = thread[t].copy]
          /\ Answer(t)
          /\ UNCHANGED <<current, goroutines>>
    /\ UNCHANGED <<file, mode, saved, revived, wanted>>

\* ... and creates another, unless its configuration is not valid or a cycle of the
\* ID was created meanwhile.
AddNew(t) ==
    /\ thread[t].pc = "removed" /\ Unlocked
    /\ IF Validate(Retuned(t)) /\ current = None
         THEN AddCycle(Retuned(t), thread[t].copy)
         ELSE UNCHANGED <<current, cycle, goroutines>>
    /\ Answer(t)
    /\ UNCHANGED <<file, mode, saved, revived, wanted>>

Call(t) ==
    \/ \E call \in ControlNames : Find(t, call)
    \/ ResumeCycle(t) \/ StopCycle(t) \/ ResetCycle(t)
    \/ CopyMetadata(t) \/ RemoveOld(t) \/ AddNew(t)

-----------------------------------------------------------------------------
(* The process. *)

\* LoadSchedulerFromFile, then RestorePreviousState.
Boot ==
    /\ mode = "down"
    /\ mode' = "stopped"
    /\ \/ \E i \in Loaded(file, TheID) :
              AddCycle(file[i], IF IsThrottled(file[i]) THEN saved ELSE EmptyMeta)
       \/ Loaded(file, TheID) = {} /\ UNCHANGED <<current, cycle, goroutines>>
    /\ wanted' = (Loaded(file, TheID) # {})
    /\ UNCHANGED <<file, saved, thread, revived>>

\* The scheduler is set running ...
SchedulerStart ==
    /\ mode = "stopped"
    /\ mode' = "starting"
    /\ UNCHANGED <<file, current, cycle, goroutines, saved, thread, revived, wanted>>

\* ... and starts what is in its map, whatever runs already.
StartCycles ==
    /\ mode = "starting"
    /\ mode' = "running"
    /\ \/ current = None /\ UNCHANGED goroutines
       \/ current # None /\ Start(current)
    /\ UNCHANGED <<file, current, cycle, saved, thread, revived, wanted>>

\* saveCycleMetadata, of a throttled cycle only
Save ==
    saved' = IF current # None /\ IsThrottled(cycle[current].config)
               THEN cycle[current].meta ELSE saved

Shutdown ==
    /\ mode = "running"
    /\ mode' = "stopped"
    /\ \/ current = None /\ UNCHANGED goroutines
       \/ current # None /\ Stop(current)
    /\ Save
    /\ UNCHANGED <<file, current, cycle, thread, revived, wanted>>

Checkpoint ==
    /\ mode = "running"
    /\ Save
    /\ UNCHANGED <<file, mode, current, cycle, goroutines, thread, revived, wanted>>

Crash ==
    /\ mode # "down"
    /\ mode' = "down"
    /\ current' = None
    /\ cycle' = [o \in Objects |-> NoCycle]
    /\ work' = [w \in Workers |-> IdleWork]
    /\ cancel' = [o \in Objects |-> None]
    /\ cancelled' = {}
    /\ thread' = [t \in Threads |-> IdleThread]
    /\ halted' = {}
    /\ revived' = {}
    /\ wanted' = FALSE
    /\ UNCHANGED <<file, saved>>

Next ==
    \/ \E w \in Workers : Worker(w)
    \/ \E t \in Threads : Call(t)
    \/ \E b \in Bodies : CreateCycle(b)
    \/ DeleteCycle
    \/ \E o \in Objects : Free(o)
    \/ Boot \/ SchedulerStart \/ StartCycles \/ Shutdown \/ Checkpoint \/ Crash

Spec == Init /\ [][Next]_vars

-----------------------------------------------------------------------------
(* Properties. *)

\* No pass skips an item it has not attempted, whichever cycle of the ID attempted
\* it: the metadata of every cycle, the copy a throttle change carries from one
\* cycle to the next and the one in S3 count as completed only what was attempted.
\* Where a goroutine counted beside another, or after a reset, nothing is claimed.
Covered(m) == m.mixed \/ m.completed >= Items \/ 1..m.completed \subseteq m.done

NothingSkipped ==
    /\ Covered(saved)
    /\ \A o \in Objects : Covered(cycle[o].meta)
    /\ \A t \in Threads : Covered(thread[t].copy)

\* A cycle that is configured, or whose creation was answered 201, stays in the
\* scheduler until it is deleted, except while a throttle change has removed it and
\* not yet put it back: SetCycleThrottle never leaves the ID without a cycle.
CycleStays ==
    wanted /\ current = None => \E t \in Threads : thread[t].pc = "removed"

\* A goroutine that goes on publishing, and that its cycle could stop, is the current
\* cycle's: a cycle that was deleted, or replaced with another throttle, is being
\* stopped, unless it was resumed after that.
LiveWorkersAreCurrent ==
    \A w \in Workers :
        ~At(w, "idle") /\ w \notin cancelled /\ cancel[work[w].of] = w
            => work[w].of \in {current} \union revived

\* While the scheduler runs, the cycle it holds is published, by a goroutine that a
\* Stop would cancel, however the cycle came to be there and whoever started it
\* besides, until it is stopped or that goroutine gives up.
CurrentRuns ==
    mode = "running" /\ current # None /\ current \notin halted
        => \E w \in Workers :
               cancel[current] = w /\ work[w].of = current /\ w \notin cancelled

-----------------------------------------------------------------------------
(* Why these hold: the invariant that each step preserves. *)

\* A goroutine works for one cycle, the one that a cycle would cancel works for it,
\* and a list that one goroutine publishes is at the item after those it counted.
GoroutineInv ==
    /\ \A w \in Workers :
        /\ At(w, "idle") <=> work[w].of = None
        /\ At(w, "idle") => w \notin cancelled
        /\ ~At(w, "idle") => ~Fresh(work[w].of)
        /\ At(w, "queue") /\ ~MetaOf(w).mixed /\ MetaOf(w).completed < Items =>
               /\ 1..(work[w].next - 1) \subseteq MetaOf(w).done
               /\ work[w].next = MetaOf(w).completed + 1
    /\ \A o \in Objects : cancel[o] # None => work[cancel[o]].of = o
    /\ \A v, w \in Workers :
           At(v, "queue") /\ At(w, "queue") /\ work[v].of = work[w].of
               => v = w \/ MetaOf(w).mixed

\* A call holds a cycle that exists; a throttle change, a throttled one.
ThreadInv ==
    \A t \in Threads : thread[t].pc # "idle" =>
        /\ thread[t].of \in Objects /\ ~Fresh(thread[t].of)
        /\ thread[t].pc # "found" => thread[t].call = "throttle"
        /\ thread[t].call = "throttle" =>
               thread[t].throttle \in Times /\ IsThrottled(cycle[thread[t].of].config)

\* What a throttled cycle was made of was valid.
CycleInv ==
    /\ current # None => ~Fresh(current)
    /\ \A o \in Objects : ~Fresh(o) /\ IsThrottled(cycle[o].config) => Validate(cycle[o].config)
    /\ mode = "down" =>
        /\ current = None
        /\ \A w \in Workers : At(w, "idle")
        /\ \A t \in Threads : thread[t].pc = "idle"

AdminInv ==
    /\ TypeOK /\ GoroutineInv /\ ThreadInv /\ CycleInv
    /\ NothingSkipped /\ CycleStays /\ LiveWorkersAreCurrent /\ CurrentRuns

-----------------------------------------------------------------------------
(* What the documentation says, checked where the code disagrees. *)

\* api.yml, DELETE /cycles/{id}: the cycle "was removed".
DeletedStaysDeleted == current # None => wanted

\* api.yml, DELETE /cycles/{id}: a cycle that is deleted no longer runs.
DeletedDoNotRun == current = None => \A w \in Workers : ~At(w, "idle") => w \in cancelled
=============================================================================
