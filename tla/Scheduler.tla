------------------------------ MODULE Scheduler ------------------------------
(***************************************************************************)
(* defaultScheduler: its state, its map of cycles, its locks, the          *)
(* checkpoint goroutine, and the calls that several threads make on it at  *)
(* once: the API handlers, the two toggle watchers, the health checks.     *)
(*                                                                         *)
(* A call is a sequence of steps, one for each acquisition of a lock, each *)
(* access to schedulerState and each cycle started or stopped.  A cycle is *)
(* here only what its Start spawns and its Stop cancels; what the          *)
(* goroutine does, and that it may end by itself when Mongo fails, is in   *)
(* ThrottledCycle and WindowedCycle.                                       *)
(***************************************************************************)
EXTENDS Integers, FiniteSets

CONSTANTS
    Threads,    \* callers
    Cycles,     \* cycle objects: one is never added to the map twice
    Initial,    \* the cycles of the configuration file
    CallsOf,    \* the calls each thread makes
    Slots,      \* bound: checkpoint goroutines alive at once
    NoThread, NoCycle

Offs  == {"manualOff", "autoOff"}
Ons   == {"manualOn", "autoOn"}
Starts    == {"start", "healthy"}
Shutdowns == {"shutdown", "unhealthy"}
OnCycle   == {"add", "delete"}
OnOne     == {"resume", "stop"}     \* a reset stops the cycle too
Reports   == {"failover"}
Calls == Offs \union Ons \union Starts \union Shutdowns \union OnCycle \union OnOne
         \union Reports

ASSUME CyclesAssumption == Initial \subseteq Cycles /\ NoCycle \notin Cycles
ASSUME CallsAssumption == CallsOf \in [Threads -> SUBSET Calls]
ASSUME SlotsAssumption == Slots # {}
ASSUME OwnersAssumption == NoThread \notin Threads /\ Threads \intersect Slots = {}

VARIABLES
    cur, prev,  \* schedulerState
    map,        \* the cycles in defaultScheduler.cycles
    created,    \* the cycle objects made so far
    active,     \* cycles that were started, and not stopped since
    orphans,    \* cycles started again before that: the first cancel function is lost
    resumed,    \* not in the code: cycles that the API resumed and no Stop reached since
    halted,     \* not in the code: cycles that the API stopped since the scheduler runs,
                \* not started since
    readers,    \* who holds cycleLock for reading
    writer,     \* the thread waiting to hold it for writing, if any
    toggler,    \* who holds toggleHandlerLock
    stopper,    \* who holds checkpointHandler's lock
    ckpt,       \* the checkpoint goroutines
    thread      \* what each caller is doing

state  == <<cur, prev>>
goroutines == <<active, orphans, resumed, halted>>
cycles == <<map, created, goroutines>>
locks  == <<readers, writer, toggler, stopper>>
vars   == <<state, cycles, locks, ckpt, thread>>

Modes == {"unknown", "running", "stopped", "disabled", "autoDisabled"}

PC == {"idle", "startLock", "startEnabled", "startRunning", "startSet",
       "startEach", "startCheckpoint", "downLock", "downCheck", "downEach",
       "downSet", "downHandler", "downSend", "downSave", "toggleLock",
       "offEnabled", "offRunning", "offSet", "onRunning", "onWho", "onSet",
       "isHealthy", "isEnabled", "wasDisabled", "isUnhealthy",
       "isFailover", "wasFailover", "isManual",
       "write", "writing", "fetch", "found"}

IdleThread == [call |-> "none", pc |-> "idle", todo |-> {}, cycle |-> NoCycle]

TypeOK ==
    /\ cur \in Modes /\ prev \in Modes
    /\ map \subseteq created /\ created \subseteq Cycles
    /\ active \subseteq Cycles /\ orphans \subseteq Cycles
    /\ resumed \subseteq Cycles /\ halted \subseteq Cycles
    /\ readers \subseteq Threads \union Slots
    /\ writer \in Threads \union {NoThread}
    /\ toggler \in Threads \union {NoThread}
    /\ stopper \in Threads \union {NoThread}
    /\ ckpt \in [Slots -> {"none", "select", "lock", "saving"}]
    /\ thread \in [Threads -> [call : Calls \union {"none"}, pc : PC,
                               todo : SUBSET Cycles,
                               cycle : Cycles \union {NoCycle}]]
    /\ \A t \in Threads :
           thread[t].call \in OnCycle \union OnOne => thread[t].cycle \in Cycles

Init ==
    /\ cur = "disabled" /\ prev = "unknown"
    /\ map = Initial /\ created = Initial
    /\ active = {} /\ orphans = {} /\ resumed = {} /\ halted = {}
    /\ readers = {} /\ writer = NoThread
    /\ toggler = NoThread /\ stopper = NoThread
    /\ ckpt = [i \in Slots |-> "none"]
    /\ thread = [t \in Threads |-> IdleThread]

-----------------------------------------------------------------------------
At(t, pc)   == thread[t].pc = pc
Goto(t, pc) == thread' = [thread EXCEPT ![t].pc = pc]
Done(t)     == thread' = [thread EXCEPT ![t] = IdleThread]
Called(t, calls) == thread[t].call \in calls

SetState(s) ==
    IF cur = s THEN UNCHANGED state ELSE prev' = cur /\ cur' = s

Enabled == cur \notin {"disabled", "autoDisabled"}
Running == cur = "running"

\* cycle.Start: a goroutine that already runs goes on, and is out of reach.
StartCycle(c) ==
    /\ active' = active \union {c}
    /\ orphans' = orphans \union ({c} \intersect active)
    /\ halted' = halted \ {c}

\* cycle.Stop cancels the goroutine of the last Start.
StopCycle(c) ==
    /\ active' = active \ {c}
    /\ resumed' = resumed \ ({c} \ orphans)
    /\ UNCHANGED orphans

\* sync.RWMutex: a waiting writer keeps new readers out.
MayRead == writer = NoThread
RLock(o)   == MayRead /\ readers' = readers \union {o}
RUnlock(o) == readers' = readers \ {o}

-----------------------------------------------------------------------------
(* Start *)

StartLock(t) ==
    /\ At(t, "startLock")
    /\ RLock(t)
    /\ Goto(t, "startEnabled")
    /\ UNCHANGED <<state, cycles, writer, toggler, stopper, ckpt>>

StartEnabled(t) ==
    /\ At(t, "startEnabled")
    /\ IF Enabled
         THEN Goto(t, "startRunning") /\ UNCHANGED readers
         ELSE Done(t) /\ RUnlock(t)
    /\ UNCHANGED <<state, cycles, writer, toggler, stopper, ckpt>>

\* Variants: the lock is kept when the scheduler runs already; the scheduler is
\* started again.
StartRunningLocked(t) ==
    /\ At(t, "startRunning")
    /\ UNCHANGED readers
    /\ IF Running THEN Done(t) ELSE Goto(t, "startSet")
    /\ UNCHANGED <<state, cycles, writer, toggler, stopper, ckpt>>

StartRunningTwice(t) ==
    /\ At(t, "startRunning")
    /\ Goto(t, "startSet")
    /\ UNCHANGED <<state, cycles, locks, ckpt>>

StartRunning(t) ==
    /\ At(t, "startRunning")
    /\ IF Running
         THEN Done(t) /\ RUnlock(t)
         ELSE Goto(t, "startSet") /\ UNCHANGED readers
    /\ UNCHANGED <<state, cycles, writer, toggler, stopper, ckpt>>

\* Variant: the lock is released before the map is walked.
StartSetUnlocked(t) ==
    /\ At(t, "startSet")
    /\ SetState("running")
    /\ RUnlock(t)
    /\ thread' = [thread EXCEPT ![t].pc = "startEach", ![t].todo = map]
    /\ UNCHANGED <<cycles, writer, toggler, stopper, ckpt>>

StartSet(t) ==
    /\ At(t, "startSet")
    /\ SetState("running")
    /\ thread' = [thread EXCEPT ![t].pc = "startEach", ![t].todo = map]
    /\ UNCHANGED <<cycles, locks, ckpt>>

StartEach(t) ==
    /\ At(t, "startEach")
    /\ \/ \E c \in thread[t].todo :
            /\ StartCycle(c) /\ UNCHANGED resumed
            /\ thread' = [thread EXCEPT ![t].todo = @ \ {c}]
       \/ /\ thread[t].todo = {}
          /\ Goto(t, "startCheckpoint")
          /\ UNCHANGED goroutines
    /\ UNCHANGED <<state, map, created, locks, ckpt>>

\* Slots are only names for goroutines: which free one a goroutine gets is the same.
FreeSlot == CHOOSE i \in Slots : ckpt[i] = "none"

StartCheckpoint(t) ==
    /\ At(t, "startCheckpoint")
    /\ stopper = NoThread
    /\ \E i \in Slots : ckpt[i] = "none"
    /\ ckpt' = [ckpt EXCEPT ![FreeSlot] = "select"]
    /\ RUnlock(t)
    /\ Done(t)
    /\ UNCHANGED <<state, cycles, writer, toggler, stopper>>

-----------------------------------------------------------------------------
(* Shutdown, for the API, the signal handler, a health check or a toggle. *)

DownLock(t) ==
    /\ At(t, "downLock")
    /\ RLock(t)
    /\ Goto(t, "downCheck")
    /\ UNCHANGED <<state, cycles, writer, toggler, stopper, ckpt>>

DownCheck(t) ==
    /\ At(t, "downCheck")
    /\ Running
    /\ thread' = [thread EXCEPT ![t].pc = "downEach", ![t].todo = map]
    /\ UNCHANGED <<state, cycles, locks, ckpt>>

\* "Scheduler has already been shut down": a toggle that gets the error returns.
DownError(t) ==
    /\ At(t, "downCheck")
    /\ ~Running
    /\ RUnlock(t)
    /\ toggler' = IF toggler = t THEN NoThread ELSE toggler
    /\ Done(t)
    /\ UNCHANGED <<state, cycles, writer, stopper, ckpt>>

DownEach(t) ==
    /\ At(t, "downEach")
    /\ \/ \E c \in thread[t].todo :
            /\ StopCycle(c) /\ UNCHANGED halted
            /\ thread' = [thread EXCEPT ![t].todo = @ \ {c}]
       \/ /\ thread[t].todo = {}
          /\ Goto(t, "downSet")
          /\ UNCHANGED goroutines
    /\ UNCHANGED <<state, map, created, locks, ckpt>>

DownSet(t) ==
    /\ At(t, "downSet")
    /\ SetState("stopped")
    /\ halted' = {}
    /\ Goto(t, "downHandler")
    /\ UNCHANGED <<map, created, active, orphans, resumed, locks, ckpt>>

DownHandler(t) ==
    /\ At(t, "downHandler")
    /\ stopper = NoThread
    /\ stopper' = t
    /\ Goto(t, "downSend")
    /\ UNCHANGED <<state, cycles, readers, writer, toggler, ckpt>>

\* stopChan is unbuffered: the send waits for a goroutine that is in its select.
DownSend(t) ==
    /\ At(t, "downSend")
    /\ \E i \in Slots : ckpt[i] = "select" /\ ckpt' = [ckpt EXCEPT ![i] = "none"]
    /\ stopper' = NoThread
    /\ thread' = [thread EXCEPT ![t].pc = "downSave", ![t].todo = map]
    /\ UNCHANGED <<state, cycles, readers, writer, toggler>>

\* saveCycleMetadata, and the return to who called.
DownSave(t) ==
    /\ At(t, "downSave")
    /\ RUnlock(t)
    /\ IF Called(t, Offs)
         THEN thread' = [thread EXCEPT ![t].pc = "offSet", ![t].todo = {}]
         ELSE Done(t)
    /\ UNCHANGED <<state, cycles, writer, toggler, stopper, ckpt>>

-----------------------------------------------------------------------------
(* ManualToggleHandler and AutomaticToggleHandler: a value that does not    *)
(* parse is off.                                                            *)

ToggleLock(t) ==
    /\ At(t, "toggleLock")
    /\ toggler = NoThread
    /\ toggler' = t
    /\ Goto(t, IF Called(t, Offs) THEN "offEnabled" ELSE "onRunning")
    /\ UNCHANGED <<state, cycles, readers, writer, stopper, ckpt>>

ToggleUnlock(t) == toggler' = NoThread /\ Done(t)

OffEnabled(t) ==
    /\ At(t, "offEnabled")
    /\ IF Enabled THEN Goto(t, "offRunning") /\ UNCHANGED toggler ELSE ToggleUnlock(t)
    /\ UNCHANGED <<state, cycles, readers, writer, stopper, ckpt>>

\* Variant: only a scheduler that runs is disabled.
OffRunningOnly(t) ==
    /\ At(t, "offRunning")
    /\ IF Running THEN Goto(t, "downLock") /\ UNCHANGED toggler ELSE ToggleUnlock(t)
    /\ UNCHANGED <<state, cycles, readers, writer, stopper, ckpt>>

OffRunning(t) ==
    /\ At(t, "offRunning")
    /\ Goto(t, IF Running THEN "downLock" ELSE "offSet")
    /\ UNCHANGED <<state, cycles, locks, ckpt>>

\* Variant: what is kept is the type of the request.
OffSetRequest(t) ==
    /\ At(t, "offSet")
    /\ SetState(IF Called(t, {"autoOff"}) THEN "automatic" ELSE "manual")
    /\ ToggleUnlock(t)
    /\ UNCHANGED <<cycles, readers, writer, stopper, ckpt>>

OffSet(t) ==
    /\ At(t, "offSet")
    /\ SetState(IF Called(t, {"autoOff"}) THEN "autoDisabled" ELSE "disabled")
    /\ ToggleUnlock(t)
    /\ UNCHANGED <<cycles, readers, writer, stopper, ckpt>>

OnRunning(t) ==
    /\ At(t, "onRunning")
    /\ IF Running THEN ToggleUnlock(t) ELSE Goto(t, "onWho") /\ UNCHANGED toggler
    /\ UNCHANGED <<state, cycles, readers, writer, stopper, ckpt>>

\* Variant: either toggle undoes what the other did.
OnWhoEver(t) ==
    /\ At(t, "onWho")
    /\ Goto(t, "onSet")
    /\ UNCHANGED <<state, cycles, locks, ckpt>>

\* Only the cluster's toggle undoes what the cluster's toggle did.
OnWho(t) ==
    /\ At(t, "onWho")
    /\ IF (cur = "autoDisabled") = Called(t, {"autoOn"})
         THEN Goto(t, "onSet") /\ UNCHANGED toggler
         ELSE ToggleUnlock(t)
    /\ UNCHANGED <<state, cycles, readers, writer, stopper, ckpt>>

OnSet(t) ==
    /\ At(t, "onSet")
    /\ SetState("stopped")
    /\ ToggleUnlock(t)
    /\ UNCHANGED <<cycles, readers, writer, stopper, ckpt>>

-----------------------------------------------------------------------------
(* The cluster health check: unhealthyClusters reads the state flag by flag, *)
(* then calls Start or Shutdown.                                             *)

Test(t, pc, flag, then) ==
    /\ At(t, pc)
    /\ IF flag THEN Goto(t, then) ELSE Done(t)
    /\ UNCHANGED <<state, cycles, locks, ckpt>>

\* Variant: it is not asked whether the scheduler was disabled automatically.
HealthCheckEager(t) ==
    \/ Test(t, "isUnhealthy", Running, "downLock")
    \/ Test(t, "isHealthy", ~Running, "isEnabled")
    \/ Test(t, "isEnabled", Enabled, "startLock")

HealthCheck(t) ==
    \/ Test(t, "isUnhealthy", Running, "downLock")
    \/ Test(t, "isHealthy", ~Running, "isEnabled")
    \/ Test(t, "isEnabled", Enabled, "wasDisabled")
    \/ Test(t, "wasDisabled", prev # "autoDisabled", "startLock")

\* clusterFailoverHealthcheck, flag by flag; it blames the operator when the
\* last says that the scheduler is not enabled.
FailoverCheck(t) ==
    \/ Test(t, "isFailover", cur # "autoDisabled", "wasFailover")
    \/ Test(t, "wasFailover", prev # "autoDisabled", "isManual")
    \/ Test(t, "isManual", FALSE, "idle")

-----------------------------------------------------------------------------
(* AddCycle and DeleteCycle hold the lock for writing. *)

WriteWait(t) ==
    /\ At(t, "write")
    /\ writer = NoThread
    /\ writer' = t
    /\ Goto(t, "writing")
    /\ UNCHANGED <<state, cycles, readers, toggler, stopper, ckpt>>

Writing(t, call) ==
    /\ At(t, "writing") /\ Called(t, {call})
    /\ readers = {}
    /\ writer' = NoThread
    /\ Done(t)
    /\ UNCHANGED <<state, readers, toggler, stopper, ckpt>>

\* Variant: a cycle added to a running scheduler is not started.
AddCycleIdle(t) ==
    LET c == thread[t].cycle
    IN  /\ Writing(t, "add")
        /\ IF c \in created
             THEN UNCHANGED cycles
             ELSE /\ map' = map \union {c}
                  /\ created' = created \union {c}
                  /\ UNCHANGED goroutines

\* A conflicting ID is refused; a scheduler that runs starts the cycle.
AddCycle(t) ==
    LET c == thread[t].cycle
    IN  /\ Writing(t, "add")
        /\ IF c \in created
             THEN UNCHANGED cycles
             ELSE /\ map' = map \union {c}
                  /\ created' = created \union {c}
                  /\ IF Running THEN StartCycle(c) /\ UNCHANGED resumed
                                ELSE UNCHANGED goroutines

\* Variant: a deleted cycle is not stopped.
DeleteCycleRunning(t) ==
    /\ Writing(t, "delete")
    /\ map' = map \ {thread[t].cycle}
    /\ UNCHANGED <<created, goroutines>>

DeleteCycle(t) ==
    LET c == thread[t].cycle
    IN  /\ Writing(t, "delete")
        /\ IF c \in map
             THEN /\ map' = map \ {c} /\ halted' = halted \ {c}
                  /\ StopCycle(c)
                  /\ UNCHANGED created
             ELSE UNCHANGED cycles

-----------------------------------------------------------------------------
(* The API's resume, stop and reset of one cycle: the map is fetched under   *)
(* the lock, and the cycle used without it, in whatever mode the scheduler   *)
(* is.  The code looks the cycle up when the lock is free again; the map     *)
(* changes only at the step that ends the wait of a writer, so that what it  *)
(* finds there it could have found while it held the lock.                   *)

Fetch(t) ==
    /\ At(t, "fetch")
    /\ MayRead
    /\ IF thread[t].cycle \in map THEN Goto(t, "found") ELSE Done(t)
    /\ UNCHANGED <<state, cycles, locks, ckpt>>

ResumeCycle(t) ==
    LET c == thread[t].cycle
    IN  /\ At(t, "found") /\ Called(t, {"resume"})
        /\ StartCycle(c)
        /\ resumed' = resumed \union {c}
        /\ Done(t)
        /\ UNCHANGED <<state, map, created, locks, ckpt>>

HaltCycle(t) ==
    LET c == thread[t].cycle
    IN  /\ At(t, "found") /\ Called(t, {"stop"})
        /\ StopCycle(c)
        /\ halted' = IF Running THEN halted \union {c} ELSE halted
        /\ Done(t)
        /\ UNCHANGED <<state, map, created, locks, ckpt>>

-----------------------------------------------------------------------------
(* The checkpoint goroutine: select, then save under the read lock. *)

Tick(i) ==
    /\ ckpt[i] = "select"
    /\ ckpt' = [ckpt EXCEPT ![i] = "lock"]
    /\ UNCHANGED <<state, cycles, locks, thread>>

CheckpointLock(i) ==
    /\ ckpt[i] = "lock"
    /\ RLock(i)
    /\ ckpt' = [ckpt EXCEPT ![i] = "saving"]
    /\ UNCHANGED <<state, cycles, writer, toggler, stopper, thread>>

CheckpointSave(i) ==
    /\ ckpt[i] = "saving"
    /\ RUnlock(i)
    /\ ckpt' = [ckpt EXCEPT ![i] = "select"]
    /\ UNCHANGED <<state, cycles, writer, toggler, stopper, thread>>

-----------------------------------------------------------------------------
Entry == [call \in Calls |->
    CASE call = "start"          -> "startLock"
      [] call = "healthy"        -> "isHealthy"
      [] call = "unhealthy"      -> "isUnhealthy"
      [] call = "failover"       -> "isFailover"
      [] call = "shutdown"       -> "downLock"
      [] call \in Offs \union Ons -> "toggleLock"
      [] call \in OnCycle         -> "write"
      [] call \in OnOne           -> "fetch"]

\* A cycle object that was deleted is not the one a later AddCycle makes.
Call(t) ==
    /\ At(t, "idle")
    /\ \E call \in CallsOf[t] :
       \E c \in IF call \in OnCycle \union OnOne THEN Cycles ELSE {NoCycle} :
            /\ call = "add" => c \in map \/ c \notin created
            /\ thread' = [thread EXCEPT ![t] = [IdleThread EXCEPT
                              !.call = call, !.pc = Entry[call], !.cycle = c]]
    /\ UNCHANGED <<state, cycles, locks, ckpt>>

Step(t) ==
    \/ StartLock(t) \/ StartEnabled(t) \/ StartRunning(t) \/ StartSet(t)
    \/ StartEach(t) \/ StartCheckpoint(t)
    \/ DownLock(t) \/ DownCheck(t) \/ DownError(t) \/ DownEach(t) \/ DownSet(t)
    \/ DownHandler(t) \/ DownSend(t) \/ DownSave(t)
    \/ ToggleLock(t) \/ OffEnabled(t) \/ OffRunning(t) \/ OffSet(t)
    \/ OnRunning(t) \/ OnWho(t) \/ OnSet(t)
    \/ HealthCheck(t) \/ FailoverCheck(t)
    \/ WriteWait(t) \/ AddCycle(t) \/ DeleteCycle(t)
    \/ Fetch(t) \/ ResumeCycle(t) \/ HaltCycle(t)

Checkpoint(i) == Tick(i) \/ CheckpointLock(i) \/ CheckpointSave(i)

Next ==
    \/ \E t \in Threads : Call(t) \/ Step(t)
    \/ \E i \in Slots : Checkpoint(i)

Spec == Init /\ [][Next]_vars

\* Go schedules every thread that can take a step, its locks starve nobody (an
\* RWMutex lets in the readers that waited for a writer, a Mutex hands itself to
\* who waits too long), and a select chooses at random between a tick and a
\* sender that waits.  A checkpoint that began ends.
Fairness ==
    /\ \A t \in Threads : SF_vars(Step(t))
    /\ \A i \in Slots : SF_vars(CheckpointLock(i) \/ CheckpointSave(i))

FairSpec == Spec /\ Fairness

-----------------------------------------------------------------------------
(* Properties. *)

AllIdle == \A t \in Threads : At(t, "idle")

\* Nobody who walks the map sees it change under him: the cycles Start and
\* Shutdown have yet to reach are still in the map, and while a checkpoint or
\* the last save of a Shutdown walks it no write is in progress.
MapStable ==
    /\ \A t \in Threads :
         /\ thread[t].todo \subseteq map
         /\ thread[t].pc \in {"startEach", "downEach", "downSave"} => t \in readers
    /\ \A i \in Slots : ckpt[i] = "saving" => i \in readers

\* Why it holds: the steps at which a call holds cycleLock for reading, which
\* are the only ones at which it has cycles left to walk.
Reading == {"startEnabled", "startRunning", "startSet", "startEach",
            "startCheckpoint", "downCheck", "downEach", "downSet",
            "downHandler", "downSend", "downSave"}

ReadLockInv ==
    /\ \A t \in Threads :
         /\ thread[t].pc \in Reading => t \in readers
         /\ thread[t].todo # {} => thread[t].pc \in Reading
         /\ thread[t].todo \subseteq map
    /\ \A i \in Slots : ckpt[i] = "saving" => i \in readers

\* The calls that switch the scheduler do not overlap: a second begins when the
\* first is over, whoever makes it.  Edits of the map, the API's calls on one cycle,
\* failover reports and checkpoints may come at any time.
Switches == Starts \union Shutdowns \union Offs \union Ons
NoOverlap == \A t, u \in Threads : Called(t, Switches) /\ Called(u, Switches) => t = u

\* AddCycle, DeleteCycle and Start miss no cycle: when the calls are over and
\* the scheduler runs, every cycle of the map was started, added before, during
\* or after the Start, unless the API stopped that cycle since.
RunningCoversMap == AllIdle /\ Running => map \subseteq active \union halted

\* When the calls are over and the scheduler does not run, no cycle does, neither
\* those of the map nor the deleted ones, but for those that the API resumed and no
\* Stop could reach since: resumed while or after the shutdown stopped them, or so
\* that a goroutine's cancel function was overwritten.  A shutdown makes up for a
\* resume that came before it, and nothing but a resume leaves a goroutine behind.
StoppedMeansQuiet == AllIdle /\ ~Running => active \union orphans \subseteq resumed

\* The checkpoint goroutine is alive exactly while the scheduler runs, once.
CheckpointMatchesState ==
    AllIdle => Cardinality({i \in Slots : ckpt[i] # "none"}) = IF Running THEN 1 ELSE 0

(* Why these three hold when no calls overlap, and what follows for the mode. *)

\* Which call is at which step, and that a toggle holds its lock from then on.
Starting == {"startLock", "startEnabled", "startRunning", "startSet", "startEach",
             "startCheckpoint"}
Stopping == {"downLock", "downCheck", "downEach", "downSet", "downHandler", "downSend",
             "downSave"}

CallInv == \A t \in Threads :
    /\ At(t, "idle") <=> Called(t, {"none"})
    /\ thread[t].pc \in Starting => Called(t, Starts)
    /\ thread[t].pc \in Stopping => Called(t, Shutdowns \union Offs)
    /\ At(t, "toggleLock") => Called(t, Offs \union Ons)
    /\ thread[t].pc \in {"offEnabled", "offRunning", "offSet"} => Called(t, Offs)
    /\ thread[t].pc \in {"onRunning", "onWho", "onSet"} => Called(t, Ons)
    /\ thread[t].pc \in {"isHealthy", "isEnabled", "wasDisabled"} => Called(t, {"healthy"})
    /\ At(t, "isUnhealthy") => Called(t, {"unhealthy"})
    /\ thread[t].pc \in {"isFailover", "wasFailover", "isManual"} => Called(t, Reports)
    /\ thread[t].pc \in {"write", "writing"} => Called(t, OnCycle)
    /\ thread[t].pc \in {"fetch", "found"} => Called(t, OnOne)
    /\ toggler = t <=> Called(t, Offs \union Ons) /\ ~At(t, "toggleLock")

\* What a call read of the mode is still so when it acts on it.
ModeInv ==
    /\ cur # "unknown"
    /\ \A t \in Threads :
         /\ thread[t].pc \in {"startRunning", "offRunning"} => Enabled
         /\ thread[t].pc \in {"startEach", "startCheckpoint", "downEach", "downSet"} => Running
         /\ thread[t].pc \in {"startSet", "downHandler", "downSend", "downSave", "offSet"} =>
                cur = "stopped"
         /\ thread[t].pc \in {"downLock", "downCheck"} /\ Called(t, Offs) => Running
         /\ thread[t].pc \in {"onWho", "onSet"} => ~Running
         /\ At(t, "onSet") => (cur = "autoDisabled") = Called(t, {"autoOn"})
         /\ /\ Called(t, {"healthy"})
            /\ thread[t].pc \in {"startLock", "startEnabled", "startRunning", "startSet"}
            => prev # "autoDisabled"

\* Cycles and the checkpoint goroutine run as the mode says, but while a Start or
\* a Shutdown is bringing them there, and but for what the API did to single cycles.
Changing == {"startEach", "startCheckpoint", "downEach", "downSet", "downHandler",
             "downSend", "downSave"}
Alive == {i \in Slots : ckpt[i] # "none"}
OneAlive == \E i \in Slots : Alive = {i}

\* The cycles in S are started, and nothing else is, the API's doings apart.
Started(S) == S \subseteq active \union halted /\ active \subseteq S \union resumed

RunInv ==
    /\ orphans \subseteq resumed
    /\ (\A t \in Threads : thread[t].pc \notin Changing) =>
           IF Running THEN Started(map) /\ OneAlive ELSE active \subseteq resumed /\ Alive = {}
    /\ \A t \in Threads :
         /\ At(t, "startEach") => Started(map \ thread[t].todo) /\ Alive = {}
         /\ At(t, "startCheckpoint") => Started(map) /\ Alive = {}
         /\ At(t, "downEach") => active \subseteq thread[t].todo \union resumed /\ OneAlive
         /\ thread[t].pc \in {"downSet", "downHandler", "downSend"} =>
                active \subseteq resumed /\ OneAlive
         /\ At(t, "downSave") => active \subseteq resumed /\ Alive = {}

\* What a shutdown leaves running when it saves the metadata at its end: cycles that
\* the API resumed behind it, or resumed while they ran, and nothing else.
ShutdownLeavesResumed ==
    \A t \in Threads : At(t, "downSave") => active \union orphans \subseteq resumed

\* The scheduler's mode moves as Lifecycle says: the steps of every handler, of
\* Start and of Shutdown implement the moves that a toggle's owner may make.
ToggleOwner ==
    IF toggler = NoThread THEN "nobody"
    ELSE IF Called(toggler, {"autoOff", "autoOn"}) THEN "cluster" ELSE "operator"

ModeSpec == INSTANCE Lifecycle WITH mode <- cur, last <- prev, toggle <- ToggleOwner
Lifecycle == ModeSpec!Spec

\* After a failback only an operator starts the scheduler again: a healthy
\* cluster does not.
NoRestartAfterFailback ==
    [][cur = "stopped" /\ prev = "autoDisabled" /\ cur' = "running"
        => \E t \in Threads : At(t, "startSet") /\ Called(t, {"start"})]_vars

\* README: the carousel starts or shuts down as the toggle requires: when the
\* handler of "off" is over, the carousel is disabled.  The call that shuts it down
\* first, and any shutdown before it, must not keep it from that.
OffDisables == [][\A t \in Threads :
    Called(t, Offs) /\ toggler = t /\ toggler' # t => cur' \in {"disabled", "autoDisabled"}]_vars

\* Every call returns.
CallsReturn == \A t \in Threads : ~At(t, "idle") ~> At(t, "idle")

\* The one deadlock: a shutdown sends to the checkpoint goroutine, which waits to
\* read-lock the map behind a writer, who waits for the shutdown.
Blocked ==
    /\ writer # NoThread
    /\ \E t \in Threads : At(t, "downSend")
    /\ \E i \in Slots : ckpt[i] = "lock"
    /\ \A i \in Slots : ckpt[i] # "select"

CallsReturnOrBlock == \A t \in Threads : ~At(t, "idle") ~> At(t, "idle") \/ Blocked

\* A call waits where it needs a lock, a checkpoint goroutine to stop, or a slot
\* to start one.  The calls are stuck when each of those under way waits and no
\* checkpoint that began can go on.
Waits(t) ==
    \/ thread[t].pc \in {"startLock", "downLock", "write", "fetch"} /\ writer # NoThread
    \/ At(t, "writing") /\ readers # {}
    \/ At(t, "toggleLock") /\ toggler # NoThread
    \/ At(t, "downHandler") /\ stopper # NoThread
    \/ At(t, "downSend") /\ \A i \in Slots : ckpt[i] # "select"
    \/ At(t, "startCheckpoint") /\ (stopper # NoThread \/ \A i \in Slots : ckpt[i] # "none")

Stuck ==
    /\ \E t \in Threads : ~At(t, "idle")
    /\ \A t \in Threads : ~At(t, "idle") => Waits(t)
    /\ \A i \in Slots : ckpt[i] # "saving" /\ (ckpt[i] = "lock" => ~MayRead)

\* What CallsReturnOrBlock rests on: there is no deadlock but that one.
StuckMeansBlocked == Stuck => Blocked

\* Why: each lock is held by a call, or a checkpoint, that is at a step of its own
\* between taking it and giving it back.
LockInv ==
    /\ writer # NoThread => At(writer, "writing")
    /\ stopper # NoThread => At(stopper, "downSend")
    /\ \A t \in Threads : t \in readers => thread[t].pc \in Reading
    /\ \A i \in Slots : i \in readers => ckpt[i] = "saving"

(* What the documentation says, checked where the code disagrees. *)

\* api.yml: Shutdown stops all cycles.
ShutdownStopsAll == \A t \in Threads : At(t, "downSave") => active = {} /\ orphans = {}

\* healthchecks.go: "Carousel scheduler manually disabled" is said of a carousel
\* that the operator disabled, not of one that a failover did.
ReportIsTrue ==
    [][\A t \in Threads :
        At(t, "isManual") /\ thread'[t].pc = "idle" /\ ~Enabled => cur = "disabled"]_vars

\* README: the carousel is not started while it is passive.
PassiveStaysPassive ==
    [][~(cur \in {"disabled", "autoDisabled"} /\ cur' = "running")]_vars
=============================================================================
