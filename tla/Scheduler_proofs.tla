--------------------------- MODULE Scheduler_proofs ---------------------------
(***************************************************************************)
(* What holds of Scheduler for any number of threads, calls, cycles and    *)
(* checkpoint goroutines, however the calls overlap; and what holds as     *)
(* long as no two calls that switch it overlap (NoOverlap), whoever makes  *)
(* them and whoever edits the map meanwhile.                               *)
(***************************************************************************)
EXTENDS Scheduler, FiniteSetTheorems, TLAPS

-----------------------------------------------------------------------------
(* Types. *)

ThreadType == [call : Calls \union {"none"}, pc : PC, todo : SUBSET Cycles,
               cycle : Cycles \union {NoCycle}]

\* An idle thread is a thread.
LEMMA IdleThreadType == IdleThread \in ThreadType
BY DEF IdleThread, ThreadType, PC

\* Every call has a first step.
LEMMA EntryType == ASSUME NEW call \in Calls PROVE Entry[call] \in PC
BY DEF Entry, Calls, Offs, Ons, Starts, Shutdowns, OnCycle, OnOne, Reports, PC

\* What TypeOK says of the threads.
ThreadsTyped ==
    /\ thread \in [Threads -> ThreadType]
    /\ \A t \in Threads : thread[t].call \in OnCycle \union OnOne => thread[t].cycle \in Cycles

\* A thread that begins to walk some cycles is a thread.
LEMMA WalkType ==
    ASSUME ThreadsTyped, NEW t \in Threads, NEW pc \in PC, NEW todo \in SUBSET Cycles,
           thread' = [thread EXCEPT ![t].pc = pc, ![t].todo = todo]
    PROVE  ThreadsTyped'
<1>1. thread[t] \in ThreadType
    BY DEF ThreadsTyped
<1>2. [thread[t] EXCEPT !.pc = pc, !.todo = todo] \in ThreadType
    BY <1>1 DEF ThreadType
<1>3. thread' = [thread EXCEPT ![t] = [thread[t] EXCEPT !.pc = pc, !.todo = todo]]
    BY DEF ThreadsTyped
<1>4. thread' \in [Threads -> ThreadType]
    BY <1>2, <1>3 DEF ThreadsTyped
<1>5. ASSUME NEW u \in Threads
      PROVE  thread'[u].call = thread[u].call /\ thread'[u].cycle = thread[u].cycle
    BY <1>1, <1>3 DEF ThreadsTyped, ThreadType
<1> QED
    BY <1>4, <1>5 DEF ThreadsTyped

\* The types, with those of the threads apart.
LEMMA TypeSplit ==
    /\ TypeOK => ThreadsTyped
    /\ ThreadsTyped'
       /\ (cur \in Modes /\ prev \in Modes)'
       /\ (map \subseteq created /\ created \subseteq Cycles)'
       /\ (active \subseteq Cycles /\ orphans \subseteq Cycles)'
       /\ (resumed \subseteq Cycles /\ halted \subseteq Cycles)'
       /\ (readers \subseteq Threads \union Slots)'
       /\ (writer \in Threads \union {NoThread})'
       /\ (toggler \in Threads \union {NoThread})'
       /\ (stopper \in Threads \union {NoThread})'
       /\ (ckpt \in [Slots -> {"none", "select", "lock", "saving"}])'
       => TypeOK'
BY DEF TypeOK, ThreadsTyped, ThreadType

\* A step of a call keeps the types.
LEMMA StepType ==
    ASSUME TypeOK, NEW t \in Threads, Step(t)
    PROVE  TypeOK'
<1> USE IdleThreadType DEF TypeOK, ThreadType, PC, Modes, state, cycles, goroutines, locks,
       IdleThread, OnCycle, OnOne
<1>1. CASE StartLock(t)
    BY <1>1 DEF StartLock, RLock, Goto
<1>2. CASE StartEnabled(t)
    BY <1>2 DEF StartEnabled, RUnlock, Goto, Done
<1>3. CASE StartRunning(t)
    BY <1>3 DEF StartRunning, RUnlock, Goto, Done
<1>4. CASE StartSet(t)
    <2>1. map \in SUBSET Cycles /\ "startEach" \in PC
        OBVIOUS
    <2>2. thread' = [thread EXCEPT ![t].pc = "startEach", ![t].todo = map]
        BY <1>4 DEF StartSet
    <2>3. ThreadsTyped'
        BY <2>1, <2>2, WalkType, TypeSplit
    <2> QED
        BY <1>4, <2>3, TypeSplit DEF StartSet, SetState
<1>5. CASE StartEach(t)
    BY <1>5 DEF StartEach, StartCycle, Goto
<1>6. CASE StartCheckpoint(t)
    BY <1>6 DEF StartCheckpoint, RUnlock, Done
<1>7. CASE DownLock(t)
    BY <1>7 DEF DownLock, RLock, Goto
<1>8. CASE DownCheck(t)
    <2>1. map \in SUBSET Cycles /\ "downEach" \in PC
        OBVIOUS
    <2>2. thread' = [thread EXCEPT ![t].pc = "downEach", ![t].todo = map]
        BY <1>8 DEF DownCheck
    <2>3. ThreadsTyped'
        BY <2>1, <2>2, WalkType, TypeSplit
    <2> QED
        BY <1>8, <2>3, TypeSplit DEF DownCheck
<1>9. CASE DownError(t)
    BY <1>9 DEF DownError, RUnlock, Done
<1>10. CASE DownEach(t)
    BY <1>10 DEF DownEach, StopCycle, Goto
<1>11. CASE DownSet(t)
    BY <1>11 DEF DownSet, SetState, Goto
<1>12. CASE DownHandler(t)
    BY <1>12 DEF DownHandler, Goto
<1>13. CASE DownSend(t)
    <2>1. map \in SUBSET Cycles /\ "downSave" \in PC
        OBVIOUS
    <2>2. thread' = [thread EXCEPT ![t].pc = "downSave", ![t].todo = map]
        BY <1>13 DEF DownSend
    <2>3. ThreadsTyped'
        BY <2>1, <2>2, WalkType, TypeSplit
    <2> QED
        BY <1>13, <2>3, TypeSplit DEF DownSend
<1>14. CASE DownSave(t)
    BY <1>14 DEF DownSave, RUnlock, Done
<1>15. CASE ToggleLock(t)
    BY <1>15 DEF ToggleLock, Goto
<1>16. CASE OffEnabled(t)
    BY <1>16 DEF OffEnabled, ToggleUnlock, Goto, Done
<1>17. CASE OffRunning(t)
    BY <1>17 DEF OffRunning, Goto
<1>18. CASE OffSet(t)
    BY <1>18 DEF OffSet, SetState, ToggleUnlock, Done
<1>19. CASE OnRunning(t)
    BY <1>19 DEF OnRunning, ToggleUnlock, Goto, Done
<1>20. CASE OnWho(t)
    BY <1>20 DEF OnWho, ToggleUnlock, Goto, Done
<1>21. CASE OnSet(t)
    BY <1>21 DEF OnSet, SetState, ToggleUnlock, Done
<1>22. CASE HealthCheck(t)
    BY <1>22 DEF HealthCheck, Test, Goto, Done
<1>23. CASE WriteWait(t)
    BY <1>23 DEF WriteWait, Goto
<1>24. CASE AddCycle(t)
    BY <1>24 DEF AddCycle, Writing, Called, Done, StartCycle, OnCycle
<1>25. CASE DeleteCycle(t)
    BY <1>25 DEF DeleteCycle, Writing, Called, Done, StopCycle, OnCycle
<1>26. CASE FailoverCheck(t)
    BY <1>26 DEF FailoverCheck, Test, Goto, Done
<1>27. CASE Fetch(t)
    BY <1>27 DEF Fetch, Goto, Done
<1>28. CASE ResumeCycle(t)
    BY <1>28 DEF ResumeCycle, StartCycle, Done, Called
<1>29. CASE HaltCycle(t)
    BY <1>29 DEF HaltCycle, StopCycle, Done, Called
<1> QED
    BY <1>1, <1>2, <1>3, <1>4, <1>5, <1>6, <1>7, <1>8, <1>9, <1>10, <1>11, <1>12, <1>13, <1>14,
       <1>15, <1>16, <1>17, <1>18, <1>19, <1>20, <1>21, <1>22, <1>23, <1>24, <1>25, <1>26,
       <1>27, <1>28, <1>29 DEF Step

\* The checkpoint goroutine keeps the types.
LEMMA CheckpointType ==
    ASSUME TypeOK, NEW i \in Slots, Checkpoint(i)
    PROVE  TypeOK'
BY DEF TypeOK, Checkpoint, Tick, CheckpointLock, CheckpointSave, RLock, RUnlock,
       state, cycles, goroutines, locks, Modes

\* The state has the types TypeOK gives it; in particular the map holds only
\* cycles that were created.
THEOREM TypeCorrect == Spec => []TypeOK
<1>1. Init => TypeOK
    BY CyclesAssumption, IdleThreadType DEF Init, TypeOK, Modes, ThreadType, IdleThread, OnCycle, OnOne
<1>2. TypeOK /\ [Next]_vars => TypeOK'
    <2> SUFFICES ASSUME TypeOK, [Next]_vars PROVE TypeOK'
        OBVIOUS
    <2>1. ASSUME NEW t \in Threads, Step(t) PROVE TypeOK'
        BY <2>1, StepType
    <2>2. ASSUME NEW t \in Threads, Call(t) PROVE TypeOK'
        <3>1. PICK call \in CallsOf[t], c \in Cycles \union {NoCycle} :
                  /\ call \in OnCycle \union OnOne => c \in Cycles
                  /\ thread' = [thread EXCEPT ![t] = [IdleThread EXCEPT
                                    !.call = call, !.pc = Entry[call], !.cycle = c]]
            BY <2>2 DEF Call
        <3>2. call \in Calls /\ Entry[call] \in PC
            BY CallsAssumption, EntryType
        <3>3. thread' \in [Threads -> ThreadType]
            BY <3>1, <3>2 DEF TypeOK, ThreadType, IdleThread
        <3>4. \A u \in Threads : thread'[u].call \in OnCycle \union OnOne =>
                  thread'[u].cycle \in Cycles
            BY <3>1, <3>2 DEF TypeOK, IdleThread
        <3> QED
            BY <2>2, <3>3, <3>4 DEF Call, TypeOK, ThreadType, state, cycles, goroutines, locks
    <2>3. ASSUME NEW i \in Slots, Checkpoint(i) PROVE TypeOK'
        BY <2>3, CheckpointType
    <2>4. CASE UNCHANGED vars
        BY <2>4 DEF vars, TypeOK, state, cycles, goroutines, locks
    <2> QED
        BY <2>1, <2>2, <2>3, <2>4 DEF Next
<1> QED
    BY <1>1, <1>2, PTL DEF Spec

-----------------------------------------------------------------------------
(* Walking the map. *)

\* No thread writes the map while another, or a checkpoint, is walking it.
LEMMA ReadLockStep ==
    ASSUME TypeOK, ReadLockInv, [Next]_vars
    PROVE  ReadLockInv'
<1> USE DEF TypeOK, ReadLockInv, Reading, At, state, cycles, locks
<1>1. ASSUME NEW t \in Threads,
             \/ StartLock(t) \/ StartEnabled(t) \/ StartRunning(t) \/ StartSet(t)
             \/ StartEach(t) \/ StartCheckpoint(t)
      PROVE  ReadLockInv'
    BY <1>1, OwnersAssumption
       DEF StartLock, StartEnabled, StartRunning, StartSet, StartEach,
           StartCheckpoint, Goto, Done, RLock, RUnlock, IdleThread
<1>2. ASSUME NEW t \in Threads,
             \/ DownLock(t) \/ DownCheck(t) \/ DownError(t) \/ DownEach(t)
             \/ DownSet(t) \/ DownHandler(t) \/ DownSend(t) \/ DownSave(t)
      PROVE  ReadLockInv'
    BY <1>2, OwnersAssumption
       DEF DownLock, DownCheck, DownError, DownEach, DownSet, DownHandler,
           DownSend, DownSave, Goto, Done, RLock, RUnlock, IdleThread
<1>3. ASSUME NEW t \in Threads,
             \/ ToggleLock(t) \/ OffEnabled(t) \/ OffRunning(t) \/ OffSet(t)
             \/ OnRunning(t) \/ OnWho(t) \/ OnSet(t)
             \/ HealthCheck(t) \/ FailoverCheck(t)
             \/ Fetch(t) \/ ResumeCycle(t) \/ HaltCycle(t)
      PROVE  ReadLockInv'
    BY <1>3 DEF ToggleLock, OffEnabled, OffRunning, OffSet, OnRunning, OnWho, OnSet,
                ToggleUnlock, HealthCheck, FailoverCheck, Test, Fetch, ResumeCycle, HaltCycle,
                Goto, Done, IdleThread
\* A writer finds no reader, hence no thread with cycles left to walk.
<1>4. ASSUME NEW t \in Threads, WriteWait(t) \/ AddCycle(t) \/ DeleteCycle(t)
      PROVE  ReadLockInv'
    <2>1. CASE WriteWait(t)
        BY <2>1 DEF WriteWait, Goto
    <2>2. CASE AddCycle(t) \/ DeleteCycle(t)
        <3>1. readers = {} /\ readers' = {} /\ ckpt' = ckpt
              /\ thread' = [thread EXCEPT ![t] = IdleThread]
            BY <2>2 DEF AddCycle, DeleteCycle, Writing, Done
        <3>2. \A u \in Threads : thread[u].todo = {} /\ thread[u].pc \notin Reading
            BY <3>1
        <3>3. \A u \in Threads : thread'[u].todo = {} /\ thread'[u].pc \notin Reading
            BY <3>1, <3>2 DEF IdleThread
        <3> QED
            BY <3>1, <3>3
    <2> QED
        BY <1>4, <2>1, <2>2
<1>5. ASSUME NEW t \in Threads, Call(t) PROVE ReadLockInv'
    <2>1. PICK call \in CallsOf[t], c \in Cycles \union {NoCycle} :
              /\ call \in OnCycle \union OnOne => c \in Cycles
              /\ thread' = [thread EXCEPT ![t] = [IdleThread EXCEPT
                                !.call = call, !.pc = Entry[call], !.cycle = c]]
        BY <1>5 DEF Call
    <2>2. thread'[t].todo = {} /\ thread'[t].pc = Entry[call]
        BY <2>1 DEF IdleThread
    <2>3. Entry[call] \notin Reading
        BY CallsAssumption DEF Entry, Calls, Offs, Ons, Starts, Shutdowns, OnCycle, OnOne, Reports
    <2> QED
        BY <1>5, <2>1, <2>2, <2>3 DEF Call
<1>6. ASSUME NEW i \in Slots, Checkpoint(i) PROVE ReadLockInv'
    BY <1>6, OwnersAssumption
       DEF Checkpoint, Tick, CheckpointLock, CheckpointSave, RLock, RUnlock
<1>7. CASE UNCHANGED vars
    BY <1>7 DEF vars
<1> QED
    BY <1>1, <1>2, <1>3, <1>4, <1>5, <1>6, <1>7 DEF Next, Step

\* Who walks the map holds its lock.
LEMMA ReadLockHolds == Spec => []ReadLockInv
<1>1. Init => ReadLockInv
    BY DEF Init, ReadLockInv, Reading, IdleThread
<1> QED
    BY TypeCorrect, <1>1, ReadLockStep, PTL DEF Spec

\* However many threads start, shut down, toggle, check, add and delete
\* at once, the map is the same from the moment a Start, a Shutdown or a
\* checkpoint begins to walk it until it is done.
THEOREM MapIsStable == Spec => []MapStable
<1>1. ReadLockInv => MapStable
    BY DEF ReadLockInv, MapStable, Reading
<1> QED
    BY <1>1, ReadLockHolds, PTL
-----------------------------------------------------------------------------
(* The mode, when no calls overlap. *)

\* The first step of a call is the one its handler begins with.
LEMMA EntryOfCall ==
    ASSUME NEW call \in Calls
    PROVE  /\ call = "start" => Entry[call] = "startLock"
           /\ call = "healthy" => Entry[call] = "isHealthy"
           /\ call = "unhealthy" => Entry[call] = "isUnhealthy"
           /\ call = "failover" => Entry[call] = "isFailover"
           /\ call = "shutdown" => Entry[call] = "downLock"
           /\ call \in Offs \union Ons => Entry[call] = "toggleLock"
           /\ call \in OnCycle => Entry[call] = "write"
           /\ call \in OnOne => Entry[call] = "fetch"
BY DEF Entry, Calls, Offs, Ons, Starts, Shutdowns, OnCycle, OnOne, Reports

\* What the thread of a new call is doing; the others go on.
LEMMA NewCall ==
    ASSUME TypeOK, NEW t \in Threads, Call(t)
    PROVE  /\ At(t, "idle")
           /\ thread'[t].call \in Calls /\ thread'[t].pc = Entry[thread'[t].call]
           /\ thread'[t].todo = {}
           /\ \A u \in Threads \ {t} : thread'[u] = thread[u]
           /\ UNCHANGED <<state, cycles, locks, ckpt>>
<1>1. PICK call \in CallsOf[t], c \in Cycles \union {NoCycle} :
          thread' = [thread EXCEPT ![t] = [IdleThread EXCEPT
                        !.call = call, !.pc = Entry[call], !.cycle = c]]
    BY DEF Call
<1>2. call \in Calls
    BY CallsAssumption
<1>3. /\ thread'[t].call = call /\ thread'[t].pc = Entry[call] /\ thread'[t].todo = {}
      /\ \A u \in Threads \ {t} : thread'[u] = thread[u]
    BY <1>1 DEF TypeOK, IdleThread
<1> QED
    BY <1>2, <1>3 DEF Call

\* A step leaves the other threads alone, and takes its own to pc.
Others(t) == \A u \in Threads \ {t} : thread'[u] = thread[u]
Moves(t, pc) ==
    /\ thread'[t].pc = pc /\ thread'[t].call = thread[t].call
    /\ Others(t)
Ends(t) == thread'[t] = IdleThread /\ Others(t)

LEMMA GotoMoves ==
    ASSUME TypeOK, NEW t \in Threads, NEW pc, Goto(t, pc)
    PROVE  Moves(t, pc) /\ thread'[t].todo = thread[t].todo
BY DEF TypeOK, Goto, Moves, Others

LEMMA DoneEnds == ASSUME TypeOK, NEW t \in Threads, Done(t) PROVE Ends(t)
BY DEF TypeOK, Done, Ends, Others

LEMMA WalkMoves ==
    ASSUME TypeOK, NEW t \in Threads, NEW pc, NEW todo,
           thread' = [thread EXCEPT ![t].pc = pc, ![t].todo = todo]
    PROVE  Moves(t, pc) /\ thread'[t].todo = todo
<1>1. thread' = [thread EXCEPT ![t] = [thread[t] EXCEPT !.pc = pc, !.todo = todo]]
    OBVIOUS
<1>2. thread'[t] = [thread[t] EXCEPT !.pc = pc, !.todo = todo] /\ Others(t)
    BY <1>1 DEF TypeOK, Others
<1>3. thread[t] \in ThreadType
    BY DEF TypeOK, ThreadType
<1> QED
    BY <1>2, <1>3 DEF Moves, ThreadType

LEMMA WalkOn ==
    ASSUME TypeOK, NEW t \in Threads, NEW c,
           thread' = [thread EXCEPT ![t].todo = @ \ {c}]
    PROVE  Moves(t, thread[t].pc) /\ thread'[t].todo = thread[t].todo \ {c}
<1>1. thread' = [thread EXCEPT ![t] = [thread[t] EXCEPT !.todo = thread[t].todo \ {c}]]
    OBVIOUS
<1>2. thread'[t] = [thread[t] EXCEPT !.todo = thread[t].todo \ {c}] /\ Others(t)
    BY <1>1 DEF TypeOK, Others
<1>3. thread[t] \in ThreadType
    BY DEF TypeOK, ThreadType
<1> QED
    BY <1>2, <1>3 DEF Moves, ThreadType

\* The steps at which a call begins to walk the map, and the last of a Shutdown.
LEMMA WalkSteps ==
    ASSUME TypeOK, NEW t \in Threads
    PROVE  /\ StartSet(t) => Moves(t, "startEach") /\ thread'[t].todo = map
           /\ DownCheck(t) => Moves(t, "downEach") /\ thread'[t].todo = map
           /\ DownSend(t) => Moves(t, "downSave") /\ thread'[t].todo = map
           /\ DownSave(t) => IF Called(t, Offs)
                               THEN Moves(t, "offSet") /\ thread'[t].todo = {}
                               ELSE Ends(t)
<1>1. ASSUME StartSet(t) PROVE Moves(t, "startEach") /\ thread'[t].todo = map
    <2>1. thread' = [thread EXCEPT ![t].pc = "startEach", ![t].todo = map]
        BY <1>1 DEF StartSet
    <2> QED
        BY <2>1, WalkMoves
<1>2. ASSUME DownCheck(t) PROVE Moves(t, "downEach") /\ thread'[t].todo = map
    <2>1. thread' = [thread EXCEPT ![t].pc = "downEach", ![t].todo = map]
        BY <1>2 DEF DownCheck
    <2> QED
        BY <2>1, WalkMoves
<1>3. ASSUME DownSend(t) PROVE Moves(t, "downSave") /\ thread'[t].todo = map
    <2>1. thread' = [thread EXCEPT ![t].pc = "downSave", ![t].todo = map]
        BY <1>3 DEF DownSend
    <2> QED
        BY <2>1, WalkMoves
<1>4. ASSUME DownSave(t), Called(t, Offs) PROVE Moves(t, "offSet") /\ thread'[t].todo = {}
    <2>1. thread' = [thread EXCEPT ![t].pc = "offSet", ![t].todo = {}]
        BY <1>4 DEF DownSave
    <2> QED
        BY <2>1, WalkMoves
<1>5. ASSUME DownSave(t), ~Called(t, Offs) PROVE Ends(t)
    BY <1>5, DoneEnds DEF DownSave
<1> QED
    BY <1>1, <1>2, <1>3, <1>4, <1>5

\* A step of a call keeps the call, or ends it.
LEMMA StepKeepsCall ==
    ASSUME TypeOK, NEW t \in Threads, Step(t)
    PROVE  Others(t) /\ (thread'[t].call = thread[t].call \/ thread'[t] = IdleThread)
<1> USE GotoMoves, DoneEnds, WalkOn DEF Moves, Ends
<1>1. CASE StartLock(t)
    BY <1>1 DEF StartLock
<1>2. CASE StartEnabled(t)
    BY <1>2 DEF StartEnabled
<1>3. CASE StartRunning(t)
    BY <1>3 DEF StartRunning
<1>4. CASE StartSet(t)
    BY <1>4, WalkSteps
<1>5. CASE StartEach(t)
    BY <1>5 DEF StartEach
<1>6. CASE StartCheckpoint(t)
    BY <1>6 DEF StartCheckpoint
<1>7. CASE DownLock(t)
    BY <1>7 DEF DownLock
<1>8. CASE DownCheck(t)
    BY <1>8, WalkSteps
<1>9. CASE DownError(t)
    BY <1>9 DEF DownError
<1>10. CASE DownEach(t)
    BY <1>10 DEF DownEach
<1>11. CASE DownSet(t)
    BY <1>11 DEF DownSet, SetState
<1>12. CASE DownHandler(t)
    BY <1>12 DEF DownHandler
<1>13. CASE DownSend(t)
    BY <1>13, WalkSteps
<1>14. CASE DownSave(t)
    BY <1>14, WalkSteps
<1>15. CASE ToggleLock(t)
    BY <1>15 DEF ToggleLock
<1>16. CASE OffEnabled(t)
    BY <1>16 DEF OffEnabled, ToggleUnlock
<1>17. CASE OffRunning(t)
    BY <1>17 DEF OffRunning
<1>18. CASE OffSet(t)
    BY <1>18 DEF OffSet, ToggleUnlock, SetState
<1>19. CASE OnRunning(t)
    BY <1>19 DEF OnRunning, ToggleUnlock
<1>20. CASE OnWho(t)
    BY <1>20 DEF OnWho, ToggleUnlock
<1>21. CASE OnSet(t)
    BY <1>21 DEF OnSet, ToggleUnlock, SetState
<1>22. CASE HealthCheck(t)
    BY <1>22 DEF HealthCheck, Test
<1>23. CASE FailoverCheck(t)
    BY <1>23 DEF FailoverCheck, Test
<1>24. CASE WriteWait(t)
    BY <1>24 DEF WriteWait
<1>25. CASE AddCycle(t)
    BY <1>25 DEF AddCycle, Writing
<1>26. CASE DeleteCycle(t)
    BY <1>26 DEF DeleteCycle, Writing
<1>27. CASE Fetch(t)
    BY <1>27 DEF Fetch
<1>28. CASE ResumeCycle(t) \/ HaltCycle(t)
    BY <1>28 DEF ResumeCycle, HaltCycle
<1> QED
    BY <1>1, <1>2, <1>3, <1>4, <1>5, <1>6, <1>7, <1>8, <1>9, <1>10, <1>11, <1>12, <1>13, <1>14, <1>15, <1>16, <1>17, <1>18, <1>19, <1>20, <1>21, <1>22, <1>23, <1>24, <1>25, <1>26, <1>27, <1>28 DEF Step

\* A step of a call is at a step of its kind, and a toggle's call holds its lock.
LEMMA CallStep ==
    ASSUME TypeOK, CallInv, NEW t \in Threads, Step(t)
    PROVE  CallInv'
<1> USE GotoMoves, DoneEnds, WalkOn, OwnersAssumption
    DEF CallInv, Moves, Ends, Others, IdleThread, At, Called, Starting, Stopping, Starts, Shutdowns, Offs, Ons, OnCycle, OnOne, Reports, locks
<1>1. CASE StartLock(t)
    BY <1>1 DEF StartLock
<1>2. CASE StartEnabled(t)
    BY <1>2 DEF StartEnabled
<1>3. CASE StartRunning(t)
    BY <1>3 DEF StartRunning
<1>4. CASE StartSet(t)
    <2>1. At(t, "startSet") /\ UNCHANGED toggler
        BY <1>4 DEF StartSet
    <2>2. Moves(t, "startEach")
        BY <1>4, WalkSteps
    <2> QED
        BY <2>1, <2>2
<1>5. CASE StartEach(t)
    BY <1>5 DEF StartEach
<1>6. CASE StartCheckpoint(t)
    BY <1>6 DEF StartCheckpoint
<1>7. CASE DownLock(t)
    BY <1>7 DEF DownLock
<1>8. CASE DownCheck(t)
    <2>1. At(t, "downCheck") /\ UNCHANGED toggler
        BY <1>8 DEF DownCheck
    <2>2. Moves(t, "downEach")
        BY <1>8, WalkSteps
    <2> QED
        BY <2>1, <2>2
<1>9. CASE DownError(t)
    BY <1>9 DEF DownError
<1>10. CASE DownEach(t)
    BY <1>10 DEF DownEach
<1>11. CASE DownSet(t)
    BY <1>11 DEF DownSet
<1>12. CASE DownHandler(t)
    BY <1>12 DEF DownHandler
<1>13. CASE DownSend(t)
    <2>1. At(t, "downSend") /\ UNCHANGED toggler
        BY <1>13 DEF DownSend
    <2>2. Moves(t, "downSave")
        BY <1>13, WalkSteps
    <2> QED
        BY <2>1, <2>2
<1>14. CASE DownSave(t)
    <2>1. At(t, "downSave") /\ UNCHANGED toggler
        BY <1>14 DEF DownSave
    <2>2. IF Called(t, Offs) THEN Moves(t, "offSet") ELSE Ends(t)
        BY <1>14, WalkSteps
    <2> QED
        BY <2>1, <2>2
<1>15. CASE ToggleLock(t)
    BY <1>15 DEF ToggleLock
<1>16. CASE OffEnabled(t)
    BY <1>16 DEF OffEnabled, ToggleUnlock
<1>17. CASE OffRunning(t)
    BY <1>17 DEF OffRunning
<1>18. CASE OffSet(t)
    BY <1>18 DEF OffSet, ToggleUnlock
<1>19. CASE OnRunning(t)
    BY <1>19 DEF OnRunning, ToggleUnlock
<1>20. CASE OnWho(t)
    BY <1>20 DEF OnWho, ToggleUnlock
<1>21. CASE OnSet(t)
    BY <1>21 DEF OnSet, ToggleUnlock
<1>22. CASE HealthCheck(t)
    BY <1>22 DEF HealthCheck, Test
<1>23. CASE FailoverCheck(t)
    BY <1>23 DEF FailoverCheck, Test
<1>24. CASE WriteWait(t)
    BY <1>24 DEF WriteWait
<1>25. CASE AddCycle(t)
    BY <1>25 DEF AddCycle, Writing
<1>26. CASE DeleteCycle(t)
    BY <1>26 DEF DeleteCycle, Writing
<1>27. CASE Fetch(t)
    BY <1>27 DEF Fetch
<1>28. CASE ResumeCycle(t) \/ HaltCycle(t)
    BY <1>28 DEF ResumeCycle, HaltCycle
<1> QED
    BY <1>1, <1>2, <1>3, <1>4, <1>5, <1>6, <1>7, <1>8, <1>9, <1>10, <1>11, <1>12, <1>13, <1>14, <1>15, <1>16, <1>17, <1>18, <1>19, <1>20, <1>21, <1>22, <1>23, <1>24, <1>25, <1>26, <1>27, <1>28 DEF Step

\* So for any step of the scheduler.
LEMMA CallNext ==
    ASSUME TypeOK, CallInv, [Next]_vars
    PROVE  CallInv'
<1>1. ASSUME NEW t \in Threads, Call(t) PROVE CallInv'
    <2>1. thread'[t].call \in Calls /\ thread'[t].pc = Entry[thread'[t].call]
          /\ Others(t) /\ At(t, "idle") /\ UNCHANGED toggler
        BY <1>1, NewCall DEF Others, locks
    <2> QED
        BY <2>1, EntryOfCall
           DEF CallInv, Others, At, Called, Starting, Stopping, Calls, Starts, Shutdowns, Offs,
               Ons, OnCycle, OnOne, Reports
<1>2. ASSUME NEW i \in Slots, Checkpoint(i) PROVE CallInv'
    BY <1>2 DEF Checkpoint, Tick, CheckpointLock, CheckpointSave, locks, CallInv, At, Called
<1>3. CASE UNCHANGED vars
    BY <1>3 DEF vars, locks, CallInv, At, Called
<1> QED
    BY <1>1, <1>2, <1>3, CallStep DEF Next

\* Which call is at which step.
LEMMA CallsAreWhereTheyAre == Spec => []CallInv
<1>1. Init => CallInv
    BY OwnersAssumption DEF Init, CallInv, IdleThread, At, Called, Starting, Stopping, Starts, Shutdowns,
           Offs, Ons, OnCycle, OnOne, Reports
<1> QED
    BY TypeCorrect, <1>1, CallNext, PTL DEF Spec

\* The steps of a call that does not switch the scheduler.
Aside == {"idle", "isFailover", "wasFailover", "isManual", "write", "writing",
          "fetch", "found"}

\* Nobody else switches the scheduler while a call does.
LEMMA Alone ==
    ASSUME TypeOK, CallInv, NoOverlap, NEW t \in Threads, thread[t].pc \notin Aside
    PROVE  \A u \in Threads \ {t} : thread[u].pc \in Aside
<1>1. ASSUME NEW u \in Threads, thread[u].pc \notin Aside PROVE Called(u, Switches)
    <2>1. thread[u].pc \in PC
        BY DEF TypeOK
    <2> QED
        BY <1>1, <2>1 DEF PC, Aside, CallInv, At, Called, Starting, Stopping, Switches, Starts, Shutdowns, Offs, Ons
<1> QED
    BY <1>1 DEF NoOverlap

\* A step of a call that switches the scheduler acts on the mode it read.
LEMMA ModeStep ==
    ASSUME TypeOK, CallInv, NoOverlap, ModeInv, NEW t \in Threads, Step(t)
    PROVE  ModeInv'
<1> USE GotoMoves, DoneEnds, WalkOn, Alone
    DEF ModeInv, Moves, Ends, Others, IdleThread, At, Called, Aside, Enabled, Running, state
<1>0. Enabled /\ ~Running => cur = "stopped"
    BY DEF TypeOK, Modes, ModeInv, Enabled, Running
<1>1. CASE StartLock(t)
    BY <1>1 DEF StartLock
<1>2. CASE StartEnabled(t)
    BY <1>2 DEF StartEnabled
<1>3. CASE StartRunning(t)
    BY <1>0, <1>3 DEF StartRunning
<1>4. CASE StartSet(t)
    <2>1. At(t, "startSet") /\ SetState("running")
        BY <1>4 DEF StartSet
    <2>2. Moves(t, "startEach")
        BY <1>4, WalkSteps
    <2> QED
        BY <2>1, <2>2 DEF SetState
<1>5. CASE StartEach(t)
    BY <1>5 DEF StartEach
<1>6. CASE StartCheckpoint(t)
    BY <1>6 DEF StartCheckpoint
<1>7. CASE DownLock(t)
    BY <1>7 DEF DownLock
<1>8. CASE DownCheck(t)
    <2>1. At(t, "downCheck") /\ Running /\ UNCHANGED state
        BY <1>8 DEF DownCheck
    <2>2. Moves(t, "downEach")
        BY <1>8, WalkSteps
    <2> QED
        BY <2>1, <2>2 DEF SetState
<1>9. CASE DownError(t)
    BY <1>9 DEF DownError
<1>10. CASE DownEach(t)
    BY <1>10 DEF DownEach
<1>11. CASE DownSet(t)
    BY <1>11 DEF DownSet, SetState
<1>12. CASE DownHandler(t)
    BY <1>12 DEF DownHandler
<1>13. CASE DownSend(t)
    <2>1. At(t, "downSend") /\ UNCHANGED state
        BY <1>13 DEF DownSend
    <2>2. Moves(t, "downSave")
        BY <1>13, WalkSteps
    <2> QED
        BY <2>1, <2>2 DEF SetState
<1>14. CASE DownSave(t)
    <2>1. At(t, "downSave") /\ UNCHANGED state
        BY <1>14 DEF DownSave
    <2>2. IF Called(t, Offs) THEN Moves(t, "offSet") ELSE Ends(t)
        BY <1>14, WalkSteps
    <2> QED
        BY <2>1, <2>2 DEF SetState
<1>15. CASE ToggleLock(t)
    BY <1>15 DEF ToggleLock
<1>16. CASE OffEnabled(t)
    BY <1>16 DEF OffEnabled, ToggleUnlock
<1>17. CASE OffRunning(t)
    BY <1>0, <1>17 DEF OffRunning
<1>18. CASE OffSet(t)
    BY <1>18 DEF OffSet, ToggleUnlock, SetState
<1>19. CASE OnRunning(t)
    BY <1>19 DEF OnRunning, ToggleUnlock
<1>20. CASE OnWho(t)
    BY <1>20 DEF OnWho, ToggleUnlock
<1>21. CASE OnSet(t)
    BY <1>21 DEF OnSet, ToggleUnlock, SetState
<1>22. CASE HealthCheck(t)
    BY <1>22 DEF HealthCheck, Test
<1>23. CASE FailoverCheck(t)
    BY <1>23 DEF FailoverCheck, Test
<1>24. CASE WriteWait(t)
    BY <1>24 DEF WriteWait
<1>25. CASE AddCycle(t)
    BY <1>25 DEF AddCycle, Writing
<1>26. CASE DeleteCycle(t)
    BY <1>26 DEF DeleteCycle, Writing
<1>27. CASE Fetch(t)
    BY <1>27 DEF Fetch
<1>28. CASE ResumeCycle(t) \/ HaltCycle(t)
    BY <1>28 DEF ResumeCycle, HaltCycle
<1> QED
    BY <1>1, <1>2, <1>3, <1>4, <1>5, <1>6, <1>7, <1>8, <1>9, <1>10, <1>11, <1>12, <1>13, <1>14, <1>15, <1>16, <1>17, <1>18, <1>19, <1>20, <1>21, <1>22, <1>23, <1>24, <1>25, <1>26, <1>27, <1>28 DEF Step

\* So for any step of the scheduler.
LEMMA ModeNext ==
    ASSUME TypeOK, CallInv, NoOverlap, ModeInv, [Next]_vars
    PROVE  ModeInv'
<1> USE DEF ModeInv, At, Called, Enabled, Running
<1>1. ASSUME NEW t \in Threads, Call(t) PROVE ModeInv'
    <2>1. thread'[t].call \in Calls /\ thread'[t].pc = Entry[thread'[t].call]
          /\ Others(t) /\ UNCHANGED state
        BY <1>1, NewCall DEF Others
    <2> QED
        BY <2>1, EntryOfCall
           DEF Others, Calls, Starts, Shutdowns, Offs, Ons, OnCycle, OnOne, Reports, state
<1>2. ASSUME NEW i \in Slots, Checkpoint(i) PROVE ModeInv'
    BY <1>2 DEF Checkpoint, Tick, CheckpointLock, CheckpointSave, state
<1>3. CASE UNCHANGED vars
    BY <1>3 DEF vars, state
<1> QED
    BY <1>1, <1>2, <1>3, ModeStep DEF Next

\* While calls do not overlap, what each read of the mode is still so when it acts.
LEMMA ModeIsAsRead == Spec /\ []NoOverlap => []ModeInv
<1>1. Init => ModeInv
    BY DEF Init, ModeInv, IdleThread, At, Called
<1>2. TypeOK /\ CallInv /\ NoOverlap /\ ModeInv /\ [Next]_vars => ModeInv'
    BY ModeNext
<1> QED
    BY <1>1, <1>2, TypeCorrect, CallsAreWhereTheyAre, PTL DEF Spec

\* One caller of all the calls that switch the scheduler is enough for that, however
\* many others edit its map or report on it: this is what SchedulerEditor checks.
THEOREM OneCallerIsEnough ==
    ASSUME NEW s, \A t \in Threads : CallsOf[t] \intersect Switches # {} => t = s
    PROVE  Spec => []NoOverlap
<1> DEFINE Own == \A t \in Threads : thread[t].call \in CallsOf[t] \union {"none"}
<1>1. Init => Own
    BY DEF Init, IdleThread
<1>2. TypeOK /\ Own /\ [Next]_vars => Own'
    <2> SUFFICES ASSUME TypeOK, Own, [Next]_vars PROVE Own'
        OBVIOUS
    <2>1. ASSUME NEW t \in Threads, Call(t) PROVE Own'
        <3>1. PICK call \in CallsOf[t], c \in Cycles \union {NoCycle} :
                  thread' = [thread EXCEPT ![t] = [IdleThread EXCEPT
                                !.call = call, !.pc = Entry[call], !.cycle = c]]
            BY <2>1 DEF Call
        <3>2. thread'[t].call = call
            BY <3>1 DEF TypeOK, IdleThread
        <3> QED
            BY <2>1, <3>2, NewCall
    <2>2. ASSUME NEW t \in Threads, Step(t) PROVE Own'
        BY <2>2, StepKeepsCall DEF Others, IdleThread
    <2>3. ASSUME NEW i \in Slots, Checkpoint(i) PROVE Own'
        BY <2>3 DEF Checkpoint, Tick, CheckpointLock, CheckpointSave
    <2>4. CASE UNCHANGED vars
        BY <2>4 DEF vars
    <2> QED
        BY <2>1, <2>2, <2>3, <2>4 DEF Next
<1>3. Own => NoOverlap
    BY DEF NoOverlap, Called, Switches, Starts, Shutdowns, Offs, Ons
<1> QED
    BY <1>1, <1>2, <1>3, TypeCorrect, PTL DEF Spec

-----------------------------------------------------------------------------
(* The abstract mode. *)


\* Whose toggle is being handled changes only with the lock.
LEMMA OwnerStays ==
    ASSUME TypeOK, CallInv, CallInv', UNCHANGED toggler, NEW t \in Threads, Others(t),
           \/ thread'[t].call = thread[t].call
           \/ thread'[t].call = "none" \/ thread[t].call = "none"
    PROVE  UNCHANGED ToggleOwner
<1>1. CASE toggler = t
    BY <1>1 DEF CallInv, Called, ToggleOwner, Offs, Ons
<1>2. CASE toggler # t
    BY <1>2 DEF TypeOK, Others, Called, ToggleOwner
<1> QED
    BY <1>1, <1>2

\* The handler of a toggle takes the lock for its owner, and releases it once it
\* has done what it does to the mode.
LEMMA OwnerMoves ==
    ASSUME TypeOK, CallInv, NEW t \in Threads, Others(t)
    PROVE  /\ toggler = NoThread /\ toggler' = t /\ thread'[t].call = thread[t].call =>
                 ToggleOwner = "nobody"
                 /\ ToggleOwner' = IF Called(t, {"autoOff", "autoOn"}) THEN "cluster" ELSE "operator"
           /\ toggler = t /\ toggler' = NoThread =>
                 ToggleOwner' = "nobody"
                 /\ ToggleOwner = IF Called(t, {"autoOff", "autoOn"}) THEN "cluster" ELSE "operator"
BY OwnersAssumption DEF ToggleOwner, Called

\* Which thread handles a toggle, from its lock on.
LEMMA HandlerHolds ==
    ASSUME CallInv, NEW t \in Threads
    PROVE  /\ thread[t].pc \in {"offEnabled", "offRunning", "offSet"} =>
                 toggler = t /\ Called(t, Offs)
           /\ thread[t].pc \in {"onRunning", "onWho", "onSet"} =>
                 toggler = t /\ Called(t, Ons)
BY DEF CallInv, At, Called

\* A step of a call is a move that Lifecycle allows, or none.
LEMMA LifecycleStep ==
    ASSUME TypeOK, CallInv, CallInv', ModeInv, NEW t \in Threads, Step(t)
    PROVE  [ModeSpec!Next]_(ModeSpec!vars)
<1>0. Others(t) /\ (UNCHANGED toggler => UNCHANGED ToggleOwner)
    BY StepKeepsCall, OwnerStays DEF IdleThread
<1>1. CASE \/ StartLock(t) \/ StartEnabled(t) \/ StartRunning(t) \/ StartEach(t)
           \/ StartCheckpoint(t) \/ DownLock(t) \/ DownCheck(t) \/ DownEach(t)
           \/ DownHandler(t) \/ DownSend(t) \/ DownSave(t) \/ OffRunning(t)
           \/ HealthCheck(t) \/ FailoverCheck(t)
           \/ WriteWait(t) \/ AddCycle(t) \/ DeleteCycle(t)
           \/ Fetch(t) \/ ResumeCycle(t) \/ HaltCycle(t)
    <2>1. UNCHANGED <<state, toggler>>
        BY <1>1 DEF StartLock, StartEnabled, StartRunning, StartEach, StartCheckpoint, DownLock,
              DownCheck, DownEach, DownHandler, DownSend, DownSave, OffRunning, HealthCheck,
              FailoverCheck, Test, WriteWait, AddCycle, DeleteCycle, Writing, Fetch, ResumeCycle,
              HaltCycle, locks
    <2> QED
        BY <1>0, <2>1 DEF ModeSpec!vars, state
<1>2. CASE StartSet(t)
    <2>1. UNCHANGED toggler /\ At(t, "startSet") /\ SetState("running")
        BY <1>2 DEF StartSet, locks
    <2>2. ModeSpec!StartUp
        BY <1>0, <2>1 DEF ModeInv, At, SetState, ModeSpec!StartUp, ModeSpec!Move
    <2> QED
        BY <2>2 DEF ModeSpec!Next
<1>3. CASE DownSet(t)
    <2>1. UNCHANGED toggler /\ Running /\ SetState("stopped")
        BY <1>3 DEF DownSet, At, ModeInv, locks
    <2>2. ModeSpec!ShutDown
        BY <1>0, <2>1 DEF SetState, Running, ModeSpec!ShutDown, ModeSpec!Move
    <2> QED
        BY <2>2 DEF ModeSpec!Next
<1>4. CASE ToggleLock(t)
    <2>1. toggler = NoThread /\ toggler' = t /\ thread'[t].call = thread[t].call
        BY <1>4, GotoMoves DEF ToggleLock, Moves
    <2>2. PICK owner \in ModeSpec!Owners : ToggleOwner = "nobody" /\ ToggleOwner' = owner
        BY <1>0, <2>1, OwnerMoves DEF ModeSpec!Owners
    <2>3. ModeSpec!Take(owner)
        BY <1>4, <2>2 DEF ToggleLock, state, ModeSpec!Take
    <2> QED
        BY <2>3 DEF ModeSpec!Next
\* The handler ends: without effect, or with the one its toggle may have.
<1>5. ASSUME toggler = t, toggler' = NoThread, NEW owner \in ModeSpec!Owners,
             owner = IF Called(t, {"autoOff", "autoOn"}) THEN "cluster" ELSE "operator",
             \/ ModeSpec!Move("stopped", ModeSpec!Off(owner))
             \/ ModeSpec!Move(ModeSpec!Off(owner), "stopped")
             \/ UNCHANGED state
      PROVE  [ModeSpec!Next]_(ModeSpec!vars)
    <2>1. ToggleOwner = owner /\ ToggleOwner' = "nobody"
        BY <1>0, <1>5, OwnerMoves
    <2>2. ModeSpec!Apply(owner)
        BY <1>5, <2>1 DEF ModeSpec!Apply, state
    <2> QED
        BY <2>2 DEF ModeSpec!Next
<1>6. PICK owner \in ModeSpec!Owners :
          owner = IF Called(t, {"autoOff", "autoOn"}) THEN "cluster" ELSE "operator"
    BY DEF ModeSpec!Owners
<1>7. CASE DownError(t)
    <2>1. CASE toggler = t
        BY <1>5, <1>6, <1>7, <2>1 DEF DownError
    <2>2. CASE toggler # t
        BY <1>0, <1>7, <2>2 DEF DownError, ModeSpec!vars, state
    <2> QED
        BY <2>1, <2>2
<1>8. CASE OffEnabled(t) \/ OnRunning(t) \/ OnWho(t)
    <2>1. toggler = t /\ UNCHANGED state
        BY <1>8, HandlerHolds DEF OffEnabled, OnRunning, OnWho, At
    <2>2. toggler' = NoThread \/ UNCHANGED toggler
        BY <1>8 DEF OffEnabled, OnRunning, OnWho, ToggleUnlock
    <2> QED
        BY <1>0, <1>5, <1>6, <2>1, <2>2 DEF ModeSpec!vars, state
<1>9. CASE OffSet(t)
    <2>1. toggler = t /\ toggler' = NoThread /\ cur = "stopped"
        BY <1>9, HandlerHolds DEF OffSet, ToggleUnlock, ModeInv, At
    <2>2. Called(t, Offs)
        BY <1>9, HandlerHolds DEF OffSet, At
    <2>3. ModeSpec!Move("stopped", ModeSpec!Off(owner))
        BY <1>6, <1>9, <2>1, <2>2
           DEF OffSet, SetState, Called, Offs, ModeSpec!Move, ModeSpec!Off
    <2> QED
        BY <1>5, <1>6, <2>1, <2>3
<1>10. CASE OnSet(t)
    <2>1. /\ toggler = t /\ toggler' = NoThread /\ ~Running /\ Called(t, Ons)
          /\ (cur = "autoDisabled") = Called(t, {"autoOn"}) /\ SetState("stopped")
        BY <1>10, HandlerHolds DEF OnSet, ToggleUnlock, ModeInv, At, Running
    <2>2. cur \in {"stopped", ModeSpec!Off(owner)}
        BY <1>6, <2>1 DEF TypeOK, Modes, ModeInv, Running, Called, Ons, ModeSpec!Off
    <2>3. UNCHANGED state \/ ModeSpec!Move(ModeSpec!Off(owner), "stopped")
        BY <2>1, <2>2 DEF SetState, ModeSpec!Move
    <2> QED
        BY <1>5, <1>6, <2>1, <2>3
<1> QED
    BY <1>1, <1>2, <1>3, <1>4, <1>7, <1>8, <1>9, <1>10 DEF Step

\* Whatever Start, Shutdown, the handlers and the health checks do in their many
\* steps is what the abstract mode does in one, as long as no two of them overlap:
\* who disabled the scheduler enables it, and it runs only from stopped.
THEOREM ModeImplemented == Spec /\ []NoOverlap => Lifecycle
<1>1. Init => ModeSpec!Init
    BY OwnersAssumption DEF Init, ToggleOwner, ModeSpec!Init
<1>2. TypeOK /\ CallInv /\ CallInv' /\ ModeInv /\ [Next]_vars => [ModeSpec!Next]_(ModeSpec!vars)
    <2> SUFFICES ASSUME TypeOK, CallInv, CallInv', ModeInv, [Next]_vars
                 PROVE  [ModeSpec!Next]_(ModeSpec!vars)
        OBVIOUS
    <2>1. ASSUME NEW t \in Threads, Call(t) PROVE UNCHANGED ModeSpec!vars
        <3>1. Others(t) /\ At(t, "idle") /\ UNCHANGED <<state, toggler>>
            BY <2>1, NewCall DEF Others, locks
        <3>2. UNCHANGED ToggleOwner
            BY <3>1, OwnerStays DEF CallInv, At, Called
        <3> QED
            BY <3>1, <3>2 DEF ModeSpec!vars, state
    <2>2. ASSUME NEW i \in Slots, Checkpoint(i) PROVE UNCHANGED ModeSpec!vars
        BY <2>2 DEF Checkpoint, Tick, CheckpointLock, CheckpointSave, locks, state,
              ModeSpec!vars, ToggleOwner, Called
    <2>3. CASE UNCHANGED vars
        BY <2>3 DEF vars, locks, state, ModeSpec!vars, ToggleOwner, Called
    <2> QED
        BY <2>1, <2>2, <2>3, LifecycleStep DEF Next
<1> QED
    BY <1>1, <1>2, TypeCorrect, CallsAreWhereTheyAre, ModeIsAsRead, PTL
       DEF Spec, Lifecycle, ModeSpec!Spec

-----------------------------------------------------------------------------
(* What toggles and health checks promise when no calls overlap. *)

\* The steps at which a toggle's lock is let go.
LEMMA TogglerStep ==
    ASSUME TypeOK, CallInv, NEW t \in Threads, Step(t), toggler # NoThread, toggler' # toggler
    PROVE  /\ toggler = t
           /\ DownError(t) \/ OffEnabled(t) \/ OffSet(t) \/ OnRunning(t) \/ OnWho(t) \/ OnSet(t)
<1>1. \/ DownError(t) \/ OffEnabled(t) \/ OffSet(t) \/ OnRunning(t) \/ OnWho(t) \/ OnSet(t)
      \/ ToggleLock(t)
    BY DEF Step, StartLock, StartEnabled, StartRunning, StartSet, StartEach, StartCheckpoint,
           DownLock, DownCheck, DownEach, DownSet, DownHandler, DownSend, DownSave, OffRunning,
           HealthCheck, FailoverCheck, Test, WriteWait, AddCycle, DeleteCycle, Writing, Fetch,
           ResumeCycle, HaltCycle, locks
<1>2. ~ToggleLock(t)
    BY DEF ToggleLock
<1>3. CASE DownError(t)
    BY <1>3 DEF DownError
<1>4. CASE OffEnabled(t) \/ OffSet(t) \/ OnRunning(t) \/ OnWho(t) \/ OnSet(t)
    BY <1>4, HandlerHolds DEF OffEnabled, OffSet, OnRunning, OnWho, OnSet, At
<1> QED
    BY <1>1, <1>2, <1>3, <1>4

\* When the handler of a toggle that is off is over the scheduler is disabled: the
\* Shutdown it makes finds it running, as the handler did.
THEOREM OffAlwaysDisables == Spec /\ []NoOverlap => OffDisables
<1>1. ASSUME TypeOK, CallInv, ModeInv, [Next]_vars, NEW t \in Threads,
             Called(t, Offs), toggler = t, toggler' # t
      PROVE  cur' \in {"disabled", "autoDisabled"}
    <2>1. PICK u \in Threads : Step(u)
        BY <1>1 DEF Next, Call, Checkpoint, Tick, CheckpointLock, CheckpointSave, vars, locks
    <2>2. u = t /\ (DownError(t) \/ OffEnabled(t) \/ OffSet(t) \/ OnRunning(t) \/ OnWho(t) \/ OnSet(t))
        BY <1>1, <2>1, TogglerStep, OwnersAssumption
    <2>3. CASE DownError(t)
        BY <1>1, <2>3 DEF DownError, ModeInv, At
    <2>4. CASE OffEnabled(t)
        BY <1>1, <2>4 DEF OffEnabled, Enabled, state
    <2>5. CASE OffSet(t)
        BY <2>5 DEF OffSet, SetState, state
    <2>6. CASE OnRunning(t) \/ OnWho(t) \/ OnSet(t)
        BY <1>1, <2>6, HandlerHolds DEF OnRunning, OnWho, OnSet, At, Called, Offs, Ons
    <2> QED
        BY <2>2, <2>3, <2>4, <2>5, <2>6
<1>2. TypeOK /\ CallInv /\ ModeInv /\ [Next]_vars =>
        \A t \in Threads : Called(t, Offs) /\ toggler = t /\ toggler' # t =>
            cur' \in {"disabled", "autoDisabled"}
    BY <1>1
<1> QED
    BY <1>2, TypeCorrect, CallsAreWhereTheyAre, ModeIsAsRead, PTL DEF Spec, OffDisables

\* The scheduler begins to run in one step only, from stopped.
LEMMA RunningFrom ==
    ASSUME CallInv, ModeInv, [Next]_vars, cur # "running", cur' = "running"
    PROVE  \E t \in Threads : StartSet(t) /\ cur = "stopped" /\ At(t, "startSet")
<1>1. PICK t \in Threads : Step(t)
    BY DEF Next, Call, Checkpoint, Tick, CheckpointLock, CheckpointSave, vars, state
<1>2. StartSet(t)
    BY <1>1 DEF Step, StartLock, StartEnabled, StartRunning, StartEach, StartCheckpoint, DownLock,
        DownCheck, DownError, DownEach, DownSet, DownHandler, DownSend, DownSave, ToggleLock,
        OffEnabled, OffRunning, OffSet, OnRunning, OnWho, OnSet, HealthCheck, FailoverCheck,
        Test, WriteWait, AddCycle, DeleteCycle, Writing, Fetch, ResumeCycle, HaltCycle, SetState, state
<1> QED
    BY <1>2 DEF StartSet, ModeInv, At

\* After a failback only the operator starts the scheduler: what a health check
\* read of the previous state is still so when it starts it.
THEOREM FailbackStaysStopped == Spec /\ []NoOverlap => NoRestartAfterFailback
<1>1. ASSUME CallInv, ModeInv, [Next]_vars, cur = "stopped", prev = "autoDisabled", cur' = "running"
      PROVE  \E t \in Threads : At(t, "startSet") /\ Called(t, {"start"})
    <2>1. PICK t \in Threads : At(t, "startSet")
        BY <1>1, RunningFrom
    <2>2. Called(t, Starts) /\ ~Called(t, {"healthy"})
        BY <1>1, <2>1 DEF CallInv, ModeInv, At, Starting
    <2> QED
        BY <2>1, <2>2 DEF Called, Starts
<1>2. CallInv /\ ModeInv /\ [Next]_vars =>
        (cur = "stopped" /\ prev = "autoDisabled" /\ cur' = "running" =>
            \E t \in Threads : At(t, "startSet") /\ Called(t, {"start"}))
    BY <1>1
<1> QED
    BY <1>2, CallsAreWhereTheyAre, ModeIsAsRead, PTL DEF Spec, NoRestartAfterFailback

-----------------------------------------------------------------------------
(* Cycles and the checkpoint goroutine, when no calls overlap. *)

\* What runs, and what the API is about to resume, is a cycle that was made: one that
\* is being added does not run yet.
Made ==
    /\ active \subseteq created
    /\ \A t \in Threads : At(t, "found") => thread[t].cycle \in created

LEMMA MadeNext ==
    ASSUME TypeOK, CallInv, ReadLockInv, Made, [Next]_vars
    PROVE  Made'
<1>0. map \subseteq created
    BY DEF TypeOK
<1> USE <1>0 DEF Made, At
<1>1. ASSUME NEW t \in Threads, Fetch(t) PROVE Made'
    <2>1. UNCHANGED <<active, created>> /\ (thread[t].cycle \in map \/ Ends(t))
        BY <1>1, DoneEnds DEF Fetch, cycles, goroutines
    <2>2. Others(t) /\ (thread'[t].pc = "found" => thread'[t].cycle = thread[t].cycle)
        BY <1>1, StepKeepsCall DEF Fetch, Goto, Done, TypeOK, IdleThread, Step
    <2> QED
        BY <2>1, <2>2 DEF Ends, Others, IdleThread
<1>2. ASSUME NEW t \in Threads, StartEach(t) PROVE Made'
    <2>1. active' \subseteq active \union thread[t].todo /\ UNCHANGED created
        BY <1>2 DEF StartEach, StartCycle, goroutines
    <2>2. Others(t) /\ thread'[t].pc \in {"startEach", "startCheckpoint"}
        BY <1>2, GotoMoves, WalkOn DEF StartEach, Moves
    <2> QED
        BY <2>1, <2>2 DEF Others, ReadLockInv
<1>3. ASSUME NEW t \in Threads, AddCycle(t) \/ DeleteCycle(t) \/ ResumeCycle(t) \/ HaltCycle(t)
      PROVE  Made'
    <2>1. Ends(t)
        BY <1>3, DoneEnds DEF AddCycle, DeleteCycle, Writing, ResumeCycle, HaltCycle
    <2>2. active' \subseteq created' /\ created \subseteq created'
        BY <1>3 DEF AddCycle, DeleteCycle, ResumeCycle, HaltCycle, StartCycle, StopCycle, cycles,
              goroutines
    <2> QED
        BY <2>1, <2>2 DEF Ends, Others, IdleThread
<1>4. ASSUME NEW t \in Threads, Step(t),
             ~(Fetch(t) \/ StartEach(t) \/ AddCycle(t) \/ DeleteCycle(t) \/ ResumeCycle(t) \/ HaltCycle(t))
      PROVE  Made'
    <2>1. active' \subseteq active /\ UNCHANGED created
        BY <1>4 DEF Step, StartLock, StartEnabled, StartRunning, StartSet, StartCheckpoint, DownLock,
              DownCheck, DownError, DownEach, DownSet, DownHandler, DownSend, DownSave, ToggleLock,
              OffEnabled, OffRunning, OffSet, OnRunning, OnWho, OnSet, HealthCheck, FailoverCheck,
              Test, WriteWait, StopCycle, cycles, goroutines
    <2>2. Others(t) /\ (thread'[t].call = thread[t].call \/ thread'[t] = IdleThread)
        BY <1>4, StepKeepsCall
    <2>3. thread[t].pc \notin {"fetch", "found"}
        BY <1>4 DEF Step, StartLock, StartEnabled, StartRunning, StartSet, StartCheckpoint, DownLock,
              DownCheck, DownError, DownEach, DownSet, DownHandler, DownSend, DownSave, ToggleLock,
              OffEnabled, OffRunning, OffSet, OnRunning, OnWho, OnSet, HealthCheck, FailoverCheck,
              Test, WriteWait
    <2>4. thread'[t].pc # "found"
        <3>1. thread[t].call \notin OnOne
            <4>1. thread[t].pc # "idle"
                BY <1>4 DEF Step, StartLock, StartEnabled, StartRunning, StartSet, StartCheckpoint,
                      DownLock, DownCheck, DownError, DownEach, DownSet, DownHandler, DownSend,
                      DownSave, ToggleLock, OffEnabled, OffRunning, OffSet, OnRunning, OnWho, OnSet,
                      HealthCheck, FailoverCheck, Test, WriteWait
            <4> QED
                BY <2>3, <4>1 DEF TypeOK, PC, CallInv, Called, Starting, Stopping, Starts, Shutdowns,
                      Offs, Ons, OnCycle, OnOne, Reports
        <3>2. CallInv'
            BY <1>4, CallStep
        <3> QED
            BY <2>2, <3>1, <3>2 DEF CallInv, Called, IdleThread
    <2> QED
        BY <2>1, <2>2, <2>4 DEF Others
<1>5. ASSUME NEW t \in Threads, Call(t) PROVE Made'
    <2>1. /\ thread'[t].call \in Calls /\ thread'[t].pc = Entry[thread'[t].call]
          /\ Others(t) /\ UNCHANGED <<active, created>>
        BY <1>5, NewCall DEF Others, cycles, goroutines
    <2> QED
        BY <2>1, EntryOfCall DEF Others, Calls, Starts, Shutdowns, Reports
<1>6. ASSUME NEW i \in Slots, Checkpoint(i) PROVE Made'
    BY <1>6 DEF Checkpoint, Tick, CheckpointLock, CheckpointSave, cycles, goroutines
<1>7. CASE UNCHANGED vars
    BY <1>7 DEF vars, cycles, goroutines
<1> QED
    BY <1>1, <1>2, <1>3, <1>4, <1>5, <1>6, <1>7 DEF Next

\* So in every state, whatever overlaps.
LEMMA OnlyMadeRun == Spec => []Made
<1>1. Init => Made
    BY DEF Init, Made, IdleThread, At
<1> QED
    BY <1>1, MadeNext, TypeCorrect, CallsAreWhereTheyAre, ReadLockHolds, PTL DEF Spec

\* A call that begins or ends outside a change of the running goroutines, and
\* touches none of them.
LEMMA NothingRunsOrStops ==
    ASSUME TypeOK, RunInv, NEW t \in Threads, Others(t),
           thread[t].pc \notin Changing, thread'[t].pc \notin Changing,
           UNCHANGED <<cur, map, goroutines, ckpt>>
    PROVE  RunInv'
<1>1. \A u \in Threads : thread'[u].pc \in Changing => u # t /\ thread'[u] = thread[u]
    BY DEF Others
<1>2. Alive' = Alive
    BY DEF Alive
<1>3. OneAlive' = OneAlive
    BY <1>2 DEF OneAlive
<1>4. (\A u \in Threads : thread'[u].pc \notin Changing) =>
        (\A u \in Threads : thread[u].pc \notin Changing)
    BY DEF Others
<1> QED
    BY <1>1, <1>2, <1>3, <1>4 DEF RunInv, Running, At, Changing, Started, goroutines

\* A call that switches the scheduler changes them alone.
LEMMA RunOfOne ==
    ASSUME TypeOK, CallInv, NoOverlap, NEW t \in Threads, Others(t),
           thread[t].pc \notin Aside, orphans' \subseteq resumed',
           thread'[t].pc \notin Changing =>
               IF Running' THEN Started(map)' /\ OneAlive'
                           ELSE active' \subseteq resumed' /\ Alive' = {},
           At(t, "startEach")' => Started(map \ thread[t].todo)' /\ Alive' = {},
           At(t, "startCheckpoint")' => Started(map)' /\ Alive' = {},
           At(t, "downEach")' => active' \subseteq thread'[t].todo \union resumed' /\ OneAlive',
           thread'[t].pc \in {"downSet", "downHandler", "downSend"} =>
               active' \subseteq resumed' /\ OneAlive',
           At(t, "downSave")' => active' \subseteq resumed' /\ Alive' = {}
    PROVE  RunInv'
<1>1. \A u \in Threads \ {t} : thread'[u].pc \in Aside
    BY Alone DEF Others
<1> QED
    BY <1>1 DEF RunInv, At, Aside

\* What runs when a call that switches the scheduler is not changing it.
LEMMA SettledWhen ==
    ASSUME TypeOK, CallInv, NoOverlap, RunInv, NEW t \in Threads,
           thread[t].pc \notin Aside, thread[t].pc \notin Changing
    PROVE  IF Running THEN Started(map) /\ OneAlive ELSE active \subseteq resumed /\ Alive = {}
<1>1. \A u \in Threads : thread[u].pc \notin Changing
    BY Alone DEF Aside, Changing
<1> QED
    BY <1>1 DEF RunInv

\* The edits of the map find nobody who changes what runs, and keep it so.
LEMMA EditRun ==
    ASSUME TypeOK, CallInv, ReadLockInv, Made, RunInv, NEW t \in Threads,
           AddCycle(t) \/ DeleteCycle(t)
    PROVE  RunInv'
<1>1. /\ readers = {} /\ Ends(t) /\ UNCHANGED <<cur, ckpt>> /\ thread[t].cycle \in Cycles
    BY DoneEnds DEF AddCycle, DeleteCycle, Writing, state, TypeOK, Called, OnCycle
<1>2. \A u \in Threads : thread[u].pc \notin Changing
    BY <1>1 DEF ReadLockInv, Reading, Changing
<1>3. \A u \in Threads : thread'[u].pc \notin Changing
    BY <1>1, <1>2 DEF Ends, Others, IdleThread, Changing
<1>4. Alive' = Alive /\ OneAlive' = OneAlive
    BY <1>1 DEF Alive, OneAlive
<1>5. orphans \subseteq resumed
      /\ IF Running THEN Started(map) /\ OneAlive ELSE active \subseteq resumed /\ Alive = {}
    BY <1>2 DEF RunInv
<1>6. orphans' \subseteq resumed' /\ IF Running THEN Started(map)' ELSE active' \subseteq resumed'
    <2>1. CASE AddCycle(t)
        BY <1>5, <2>1 DEF AddCycle, StartCycle, Made, Started, cycles, goroutines
    <2>2. CASE DeleteCycle(t)
        BY <1>5, <2>2 DEF DeleteCycle, StopCycle, Started, cycles, goroutines
    <2> QED
        BY <2>1, <2>2
<1> QED
    BY <1>1, <1>3, <1>4, <1>5, <1>6 DEF RunInv, Running, At, Changing

\* The API's calls on one cycle come at any time, and account for what they change.
LEMMA ApiRun ==
    ASSUME TypeOK, ModeInv, RunInv, NEW t \in Threads, ResumeCycle(t) \/ HaltCycle(t)
    PROVE  RunInv'
<1>1. /\ Ends(t) /\ At(t, "found") /\ UNCHANGED <<cur, map, ckpt>>
    BY DoneEnds DEF ResumeCycle, HaltCycle, state
<1>2. \A u \in Threads : thread'[u].pc \in Changing => thread'[u] = thread[u]
    BY <1>1 DEF Ends, Others, IdleThread, Changing
<1>3. Alive' = Alive /\ OneAlive' = OneAlive
    BY <1>1 DEF Alive, OneAlive
<1>4. orphans' \subseteq resumed'
    BY DEF RunInv, ResumeCycle, HaltCycle, StartCycle, StopCycle
<1>5. ASSUME NEW S, active \subseteq S \union resumed PROVE active' \subseteq S \union resumed'
    BY <1>5 DEF ResumeCycle, HaltCycle, StartCycle, StopCycle
<1>6. ASSUME NEW S, Running, Started(S)
      PROVE  S \subseteq active' \union halted' /\ active' \subseteq S \union resumed'
    BY <1>6 DEF Started, ResumeCycle, HaltCycle, StartCycle, StopCycle
<1>7. (\A u \in Threads : thread'[u].pc \notin Changing) =>
        (\A u \in Threads : thread[u].pc \notin Changing)
    BY <1>1 DEF Ends, Others, At, Changing
<1>8. (\A u \in Threads : thread'[u].pc \notin Changing) =>
        IF Running' THEN Started(map)' /\ OneAlive' ELSE active' \subseteq resumed' /\ Alive' = {}
    <2>1. CASE Running
        BY <1>1, <1>3, <1>6, <1>7, <2>1 DEF RunInv, Running, Started
    <2>2. CASE ~Running
        <3>1. ASSUME active \subseteq resumed PROVE active' \subseteq resumed'
            BY <3>1, <1>5
        <3> QED
            BY <1>1, <1>3, <1>7, <2>2, <3>1 DEF RunInv, Running
    <2> QED
        BY <2>1, <2>2
<1>9. ASSUME NEW u \in Threads, thread'[u].pc \in Changing
      PROVE  /\ At(u, "startEach")' => Started(map \ thread[u].todo)' /\ Alive' = {}
             /\ At(u, "startCheckpoint")' => Started(map)' /\ Alive' = {}
             /\ At(u, "downEach")' => active' \subseteq thread'[u].todo \union resumed' /\ OneAlive'
             /\ thread'[u].pc \in {"downSet", "downHandler", "downSend"} =>
                    active' \subseteq resumed' /\ OneAlive'
             /\ At(u, "downSave")' => active' \subseteq resumed' /\ Alive' = {}
    <2>1. thread'[u] = thread[u]
        BY <1>2, <1>9
    <2>2. thread[u].pc \in {"startEach", "startCheckpoint"} => Running
        BY DEF ModeInv
    <2>3. ASSUME At(u, "startEach") PROVE Started(map \ thread[u].todo)' /\ Alive' = {}
        <3>1. Started(map \ thread[u].todo) /\ Alive = {} /\ Running
            BY <2>2, <2>3 DEF RunInv, At
        <3> QED
            BY <1>1, <1>3, <1>6, <2>1, <3>1 DEF Started
    <2>4. ASSUME At(u, "startCheckpoint") PROVE Started(map)' /\ Alive' = {}
        <3>1. Started(map) /\ Alive = {} /\ Running
            BY <2>2, <2>4 DEF RunInv, At
        <3> QED
            BY <1>1, <1>3, <1>6, <3>1 DEF Started
    <2>5. ASSUME At(u, "downEach")
          PROVE  active' \subseteq thread'[u].todo \union resumed' /\ OneAlive'
        <3>1. active \subseteq thread[u].todo \union resumed /\ OneAlive
            BY <2>5 DEF RunInv
        <3> QED
            BY <1>3, <1>5, <2>1, <3>1
    <2>6. ASSUME active \subseteq resumed PROVE active' \subseteq resumed'
        BY <2>6, <1>5
    <2> QED
        BY <1>3, <2>1, <2>3, <2>4, <2>5, <2>6 DEF RunInv, At
<1> QED
    BY <1>4, <1>8, <1>9 DEF RunInv, At, Changing

\* A step of a call starts and stops the cycles, and the checkpoint goroutine, as
\* the mode it brings about requires.
LEMMA RunStep ==
    ASSUME TypeOK, CallInv, NoOverlap, ReadLockInv, Made, ModeInv, RunInv, NEW t \in Threads, Step(t)
    PROVE  RunInv'
<1>0. Others(t) /\ orphans \subseteq resumed
    BY StepKeepsCall DEF RunInv
<1>1. CASE \/ StartLock(t) \/ StartEnabled(t) \/ StartRunning(t) \/ DownLock(t) \/ DownError(t)
           \/ ToggleLock(t) \/ OffEnabled(t) \/ OffRunning(t) \/ OnRunning(t) \/ OnWho(t)
           \/ HealthCheck(t) \/ FailoverCheck(t) \/ WriteWait(t) \/ Fetch(t)
    <2>1. UNCHANGED <<cur, map, goroutines, ckpt>>
        BY <1>1 DEF StartLock, StartEnabled, StartRunning, DownLock, DownError, ToggleLock, OffEnabled,
              OffRunning, OnRunning, OnWho, HealthCheck, FailoverCheck, Test, WriteWait, Fetch, state,
              cycles
    <2>2. thread[t].pc \notin Changing
        BY <1>1 DEF StartLock, StartEnabled, StartRunning, DownLock, DownError, ToggleLock, OffEnabled,
              OffRunning, OnRunning, OnWho, HealthCheck, FailoverCheck, Test, WriteWait, Fetch, At,
              Changing
    <2>3. thread'[t].pc \notin Changing
        BY <1>1, GotoMoves, DoneEnds
           DEF StartLock, StartEnabled, StartRunning, DownLock, DownError, ToggleLock, OffEnabled,
              OffRunning, OnRunning, OnWho, HealthCheck, FailoverCheck, Test, WriteWait, Fetch,
              ToggleUnlock, Moves, Ends, IdleThread, Changing
    <2> QED
        BY <1>0, <2>1, <2>2, <2>3, NothingRunsOrStops
<1>2. CASE OffSet(t) \/ OnSet(t)
    <2>1. /\ thread[t].pc \in {"offSet", "onSet"} /\ ~Running /\ cur' # "running"
          /\ UNCHANGED <<map, goroutines, ckpt>> /\ Ends(t)
        BY <1>2, DoneEnds DEF OffSet, OnSet, SetState, ToggleUnlock, At, ModeInv, Running, state, cycles
    <2>2. active \subseteq resumed /\ Alive = {}
        BY <2>1, SettledWhen DEF Aside, Changing
    <2>3. Alive' = {}
        BY <2>1, <2>2 DEF Alive
    <2>4. active' \subseteq resumed' /\ orphans' \subseteq resumed' /\ ~Running'
          /\ thread'[t].pc = "idle"
        BY <1>0, <2>1, <2>2 DEF Running, Ends, IdleThread, goroutines
    <2> QED
        BY <1>0, <2>1, <2>3, <2>4, RunOfOne DEF At, Aside
<1>3. CASE StartSet(t)
    <2>1. At(t, "startSet") /\ cur = "stopped" /\ UNCHANGED <<map, goroutines, ckpt>>
        BY <1>3 DEF StartSet, At, ModeInv, cycles
    <2>2. active \subseteq resumed /\ Alive = {}
        BY <2>1, SettledWhen DEF At, Aside, Changing, Running
    <2>3. Alive' = {}
        BY <2>1, <2>2 DEF Alive
    <2>4. thread'[t].pc = "startEach" /\ thread'[t].todo = map
        BY <1>3, WalkSteps DEF Moves
    <2>5. Started(map \ thread[t].todo)'
        BY <2>1, <2>2, <2>4 DEF Started, goroutines
    <2>6. orphans' \subseteq resumed'
        BY <1>0, <2>1 DEF goroutines
    <2> QED
        BY <1>0, <2>1, <2>3, <2>4, <2>5, <2>6, RunOfOne DEF At, Aside, Changing
<1>4. CASE StartEach(t)
    <2>1. /\ At(t, "startEach") /\ UNCHANGED <<map, ckpt>> /\ thread[t].todo \subseteq map
          /\ Started(map \ thread[t].todo) /\ Alive = {}
        BY <1>4 DEF StartEach, RunInv, ReadLockInv
    <2>2. Alive' = {}
        BY <2>1 DEF Alive
    <2>3. ASSUME NEW c \in thread[t].todo, StartCycle(c), UNCHANGED resumed,
                 thread' = [thread EXCEPT ![t].todo = @ \ {c}]
          PROVE  RunInv'
        <3>1. thread'[t].pc = "startEach" /\ thread'[t].todo = thread[t].todo \ {c}
            BY <2>1, <2>3, WalkOn DEF Moves, At
        <3>2. Started(map \ thread[t].todo)'
            BY <2>1, <2>3, <3>1 DEF StartCycle, Started
        \* A cycle that runs before its turn has been resumed.
        <3>3. orphans' \subseteq resumed'
            BY <1>0, <2>1, <2>3 DEF StartCycle, Started
        <3> QED
            BY <1>0, <2>1, <2>2, <3>1, <3>2, <3>3, RunOfOne DEF At, Aside, Changing
    <2>4. ASSUME thread[t].todo = {}, Goto(t, "startCheckpoint"), UNCHANGED goroutines
          PROVE  RunInv'
        <3>1. thread'[t].pc = "startCheckpoint"
            BY <2>4, GotoMoves DEF Moves
        <3>2. Started(map)' /\ orphans' \subseteq resumed'
            BY <1>0, <2>1, <2>4 DEF Started, goroutines
        <3> QED
            BY <1>0, <2>1, <2>2, <3>1, <3>2, RunOfOne DEF At, Aside, Changing
    <2> QED
        BY <1>4, <2>3, <2>4 DEF StartEach
<1>5. CASE StartCheckpoint(t)
    <2>1. /\ At(t, "startCheckpoint") /\ UNCHANGED <<cur, map, goroutines>> /\ Ends(t)
          /\ Started(map) /\ Alive = {} /\ Running
        BY <1>5, DoneEnds DEF StartCheckpoint, RunInv, ModeInv, At, state, cycles
    <2>2. FreeSlot \in Slots /\ ckpt' = [ckpt EXCEPT ![FreeSlot] = "select"]
        BY <1>5 DEF StartCheckpoint, FreeSlot
    <2>3. Alive' = {FreeSlot}
        BY <2>1, <2>2 DEF Alive, TypeOK
    <2>4. OneAlive' /\ Running' /\ thread'[t].pc = "idle"
        BY <2>1, <2>2, <2>3 DEF OneAlive, Running, Ends, IdleThread
    <2>5. Started(map)' /\ orphans' \subseteq resumed'
        BY <1>0, <2>1 DEF Started, goroutines
    <2> QED
        BY <1>0, <2>1, <2>4, <2>5, RunOfOne DEF At, Aside
<1>6. CASE DownCheck(t)
    <2>1. At(t, "downCheck") /\ Running /\ UNCHANGED <<map, goroutines, ckpt>>
        BY <1>6 DEF DownCheck, cycles
    <2>2. Started(map) /\ OneAlive
        BY <2>1, SettledWhen DEF At, Aside, Changing
    <2>3. OneAlive'
        BY <2>1, <2>2 DEF OneAlive, Alive
    <2>4. thread'[t].pc = "downEach" /\ thread'[t].todo = map
        BY <1>6, WalkSteps DEF Moves
    <2>5. active' \subseteq thread'[t].todo \union resumed' /\ orphans' \subseteq resumed'
        BY <1>0, <2>1, <2>2, <2>4 DEF Started, goroutines
    <2> QED
        BY <1>0, <2>1, <2>3, <2>4, <2>5, RunOfOne DEF At, Aside, Changing
<1>7. CASE DownEach(t)
    <2>1. /\ At(t, "downEach") /\ UNCHANGED <<ckpt>>
          /\ active \subseteq thread[t].todo \union resumed /\ OneAlive
        BY <1>7 DEF DownEach, RunInv
    <2>2. OneAlive'
        BY <2>1 DEF OneAlive, Alive
    <2>3. ASSUME NEW c \in thread[t].todo, StopCycle(c),
                 thread' = [thread EXCEPT ![t].todo = @ \ {c}]
          PROVE  RunInv'
        <3>1. thread'[t].pc = "downEach" /\ thread'[t].todo = thread[t].todo \ {c}
            BY <2>1, <2>3, WalkOn DEF Moves, At
        <3>2. active' \subseteq thread'[t].todo \union resumed' /\ orphans' \subseteq resumed'
            BY <1>0, <2>1, <2>3, <3>1 DEF StopCycle
        <3> QED
            BY <1>0, <2>1, <2>2, <3>1, <3>2, RunOfOne DEF At, Aside, Changing
    <2>4. ASSUME thread[t].todo = {}, Goto(t, "downSet"), UNCHANGED goroutines
          PROVE  RunInv'
        <3>1. thread'[t].pc = "downSet"
            BY <2>4, GotoMoves DEF Moves
        <3>2. active' \subseteq resumed' /\ orphans' \subseteq resumed'
            BY <1>0, <2>1, <2>4 DEF goroutines
        <3> QED
            BY <1>0, <2>1, <2>2, <3>1, <3>2, RunOfOne DEF At, Aside, Changing
    <2> QED
        BY <1>7, <2>3, <2>4 DEF DownEach
<1>8. CASE DownSet(t) \/ DownHandler(t)
    <2>1. /\ thread[t].pc \in {"downSet", "downHandler"} /\ UNCHANGED <<active, orphans, resumed, ckpt>>
          /\ active \subseteq resumed /\ OneAlive
        BY <1>8 DEF DownSet, DownHandler, RunInv, At, cycles, goroutines
    <2>2. OneAlive'
        BY <2>1 DEF OneAlive, Alive
    <2>3. thread'[t].pc \in {"downHandler", "downSend"}
        BY <1>8, GotoMoves DEF DownSet, DownHandler, Moves
    <2>4. active' \subseteq resumed' /\ orphans' \subseteq resumed'
        BY <1>0, <2>1
    <2> QED
        BY <1>0, <2>1, <2>2, <2>3, <2>4, RunOfOne DEF At, Aside, Changing
<1>9. CASE DownSend(t)
    <2>1. At(t, "downSend") /\ UNCHANGED goroutines /\ active \subseteq resumed /\ OneAlive
        BY <1>9 DEF DownSend, RunInv, At, cycles
    <2>2. PICK i \in Slots : ckpt[i] = "select" /\ ckpt' = [ckpt EXCEPT ![i] = "none"]
        BY <1>9 DEF DownSend
    <2>3. Alive = {i}
        BY <2>1, <2>2 DEF OneAlive, Alive
    <2>4. Alive' = {}
        BY <2>2, <2>3 DEF Alive, TypeOK
    <2>5. thread'[t].pc = "downSave"
        BY <1>9, WalkSteps DEF Moves
    <2>6. active' \subseteq resumed' /\ orphans' \subseteq resumed'
        BY <1>0, <2>1 DEF goroutines
    <2> QED
        BY <1>0, <2>1, <2>4, <2>5, <2>6, RunOfOne DEF At, Aside, Changing
<1>10. CASE DownSave(t)
    <2>1. /\ At(t, "downSave") /\ UNCHANGED <<cur, goroutines, ckpt>>
          /\ active \subseteq resumed /\ Alive = {} /\ cur = "stopped"
        BY <1>10 DEF DownSave, RunInv, ModeInv, At, state, cycles
    <2>2. Alive' = {} /\ ~Running'
        BY <2>1 DEF Alive, Running
    <2>3. thread'[t].pc \in {"offSet", "idle"}
        BY <1>10, WalkSteps DEF Moves, Ends, IdleThread
    <2>4. active' \subseteq resumed' /\ orphans' \subseteq resumed'
        BY <1>0, <2>1 DEF goroutines
    <2> QED
        BY <1>0, <2>1, <2>2, <2>3, <2>4, RunOfOne DEF At, Aside
<1>11. CASE AddCycle(t) \/ DeleteCycle(t)
    BY <1>11, EditRun
<1>12. CASE ResumeCycle(t) \/ HaltCycle(t)
    BY <1>12, ApiRun
<1> QED
    BY <1>1, <1>2, <1>3, <1>4, <1>5, <1>6, <1>7, <1>8, <1>9, <1>10, <1>11, <1>12 DEF Step

\* So for any step of the scheduler: a new call and a checkpoint change nothing of it.
LEMMA RunNext ==
    ASSUME TypeOK, CallInv, NoOverlap, ReadLockInv, Made, ModeInv, RunInv, [Next]_vars
    PROVE  RunInv'
<1>1. ASSUME NEW t \in Threads, Call(t) PROVE RunInv'
    <2>1. /\ thread'[t].call \in Calls /\ thread'[t].pc = Entry[thread'[t].call]
          /\ Others(t) /\ At(t, "idle") /\ UNCHANGED <<cur, map, goroutines, ckpt>>
        BY <1>1, NewCall DEF Others, state, cycles
    <2>2. thread[t].pc \notin Changing /\ thread'[t].pc \notin Changing
        BY <2>1, EntryOfCall DEF At, Changing, Calls, Starts, Shutdowns, Reports
    <2> QED
        BY <2>1, <2>2, NothingRunsOrStops
<1>2. ASSUME NEW i \in Slots, Checkpoint(i) PROVE RunInv'
    <2>1. UNCHANGED <<cur, map, goroutines, thread>>
        BY <1>2 DEF Checkpoint, Tick, CheckpointLock, CheckpointSave, state, cycles
    <2>2. Alive' = Alive
        BY <1>2 DEF Checkpoint, Tick, CheckpointLock, CheckpointSave, Alive, TypeOK
    <2> QED
        BY <2>1, <2>2 DEF RunInv, OneAlive, Running, At, Started, goroutines
<1>3. CASE UNCHANGED vars
    BY <1>3 DEF vars, state, cycles, goroutines, RunInv, OneAlive, Alive, Running, At, Started
<1> QED
    BY <1>1, <1>2, <1>3, RunStep DEF Next

\* While the calls that switch it do not overlap, the goroutines are those the mode
\* asks for, but for the cycles that the API stopped or resumed, whatever the mode,
\* and at any step of those calls.
THEOREM RunsAsTheModeSays == Spec /\ []NoOverlap => []RunInv
<1>1. Init => RunInv
    BY DEF Init, RunInv, Alive, Running, IdleThread, At
<1>2. TypeOK /\ CallInv /\ NoOverlap /\ ReadLockInv /\ Made /\ ModeInv /\ RunInv /\ [Next]_vars => RunInv'
    BY RunNext
<1> QED
    BY <1>1, <1>2, TypeCorrect, ReadLockHolds, CallsAreWhereTheyAre, OnlyMadeRun, ModeIsAsRead, PTL
       DEF Spec

\* When no call is under way and the scheduler runs, every cycle of the map was
\* started, however many were added or deleted meanwhile, or stopped by the API since.
THEOREM RunningIsCovered == Spec /\ []NoOverlap => []RunningCoversMap
<1>1. RunInv => RunningCoversMap
    BY DEF RunInv, RunningCoversMap, AllIdle, At, Changing, Started
<1> QED
    BY <1>1, RunsAsTheModeSays, PTL

\* When no call is under way and it does not run, no cycle does, not even a deleted one,
\* unless a resume brought it about: no other call, in no other order, leaves one behind.
THEOREM StoppedIsQuiet == Spec /\ []NoOverlap => []StoppedMeansQuiet
<1>1. RunInv => StoppedMeansQuiet
    BY DEF RunInv, StoppedMeansQuiet, AllIdle, At, Changing
<1> QED
    BY <1>1, RunsAsTheModeSays, PTL

\* Nor is a checkpoint goroutine left behind, or started twice.
THEOREM OneCheckpoint == Spec /\ []NoOverlap => []CheckpointMatchesState
<1>1. RunInv => CheckpointMatchesState
    <2> SUFFICES ASSUME RunInv, AllIdle
                 PROVE  Cardinality(Alive) = IF Running THEN 1 ELSE 0
        BY DEF CheckpointMatchesState, Alive
    <2>1. IF Running THEN OneAlive ELSE Alive = {}
        BY DEF RunInv, AllIdle, At, Changing
    <2>2. CASE Running
        BY <2>1, <2>2, FS_Singleton DEF OneAlive
    <2>3. CASE ~Running
        BY <2>1, <2>3, FS_EmptySet
    <2> QED
        BY <2>2, <2>3
<1> QED
    BY <1>1, RunsAsTheModeSays, PTL

\* A Shutdown leaves no goroutine of a cycle behind but those of cycles that the API
\* resumed: api.yml's "stops all cycles" fails by such a resume, or by an overlap
\* (SchedulerShutdownDuringStart), and by nothing else.
THEOREM ShutdownIsComplete == Spec /\ []NoOverlap => []ShutdownLeavesResumed
<1>1. RunInv => ShutdownLeavesResumed
    BY DEF RunInv, ShutdownLeavesResumed
<1> QED
    BY <1>1, RunsAsTheModeSays, PTL

-----------------------------------------------------------------------------
(* The one deadlock. *)

\* A lock that is held is held by somebody between taking it and giving it back.
LEMMA LockNext ==
    ASSUME TypeOK, LockInv, [Next]_vars
    PROVE  LockInv'
<1>0. writer \in Threads \union {NoThread} /\ stopper \in Threads \union {NoThread}
    BY DEF TypeOK
<1> USE <1>0, OwnersAssumption DEF LockInv, Reading, Others, Moves, Ends, IdleThread, At
<1>1. ASSUME NEW t \in Threads,
             StartLock(t) \/ StartEnabled(t) \/ StartRunning(t) \/ StartCheckpoint(t)
      PROVE  LockInv'
    <2>1. UNCHANGED <<writer, stopper>> /\ \A i \in Slots : ckpt[i] = "saving" => ckpt'[i] = "saving"
        <3>1. CASE StartCheckpoint(t)
            <4>1. FreeSlot \in Slots /\ ckpt[FreeSlot] = "none"
                BY <3>1 DEF StartCheckpoint, FreeSlot
            <4> QED
                BY <3>1, <4>1 DEF StartCheckpoint, TypeOK
        <3> QED
            BY <1>1, <3>1 DEF StartLock, StartEnabled, StartRunning, locks
    <2>2. \/ readers' = readers \union {t} /\ Moves(t, "startEnabled") /\ At(t, "startLock")
          \/ readers' = readers \ {t} /\ Ends(t) /\ thread[t].pc \notin {"writing", "downSend"}
          \/ readers' = readers /\ Moves(t, "startRunning") /\ At(t, "startEnabled")
          \/ readers' = readers /\ Moves(t, "startSet") /\ At(t, "startRunning")
        BY <1>1, GotoMoves, DoneEnds
           DEF StartLock, StartEnabled, StartRunning, StartCheckpoint, RLock, RUnlock
    <2> QED
        BY <2>1, <2>2
<1>2. ASSUME NEW t \in Threads, StartSet(t) \/ StartEach(t) PROVE LockInv'
    <2>1. UNCHANGED <<locks, ckpt>> /\ thread[t].pc \in {"startSet", "startEach"}
        BY <1>2 DEF StartSet, StartEach
    <2>2. \/ Moves(t, "startEach") \/ Moves(t, "startCheckpoint")
        BY <1>2, WalkSteps, GotoMoves, WalkOn DEF StartEach
    <2> QED
        BY <2>1, <2>2 DEF locks
<1>3. ASSUME NEW t \in Threads, DownLock(t) \/ DownError(t) \/ DownSave(t) PROVE LockInv'
    <2>1. UNCHANGED <<writer, stopper, ckpt>>
          /\ thread[t].pc \in {"downLock", "downCheck", "downSave"}
        BY <1>3 DEF DownLock, DownError, DownSave, locks
    <2>2. \/ readers' = readers \union {t} /\ Moves(t, "downCheck")
          \/ readers' = readers \ {t} /\ (Ends(t) \/ Moves(t, "offSet"))
        BY <1>3, GotoMoves, DoneEnds, WalkSteps DEF DownLock, DownError, DownSave, RLock, RUnlock
    <2> QED
        BY <2>1, <2>2
<1>4. ASSUME NEW t \in Threads, DownCheck(t) \/ DownEach(t) \/ DownSet(t) PROVE LockInv'
    <2>1. UNCHANGED <<locks, ckpt>> /\ thread[t].pc \in {"downCheck", "downEach", "downSet"}
        BY <1>4 DEF DownCheck, DownEach, DownSet
    <2>2. Moves(t, "downEach") \/ Moves(t, "downSet") \/ Moves(t, "downHandler")
        BY <1>4, WalkSteps, GotoMoves, WalkOn DEF DownEach, DownSet
    <2> QED
        BY <2>1, <2>2 DEF locks
<1>5. ASSUME NEW t \in Threads, DownHandler(t) \/ DownSend(t) PROVE LockInv'
    <2>1. /\ UNCHANGED <<readers, writer>> /\ thread[t].pc \in {"downHandler", "downSend"}
          /\ \A i \in Slots : ckpt[i] = "saving" => ckpt'[i] = "saving"
        BY <1>5 DEF DownHandler, DownSend, TypeOK
    <2>2. \/ stopper' = t /\ Moves(t, "downSend")
          \/ stopper' = NoThread /\ Moves(t, "downSave")
        BY <1>5, GotoMoves, WalkSteps DEF DownHandler, DownSend
    <2> QED
        BY <2>1, <2>2
<1>6. ASSUME NEW t \in Threads,
             \/ ToggleLock(t) \/ OffEnabled(t) \/ OffRunning(t) \/ OffSet(t)
             \/ OnRunning(t) \/ OnWho(t) \/ OnSet(t) \/ HealthCheck(t) \/ FailoverCheck(t)
             \/ Fetch(t) \/ ResumeCycle(t) \/ HaltCycle(t)
      PROVE  LockInv'
    <2>1. UNCHANGED <<readers, writer, stopper, ckpt>>
        BY <1>6 DEF ToggleLock, OffEnabled, OffRunning, OffSet, OnRunning, OnWho, OnSet, HealthCheck,
              FailoverCheck, Test, Fetch, ResumeCycle, HaltCycle, locks
    <2>2. thread[t].pc \notin Reading \union {"writing"}
        BY <1>6 DEF ToggleLock, OffEnabled, OffRunning, OffSet, OnRunning, OnWho, OnSet, HealthCheck,
              FailoverCheck, Test, Fetch, ResumeCycle, HaltCycle
    <2> QED
        BY <2>1, <2>2, <1>6, StepKeepsCall DEF Step
<1>7. ASSUME NEW t \in Threads, WriteWait(t) PROVE LockInv'
    BY <1>7, GotoMoves DEF WriteWait
<1>8. ASSUME NEW t \in Threads, AddCycle(t) \/ DeleteCycle(t) PROVE LockInv'
    <2>1. At(t, "writing") /\ writer' = NoThread /\ Ends(t) /\ UNCHANGED <<readers, stopper, ckpt>>
        BY <1>8, DoneEnds DEF AddCycle, DeleteCycle, Writing
    <2> QED
        BY <2>1
<1>9. ASSUME NEW t \in Threads, Call(t) PROVE LockInv'
    <2>1. At(t, "idle") /\ Others(t) /\ UNCHANGED <<locks, ckpt>>
        BY <1>9, NewCall
    <2> QED
        BY <2>1 DEF locks
<1>10. ASSUME NEW i \in Slots, Checkpoint(i) PROVE LockInv'
    BY <1>10 DEF Checkpoint, Tick, CheckpointLock, CheckpointSave, RLock, RUnlock, locks, TypeOK
<1>11. CASE UNCHANGED vars
    BY <1>11 DEF vars, locks
<1> QED
    BY <1>1, <1>2, <1>3, <1>4, <1>5, <1>6, <1>7, <1>8, <1>9, <1>10, <1>11 DEF Next, Step

\* While calls do not overlap, they are stuck only in the deadlock that
\* SchedulerShutdownBlocked finds: a shutdown that sends to a checkpoint goroutine
\* behind a writer.
THEOREM OneDeadlock == Spec /\ []NoOverlap => []StuckMeansBlocked
<1>1. Init => LockInv
    BY OwnersAssumption DEF Init, LockInv
<1>2. TypeOK /\ LockInv /\ CallInv /\ RunInv => StuckMeansBlocked
    <2> SUFFICES ASSUME TypeOK, LockInv, CallInv, RunInv, Stuck
                 PROVE  Blocked
        BY DEF StuckMeansBlocked
    <2>1. CASE \E t \in Threads : At(t, "downSend")
        <3>1. PICK t \in Threads : At(t, "downSend")
            BY <2>1
        <3>2. \A i \in Slots : ckpt[i] # "select"
            BY <3>1 DEF Stuck, Waits, At
        <3>3. PICK i \in Slots : ckpt[i] # "none"
            BY <3>1 DEF RunInv, At, OneAlive, Alive
        <3>4. ckpt[i] = "lock" /\ writer # NoThread
            BY <3>2, <3>3 DEF Stuck, TypeOK, MayRead
        <3> QED
            BY <3>1, <3>2, <3>4 DEF Blocked
    <2>2. CASE \A t \in Threads : ~At(t, "downSend")
        <3>1. stopper = NoThread
            BY <2>2 DEF LockInv, TypeOK
        \* Who reads does not wait: a Start finds a slot, since no goroutine is alive.
        <3>2. \A t \in Threads : thread[t].pc \notin Reading
            <4> SUFFICES ASSUME NEW t \in Threads, thread[t].pc \in Reading PROVE FALSE
                OBVIOUS
            <4>1. Waits(t)
                BY DEF Stuck, At, Reading
            <4>2. At(t, "startCheckpoint") /\ \A i \in Slots : ckpt[i] # "none"
                BY <2>2, <3>1, <4>1 DEF Waits, At, Reading
            <4> QED
                BY <4>2, SlotsAssumption DEF RunInv, Alive
        \* So nobody reads, and who writes does not wait.
        <3>3. readers = {}
            BY <3>2 DEF LockInv, TypeOK, Stuck
        <3>4. writer = NoThread
            BY <3>3 DEF LockInv, TypeOK, Stuck, Waits, At
        <3>5. PICK t \in Threads : At(t, "toggleLock") /\ toggler # NoThread
            BY <2>2, <3>1, <3>2, <3>3, <3>4 DEF Stuck, Waits, At, Reading
        \* Nor does who handles a toggle.
        <3>6. toggler \in Threads /\ ~At(toggler, "toggleLock") /\ ~At(toggler, "idle")
            BY <3>5 DEF TypeOK, CallInv, Called, Offs, Ons
        <3> QED
            BY <2>2, <3>1, <3>2, <3>3, <3>4, <3>6 DEF Stuck, Waits, At, Reading
    <2> QED
        BY <2>1, <2>2
<1> QED
    BY <1>1, <1>2, LockNext, TypeCorrect, CallsAreWhereTheyAre, RunsAsTheModeSays, PTL DEF Spec
=============================================================================
