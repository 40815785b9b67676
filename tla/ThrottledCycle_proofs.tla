------------------------ MODULE ThrottledCycle_proofs ------------------------
(***************************************************************************)
(* What holds of ThrottledCycle for every collection, every number of      *)
(* workers and every set of callers.                                       *)
(***************************************************************************)
EXTENDS ThrottledCycle, TLAPS, FiniteSetTheorems

-----------------------------------------------------------------------------
(* Counting the documents that are published. *)

\* The kept documents are finitely many, at most as many as the documents.
LEMMA ItemsType == IsFiniteSet(Kept) /\ Items \in 0..NDocs
<1>1. IsFiniteSet(1..NDocs) /\ Cardinality(1..NDocs) = NDocs
    BY CollectionAssumption, FS_Interval
<1>2. IsFiniteSet(Kept) /\ Cardinality(Kept) <= NDocs
    BY <1>1, CollectionAssumption, FS_Subset
<1>3. Cardinality(Kept) \in Nat
    BY <1>2, FS_CardinalityType
<1> QED
    BY <1>2, <1>3, CollectionAssumption DEF Items

\* A cursor that skips s documents skips no more items than there are, and a
\* cursor that skips none skips no item.
LEMMA KeptInType ==
    ASSUME NEW s \in Nat
    PROVE  KeptIn(s) \in 0..Items /\ (s = 0 => KeptIn(s) = 0)
<1> DEFINE D == {d \in Kept : d <= s}
<1>1. IsFiniteSet(Kept)
    BY ItemsType
<1>2. IsFiniteSet(D) /\ Cardinality(D) <= Cardinality(Kept)
    BY <1>1, FS_Subset
<1>3. Cardinality(D) \in Nat
    BY <1>2, FS_CardinalityType
<1>4. s = 0 => D = {}
    <2>1. \A d \in Kept : d \in Int /\ d >= 1
        BY CollectionAssumption
    <2> QED
        BY <2>1
<1>5. s = 0 => Cardinality(D) = 0
    BY <1>4, FS_EmptySet
<1>6. Cardinality(Kept) \in Nat
    BY <1>1, FS_CardinalityType
<1> QED
    BY <1>2, <1>3, <1>5, <1>6 DEF KeptIn, Items

-----------------------------------------------------------------------------
(* Types. *)

\* An item that is being recorded is one of the list's.
TypeInv == TypeOK /\ \A w \in Workers : At(w, "record") => work[w].next <= NDocs

LEMMA MetaTypes == NewMeta \in Meta /\ EmptyMeta \in Meta
BY CollectionAssumption DEF NewMeta, EmptyMeta, Meta, Cap, CycleStates, NoItem

LEMMA IdleType == IdleWork \in Work
BY CollectionAssumption DEF IdleWork, Work, WorkPC, Cap

\* Counting an item keeps a CycleMetadata: Completed stays in its bound.
LEMMA UpdateProgressType ==
    ASSUME meta \in Meta, NEW i \in 0..NDocs, UpdateProgress(i)
    PROVE  meta' \in Meta
<1>1. meta.completed \in 0..Cap
    BY DEF Meta
<1>2. Bump(meta.completed) \in 0..Cap
    BY <1>1, CollectionAssumption DEF Bump, Cap
<1> QED
    BY <1>2 DEF Meta, UpdateProgress

\* A goroutine that returns leaves its slot as it found it.
LEMMA ExitType ==
    ASSUME TypeInv, NEW w \in Workers, Exit(w)
    PROVE  /\ work' \in [Workers -> Work]
           /\ cancelled' \subseteq Workers
           /\ handle' \in Workers \union {NoWorker}
           /\ \A v \in Workers : work'[v].pc = "record" => work'[v].next <= NDocs
BY IdleType DEF TypeInv, TypeOK, Exit, IdleWork, At

\* A worker's step keeps the types.
LEMMA WorkerType ==
    ASSUME TypeInv, NEW w \in Workers, Worker(w)
    PROVE  TypeInv'
<1> USE DEF At
<1>0. /\ work[w] \in Work /\ work \in [Workers -> Work]
      /\ Items \in 0..NDocs /\ NDocs \in Nat /\ listFrom \in NoList..NDocs
      /\ meta \in Meta
    BY ItemsType, CollectionAssumption DEF TypeInv, TypeOK
<1>1. CASE ReadSkip(w)
    BY <1>0, <1>1 DEF ReadSkip, TypeInv, TypeOK, Work, WorkPC, Meta
<1>2. CASE LoadFromS3(w)
    <2>1. work[w].skip \in Nat /\ work[w].skip > 0 /\ listFrom \in Nat
          /\ work[w].skip < Items - listFrom
        BY <1>0, <1>2 DEF LoadFromS3, Work, Cap, NoList, ListUsable, ListLength
    <2>2. /\ listFrom + work[w].skip + 1 \in 1..(NDocs + 1)
          /\ Items - listFrom \in 0..(Cap + NDocs) /\ Items \in 0..NDocs
        BY <1>0, <2>1 DEF Cap
    <2>3. work' = [work EXCEPT ![w].pc = "setup", ![w].next = listFrom + work[w].skip + 1,
                               ![w].last = Items, ![w].len = Items - listFrom]
        BY <1>2 DEF LoadFromS3, ListLength
    <2>4. work' \in [Workers -> Work]
        BY <1>0, <2>2, <2>3 DEF Work, WorkPC
    <2> QED
        BY <1>0, <1>2, <2>3, <2>4 DEF LoadFromS3, TypeInv, TypeOK
<1>3. CASE UseCursor(w)
    <2>1. PICK from \in {0, work[w].skip} :
              work' = [work EXCEPT ![w].pc = "cursor", ![w].from = from]
        BY <1>3 DEF UseCursor
    <2>2. from \in 0..Cap
        BY <1>0, <2>1 DEF Work, Cap
    <2> QED
        BY <1>0, <1>3, <2>1, <2>2 DEF UseCursor, TypeInv, TypeOK, Work, WorkPC
<1>4. ASSUME NEW last \in KeptIn(work[w].from)..Items, NEW pc \in {"setup", "persist"},
             Loaded(w, last, pc),
             UNCHANGED <<meta, saved, listFrom, cancelled, handle, stage, client>>
      PROVE  TypeInv'
    <2>1. work[w].from \in Nat /\ work[w].from <= Cap
        BY <1>0 DEF Work, Cap
    <2>2. KeptIn(work[w].from) \in 0..Items
        BY <2>1, KeptInType
    <2>3. /\ KeptIn(work[w].from) + 1 \in 1..(NDocs + 1)
          /\ last \in 0..NDocs
          /\ work[w].from + last - (KeptIn(work[w].from) + 1) + 1 \in 0..(Cap + NDocs)
        BY <1>0, <2>1, <2>2 DEF Cap
    <2>4. work' \in [Workers -> Work]
        BY <1>0, <1>4, <2>3 DEF Loaded, Work, WorkPC
    <2> QED
        BY <1>0, <1>4, <2>4 DEF Loaded, TypeInv, TypeOK
<1>5. CASE LoadComplete(w)
    <2>1. Items \in KeptIn(work[w].from)..Items
        BY <1>0, KeptInType DEF Work, Cap
    <2> QED
        BY <1>4, <1>5, <2>1 DEF LoadComplete
<1>6. CASE LoadInterrupted(w)
    BY <1>4, <1>6 DEF LoadInterrupted
<1>7. CASE LoadFailed(w) \/ NothingToPublish(w) \/ Stopped(w)
    <2>1. Exit(w) /\ meta' \in Meta /\ UNCHANGED <<saved, listFrom, stage, client>>
        BY <1>0, <1>7 DEF LoadFailed, NothingToPublish, Stopped, UpdateState,
                          CycleStates, Meta
    <2> QED
        BY <2>1, ExitType DEF TypeInv, TypeOK
<1>8. CASE Persist(w)
    BY <1>0, <1>8 DEF Persist, Goto, TypeInv, TypeOK, Work, WorkPC, NoList
<1>9. CASE Setup(w)
    <2>1. meta' \in Meta
        BY <1>0, <1>9 DEF Setup, Meta, Work, CycleStates, NoItem
    <2> QED
        BY <1>0, <1>9, <2>1 DEF Setup, Goto, TypeInv, TypeOK, Work, WorkPC
<1>10. CASE Proceed(w)
    BY <1>0, <1>10 DEF Proceed, Goto, TypeInv, TypeOK, Work, WorkPC
<1>11. CASE Publish(w)
    <2>1. work[w].next \in 1..NDocs
        BY <1>0, <1>11 DEF Publish, Work
    <2>2. meta' \in Meta
        BY <1>0, <1>11, <2>1 DEF Publish, Meta
    <2>3. PICK late \in 0..2 :
              work' = [work EXCEPT ![w].pc = "record", ![w].late = late]
        <3>1. work[w].late \in 0..2
            BY <1>0 DEF Work
        <3>2. (IF w \in cancelled /\ work[w].late < 2 THEN work[w].late + 1
                                                      ELSE work[w].late) \in 0..2
            BY <3>1
        <3> QED
            BY <1>11, <3>2 DEF Publish
    <2>4. work' \in [Workers -> Work]
        BY <1>0, <2>3 DEF Work, WorkPC
    <2> QED
        BY <1>0, <1>11, <2>1, <2>2, <2>3, <2>4 DEF Publish, TypeInv, TypeOK
<1>12. CASE Record(w)
    <2>1. work[w].next \in 1..NDocs
        BY <1>0, <1>12 DEF Record, Work, TypeInv
    <2>2. meta' \in Meta
        BY <1>0, <1>12, <2>1, UpdateProgressType DEF Record
    <2>3. work[w].next + 1 \in 1..(NDocs + 1)
        BY <1>0, <2>1
    <2>4. work' = [work EXCEPT ![w].pc = "queue", ![w].next = work[w].next + 1]
        BY <1>12 DEF Record
    <2>5. work' \in [Workers -> Work]
        BY <1>0, <2>3, <2>4 DEF Work, WorkPC
    <2> QED
        BY <1>0, <1>12, <2>2, <2>4, <2>5 DEF Record, TypeInv, TypeOK
<1>13. CASE Finish(w)
    <2>1. meta' \in Meta
        <3>1. NoItem \in 0..NDocs
            BY <1>0 DEF NoItem
        <3>2. UpdateProgress(NoItem) /\ meta \in Meta
            BY <1>0, <1>13 DEF Finish
        <3> QED
            BY <3>1, <3>2, UpdateProgressType
    <2>2. work' = [work EXCEPT ![w].pc = "load", ![w].skip = 0] /\ 0 \in 0..Cap
        BY <1>0, <1>13 DEF Finish, Cap
    <2>3. work' \in [Workers -> Work]
        BY <1>0, <2>2 DEF Work, WorkPC
    <2> QED
        BY <1>0, <1>13, <2>1, <2>2, <2>3 DEF Finish, TypeInv, TypeOK
<1> QED
    BY <1>1, <1>2, <1>3, <1>5, <1>6, <1>7, <1>8, <1>9, <1>10, <1>11, <1>12, <1>13
       DEF Worker

\* A new worker keeps the types.
LEMMA SpawnType ==
    ASSUME TypeInv, NEW w \in Workers, Spawn(w)
    PROVE  /\ work' \in [Workers -> Work] /\ handle' \in Workers \union {NoWorker}
           /\ meta' \in Meta
           /\ \A v \in Workers : work'[v].pc = "record" => work'[v].next <= NDocs
BY DEF TypeInv, TypeOK, Spawn, At, UpdateState, Work, WorkPC, Meta, CycleStates

\* The initial state has the types.
LEMMA InitType == Init => TypeInv
BY MetaTypes, IdleType, CollectionAssumption
       DEF Init, TypeInv, TypeOK, NoList, ClientPC, At, IdleWork

\* Every step keeps the types.
LEMMA TypeStep ==
    ASSUME TypeInv, [Next]_vars
    PROVE  TypeInv'
<1>1. ASSUME NEW w \in Workers, Worker(w) PROVE TypeInv'
    BY <1>1, WorkerType
<1>2. ASSUME NEW w \in Workers, Start(w) PROVE TypeInv'
    BY <1>2, SpawnType DEF Start, TypeInv, TypeOK, At
<1>3. ASSUME NEW k \in Clients, Client(k) PROVE TypeInv'
    <2>1. client' \in [Clients -> ClientPC] /\ UNCHANGED <<saved, listFrom, work, handle, stage>>
        BY <1>3 DEF Client, Return, StopCall, StopReturn, ResetCall, ResetStop,
                    ResetClear, TypeInv, TypeOK, ClientPC
    <2>2. meta' \in Meta
        BY <1>3, MetaTypes DEF Client, Return, StopCall, StopReturn, ResetCall,
              ResetStop, ResetClear, TypeInv, TypeOK, UpdateState, Meta, CycleStates
    <2>3. cancelled' \subseteq Workers
        BY <1>3 DEF Client, Return, StopCall, StopReturn, ResetCall, ResetStop,
                    ResetClear, TypeInv, TypeOK, Cancel
    <2> QED
        BY <2>1, <2>2, <2>3 DEF TypeInv, TypeOK, At
<1>4. CASE Boot
    BY <1>4, MetaTypes DEF Boot, TypeInv, TypeOK, At
<1>5. CASE SchedulerStart
    BY <1>5, SpawnType DEF SchedulerStart, TypeInv, TypeOK, At
<1>6. CASE Save
    BY <1>6 DEF Save, TypeInv, TypeOK, At
<1>7. CASE Crash
    BY <1>7, MetaTypes, IdleType DEF Crash, TypeInv, TypeOK, At, IdleWork, ClientPC
<1>8. CASE UNCHANGED vars
    BY <1>8 DEF vars, TypeInv, TypeOK, At
<1> QED
    BY <1>1, <1>2, <1>3, <1>4, <1>5, <1>6, <1>7, <1>8 DEF Next

\* The state of the model has the types TypeOK gives it: in particular every
\* list of UUIDs and every count a worker holds stays in its bounds.
THEOREM TypeCorrect == Spec => []TypeOK
<1>1. TypeInv /\ [Next]_vars => TypeInv'
    BY TypeStep
<1>2. TypeInv => TypeOK
    BY DEF TypeInv
<1> QED
    BY InitType, <1>1, <1>2, PTL DEF Spec

-----------------------------------------------------------------------------
(* Resume points. *)

\* What the theorem assumes of the callers and of S3: nobody starts or resets
\* the cycle while an earlier worker is still running, and the list of UUIDs
\* is read and written without error.
Orderly == ~Overlap /\ "listRead" \notin Faults /\ "listWrite" \notin Faults

\* When one worker works, the others are idle, and stay as they are.
LEMMA OtherWorkers ==
    ASSUME TypeInv, ResumeInv, NEW w \in Workers, ~At(w, "idle"),
           \A v \in Workers \ {w} : work'[v] = work[v],
           stage' = stage, client' = client
    PROVE  /\ OneWorker' /\ CallersInv'
           /\ \A v \in Workers \ {w} : LoadingInv(v)' /\ PublishingInv(v)'
<1>1. \A v \in Workers \ {w} : work'[v].pc = "idle"
    BY DEF ResumeInv, OneWorker, At
<1>2. OneWorker'
    BY <1>1 DEF OneWorker, At
<1>3. CallersInv'
    BY DEF ResumeInv, CallersInv, Drained, AllIdle
<1>4. \A v \in Workers \ {w} : LoadingInv(v)' /\ PublishingInv(v)'
    BY <1>1 DEF LoadingInv, PublishingInv, At
<1> QED
    BY <1>2, <1>3, <1>4

\* Changing the state in the metadata changes nothing the invariant reads.
LEMMA StateOnly ==
    ASSUME TypeInv, ResumePointSound, NEW s, UpdateState(s), saved' = saved
    PROVE  /\ meta'.completed = meta.completed /\ meta'.done = meta.done
           /\ ResumePointSound'
<1>1. meta'.completed = meta.completed /\ meta'.done = meta.done
    BY DEF UpdateState, TypeInv, TypeOK, Meta
<1> QED
    BY <1>1 DEF ResumePointSound, Covered, ResumePoint

\* A worker that loads its list keeps the invariant: skipping leaves out only
\* items the pass has attempted.
LEMMA LoadingStep ==
    ASSUME Orderly, TypeInv, ResumeInv, NEW w \in Workers,
           \/ ReadSkip(w) \/ LoadFromS3(w) \/ UseCursor(w) \/ LoadComplete(w)
           \/ LoadInterrupted(w) \/ Persist(w)
    PROVE  ResumeInv'
<1> USE DEF At
<1>0. /\ work[w] \in Work /\ work \in [Workers -> Work]
      /\ Items \in 0..NDocs /\ NDocs \in Nat /\ meta \in Meta
      /\ work[w].skip \in Nat /\ meta.completed \in Nat
    BY ItemsType, CollectionAssumption DEF TypeInv, TypeOK, Work, Meta, Cap
<1>1. /\ UNCHANGED <<meta, saved, cancelled, stage, client>>
      /\ \A v \in Workers \ {w} : work'[v] = work[v]
      /\ ~At(w, "idle")
    BY <1>0 DEF ReadSkip, LoadFromS3, UseCursor, LoadComplete, LoadInterrupted,
                Persist, Loaded, Goto
<1>2. /\ OneWorker' /\ CallersInv' /\ ResumePointSound'
      /\ \A v \in Workers \ {w} : LoadingInv(v)' /\ PublishingInv(v)'
    BY <1>1, OtherWorkers DEF ResumeInv, ResumePointSound, Covered, ResumePoint
<1>3. SUFFICES /\ listFrom' \in {NoList, 0} /\ (WholeList => WholeList')
               /\ LoadingInv(w)' /\ PublishingInv(w)'
    BY <1>1, <1>2 DEF ResumeInv
<1>4. LoadingInv(w)
    BY DEF ResumeInv
<1>5. CASE ReadSkip(w)
    <2>1. /\ work'[w].pc = "load" /\ work'[w].skip = meta.completed
          /\ UNCHANGED listFrom
        BY <1>0, <1>5 DEF ReadSkip, Work
    <2>2. SkipCovered(meta.completed, meta.done)
        BY DEF SkipCovered, ResumeInv, ResumePointSound, Covered, ResumePoint
    <2> QED
        BY <1>1, <2>1, <2>2 DEF LoadingInv, PublishingInv, ResumeInv, WholeList
<1>6. CASE LoadFromS3(w)
    <2>1. work[w].skip > 0 /\ WholeList
        BY <1>4, <1>6 DEF LoadFromS3, LoadingInv
    <2>2. /\ work'[w].pc = "setup" /\ work'[w].skip = work[w].skip
          /\ work'[w].next = work[w].skip + 1 /\ work[w].skip < Items
          /\ work'[w].last = Items /\ work'[w].len = Items
          /\ UNCHANGED listFrom
        BY <1>0, <1>6, <2>1 DEF LoadFromS3, ListLength, WholeList, Work
    <2> QED
        BY <1>1, <1>4, <1>6, <2>1, <2>2
           DEF LoadFromS3, LoadingInv, PublishingInv, ResumeInv, WholeList, SkipCovered
<1>7. CASE UseCursor(w)
    <2>1. PICK from \in {0, work[w].skip} :
              /\ \/ work[w].skip = 0
                 \/ from = 0 /\ ListUsable /\ work[w].skip >= ListLength
                 \/ from = work[w].skip /\ ~ListUsable
              /\ work' = [work EXCEPT ![w].pc = "cursor", ![w].from = from]
        BY <1>7 DEF UseCursor, Orderly
    <2>2. work[w].skip > 0 => WholeList
        BY <1>4, <1>7 DEF UseCursor, LoadingInv
    <2>3. WholeList => ListUsable /\ ListLength = Items
        BY <1>0 DEF WholeList, ListUsable, ListLength, NoList
    <2>4. from = 0 /\ (work[w].skip = 0 \/ work[w].skip >= Items)
        BY <1>0, <2>1, <2>2, <2>3
    <2>5. /\ work'[w].pc = "cursor" /\ work'[w].skip = work[w].skip
          /\ work'[w].from = 0 /\ UNCHANGED listFrom
        BY <1>0, <1>7, <2>1, <2>4 DEF UseCursor, Work
    <2> QED
        BY <1>1, <1>4, <1>7, <2>4, <2>5
           DEF UseCursor, LoadingInv, PublishingInv, ResumeInv, WholeList, SkipCovered
<1>8. ASSUME NEW last \in KeptIn(work[w].from)..Items, NEW pc, Loaded(w, last, pc),
             At(w, "cursor"), UNCHANGED listFrom
      PROVE  /\ work'[w].pc = pc /\ work'[w].skip = work[w].skip
             /\ work'[w].from = 0 /\ work'[w].next = 1
             /\ work'[w].last = last /\ work'[w].len = last
    <2>1. work[w].from = 0 /\ KeptIn(work[w].from) = 0
        BY <1>4, <1>8, KeptInType DEF LoadingInv
    <2> QED
        BY <1>0, <1>8, <2>1 DEF Loaded, Work
<1>9. CASE LoadComplete(w)
    <2>1. work[w].from = 0 /\ KeptIn(work[w].from) = 0
          /\ (work[w].skip = 0 \/ work[w].skip >= Items)
        BY <1>4, <1>9, KeptInType DEF LoadComplete, LoadingInv
    <2>2. Items \in KeptIn(work[w].from)..Items
        BY <1>0, <2>1
    <2>3. /\ work'[w].pc = (IF NDocs = 0 THEN "setup" ELSE "persist")
          /\ work'[w].skip = work[w].skip
          /\ work'[w].from = 0 /\ work'[w].next = 1
          /\ work'[w].last = Items /\ work'[w].len = Items /\ UNCHANGED listFrom
        BY <1>8, <1>9, <2>2 DEF LoadComplete
    <2>4. NDocs = 0 => Items = 0
        BY <1>0
    <2> QED
        BY <1>0, <1>1, <1>4, <1>9, <2>1, <2>3, <2>4
           DEF LoadComplete, LoadingInv, PublishingInv, ResumeInv, WholeList, SkipCovered
<1>10. CASE LoadInterrupted(w)
    <2>1. work[w].skip = 0 \/ work[w].skip >= Items
        BY <1>4, <1>10 DEF LoadInterrupted, LoadingInv
    <2>2. /\ work'[w].pc = "setup" /\ work'[w].skip = work[w].skip
          /\ work'[w].next = 1 /\ w \in cancelled' /\ UNCHANGED listFrom
        BY <1>1, <1>8, <1>10 DEF LoadInterrupted
    <2> QED
        BY <1>0, <1>1, <1>4, <1>10, <2>1, <2>2
           DEF LoadInterrupted, LoadingInv, PublishingInv, ResumeInv, WholeList, SkipCovered
<1>11. CASE Persist(w)
    <2>1. /\ work'[w].pc = "setup" /\ work'[w].skip = work[w].skip
          /\ work'[w].next = 1 /\ work'[w].last = Items /\ work'[w].len = Items
          /\ (work[w].skip = 0 \/ work[w].skip >= Items)
          /\ listFrom' = 0
        BY <1>0, <1>4, <1>11 DEF Persist, Goto, LoadingInv, Orderly, Work
    <2> QED
        BY <1>0, <1>1, <1>4, <1>11, <2>1
           DEF Persist, LoadingInv, PublishingInv, ResumeInv, WholeList, SkipCovered
<1> QED
    BY <1>5, <1>6, <1>7, <1>9, <1>10, <1>11

\* A worker that begins a pass, publishes or finishes keeps the invariant: what
\* the metadata counts as completed has been attempted.
LEMMA PublishingStep ==
    ASSUME Orderly, TypeInv, ResumeInv, NEW w \in Workers,
           Setup(w) \/ Proceed(w) \/ Publish(w) \/ Record(w) \/ Finish(w)
    PROVE  ResumeInv'
<1> USE DEF At
<1>0. /\ work[w] \in Work /\ work \in [Workers -> Work]
      /\ Items \in 0..NDocs /\ NDocs \in Nat /\ meta \in Meta
      /\ work[w].skip \in Nat /\ work[w].next \in Nat /\ work[w].next >= 1
      /\ meta.completed \in 0..Cap
    BY ItemsType, CollectionAssumption DEF TypeInv, TypeOK, Work, Meta, Cap
<1>1. /\ UNCHANGED <<saved, listFrom, cancelled, stage, client>>
      /\ \A v \in Workers \ {w} : work'[v] = work[v]
      /\ ~At(w, "idle")
    BY <1>0 DEF Setup, Proceed, Publish, Record, Finish, Goto
<1>2. /\ OneWorker' /\ CallersInv' /\ Covered(saved)' /\ (WholeList => WholeList')
      /\ \A v \in Workers \ {w} : LoadingInv(v)' /\ PublishingInv(v)'
    BY <1>1, OtherWorkers
       DEF ResumeInv, ResumePointSound, Covered, ResumePoint, WholeList
<1>3. SUFFICES /\ meta'.completed > 0 => WholeList
               /\ Covered(meta)'
               /\ LoadingInv(w)' /\ PublishingInv(w)'
    BY <1>1, <1>2 DEF ResumeInv, ResumePointSound
<1>4. LoadingInv(w) /\ PublishingInv(w) /\ (meta.completed > 0 => WholeList)
    BY DEF ResumeInv
<1>5. CASE Setup(w)
    <2>1. /\ meta'.completed = work[w].skip
          /\ meta'.done = (IF work[w].next = 1 THEN {} ELSE meta.done)
        BY <1>5 DEF Setup
    <2>2. /\ work'[w].pc = (IF work[w].len = 0 THEN "empty" ELSE "queue")
          /\ work'[w].next = work[w].next /\ work'[w].last = work[w].last
        BY <1>0, <1>5 DEF Setup, Goto, Work
    <2>3. /\ SkipCovered(work[w].skip, meta.done)
          /\ work[w].skip > 0 => WholeList
          /\ work[w].next = (IF work[w].skip < Items THEN work[w].skip + 1 ELSE 1)
          /\ \/ w \in cancelled
             \/ /\ work[w].last = Items /\ work[w].len = Items
                /\ Items > 0 => listFrom = 0
        BY <1>4, <1>5 DEF Setup, LoadingInv
    <2>4. 1..(work[w].next - 1) \subseteq meta'.done
        BY <1>0, <2>1, <2>3 DEF SkipCovered
    <2>5. Covered(meta)'
        BY <1>0, <2>1, <2>3, <2>4 DEF Covered, ResumePoint
    <2>6. LoadingInv(w)'
        BY <2>2 DEF LoadingInv
    <2>7. work[w].len # 0 => w \in cancelled \/ (work[w].last = Items /\ WholeList)
        BY <1>0, <2>3 DEF WholeList
    <2>8. PublishingInv(w)'
        BY <1>0, <1>1, <2>1, <2>2, <2>3, <2>4, <2>7 DEF PublishingInv, WholeList
    <2> QED
        BY <2>1, <2>3, <2>5, <2>6, <2>8
<1>6. CASE Proceed(w)
    <2>1. /\ work'[w].pc = "next" /\ work'[w].next = work[w].next
          /\ work'[w].last = work[w].last /\ UNCHANGED meta
        BY <1>0, <1>6 DEF Proceed, Goto, Work
    <2>2. work[w].last = Items /\ WholeList
        BY <1>4, <1>6 DEF Proceed, PublishingInv
    <2>3. Covered(meta)'
        BY <2>1 DEF ResumeInv, ResumePointSound, Covered, ResumePoint
    <2> QED
        BY <1>1, <1>4, <1>6, <2>1, <2>2, <2>3
           DEF Proceed, LoadingInv, PublishingInv, WholeList
<1>7. CASE Publish(w)
    <2>1. /\ meta'.completed = meta.completed
          /\ meta'.done = meta.done \union {work[w].next}
        BY <1>0, <1>7 DEF Publish, Meta
    <2>2. /\ work'[w].pc = "record" /\ work'[w].next = work[w].next
          /\ work'[w].last = work[w].last
        BY <1>0, <1>7 DEF Publish, Work
    <2>3. Covered(meta)'
        BY <2>1 DEF ResumeInv, ResumePointSound, Covered, ResumePoint
    <2>4. work[w].next <= Items /\ work[w].last = Items /\ WholeList
        BY <1>4, <1>7 DEF Publish, PublishingInv
    <2> QED
        BY <1>1, <1>4, <1>7, <2>1, <2>2, <2>3, <2>4
           DEF Publish, LoadingInv, PublishingInv, WholeList
<1>8. ASSUME NEW i \in 0..NDocs, UpdateProgress(i)
      PROVE  meta'.done = meta.done /\ meta'.completed = Bump(meta.completed)
    BY <1>0, <1>8 DEF UpdateProgress, Meta
<1>9. /\ Cap > Items /\ Bump(meta.completed) \in Nat
      /\ meta.completed < Items => Bump(meta.completed) = meta.completed + 1
      /\ meta.completed >= Items => Bump(meta.completed) >= Items
    BY <1>0 DEF Bump, Cap
<1>10. CASE Record(w)
    <2>1. /\ work[w].next \in meta.done /\ work[w].next <= Items
          /\ work[w].last = Items /\ WholeList
          /\ 1..(work[w].next - 1) \subseteq meta.done
          /\ meta.completed < Items => work[w].next = meta.completed + 1
        BY <1>4, <1>10 DEF Record, PublishingInv
    <2>2. work[w].next \in 0..NDocs
        BY <1>0, <2>1
    <2>3. meta'.done = meta.done /\ meta'.completed = Bump(meta.completed)
        BY <1>8, <1>10, <2>2 DEF Record
    <2>4. /\ work'[w].pc = "queue" /\ work'[w].next = work[w].next + 1
          /\ work'[w].last = work[w].last
        BY <1>0, <1>10 DEF Record, Work
    <2>5. 1..work[w].next \subseteq meta'.done
        BY <1>0, <2>1, <2>3
    <2>6. meta'.completed < Items => work'[w].next = meta'.completed + 1
        BY <1>0, <1>9, <2>1, <2>3, <2>4 DEF Bump, Cap
    <2>7. Covered(meta)'
        BY <1>0, <1>9, <2>3, <2>4, <2>5, <2>6 DEF Covered, ResumePoint
    <2>8. LoadingInv(w)'
        BY <2>4 DEF LoadingInv
    <2>9. PublishingInv(w)'
        BY <1>0, <1>1, <2>1, <2>4, <2>5, <2>6 DEF PublishingInv, WholeList
    <2> QED
        BY <2>1, <2>7, <2>8, <2>9
<1>11. CASE Finish(w)
    <2>1. /\ work[w].last = Items /\ WholeList /\ work[w].next > Items
          /\ meta.completed < Items => work[w].next = meta.completed + 1
        BY <1>4, <1>11 DEF Finish, PublishingInv
    <2>2. meta.completed >= Items
        BY <1>0, <2>1
    <2>3. NoItem \in 0..NDocs /\ UpdateProgress(NoItem)
        BY <1>0, <1>11 DEF Finish, NoItem
    <2>4. meta'.done = meta.done /\ meta'.completed = Bump(meta.completed)
        BY <1>8, <2>3
    <2>5. Covered(meta)'
        BY <1>0, <1>9, <2>2, <2>4 DEF Covered, ResumePoint, Bump, Cap
    <2>6. work'[w].pc = "load" /\ work'[w].skip = 0
        BY <1>0, <1>11 DEF Finish, Work
    <2>7. LoadingInv(w)' /\ PublishingInv(w)'
        BY <2>6 DEF LoadingInv, PublishingInv, SkipCovered
    <2> QED
        BY <2>1, <2>5, <2>7
<1> QED
    BY <1>5, <1>6, <1>7, <1>10, <1>11

\* With every worker idle before or after a step, only the metadata and the
\* list are left to check.
LEMMA IdleStep ==
    ASSUME ResumeInv, \A v \in Workers : work'[v].pc = "idle",
           CallersInv', UNCHANGED listFrom,
           meta'.completed > 0 => WholeList, saved'.completed > 0 => WholeList,
           ResumePointSound'
    PROVE  ResumeInv'
<1>1. OneWorker' /\ \A w \in Workers : LoadingInv(w)' /\ PublishingInv(w)'
    BY DEF OneWorker, LoadingInv, PublishingInv, At
<1> QED
    BY <1>1 DEF ResumeInv, WholeList

\* A worker that returns keeps the invariant.
LEMMA ExitStep ==
    ASSUME TypeInv, ResumeInv, NEW w \in Workers,
           LoadFailed(w) \/ NothingToPublish(w) \/ Stopped(w)
    PROVE  ResumeInv'
<1>1. /\ ~At(w, "idle") /\ UNCHANGED <<saved, listFrom, stage, client>>
      /\ work' = [work EXCEPT ![w] = IdleWork]
    BY DEF LoadFailed, NothingToPublish, Stopped, Exit, At
<1>2. PICK s : UpdateState(s)
    BY DEF LoadFailed, NothingToPublish, Stopped
<1>3. /\ meta'.completed = meta.completed /\ ResumePointSound'
    BY <1>1, <1>2, StateOnly DEF ResumeInv
<1>4. \A v \in Workers : work'[v].pc = "idle"
    BY <1>1 DEF ResumeInv, OneWorker, At, TypeInv, TypeOK, IdleWork
<1>5. CallersInv'
    BY <1>1, <1>4 DEF ResumeInv, CallersInv, Drained, AllIdle, At
<1> QED
    BY <1>1, <1>3, <1>4, <1>5, IdleStep DEF ResumeInv

\* A worker is only spawned when all are idle, and then it has read nothing.
LEMMA SpawnStep ==
    ASSUME TypeInv, ResumeInv, Drained, NEW w \in Workers, Spawn(w),
           UNCHANGED <<saved, listFrom, client>>, stage' = "up"
    PROVE  ResumeInv'
<1>1. /\ work'[w].pc = "init" /\ \A v \in Workers \ {w} : work'[v].pc = "idle"
    BY DEF Spawn, Drained, AllIdle, At, TypeInv, TypeOK, Work
<1>2. OneWorker' /\ \A v \in Workers : LoadingInv(v)' /\ PublishingInv(v)'
    BY <1>1 DEF OneWorker, LoadingInv, PublishingInv, At
<1>3. meta'.completed = meta.completed /\ ResumePointSound'
    BY StateOnly DEF ResumeInv, Spawn
<1>4. CallersInv'
    BY DEF CallersInv, Drained
<1> QED
    BY <1>2, <1>3, <1>4 DEF ResumeInv, WholeList

\* A call on the cycle keeps the invariant: Stop changes the state only, and
\* Reset clears the metadata when no worker is left to count in it.
LEMMA ClientStep ==
    ASSUME Orderly, TypeInv, ResumeInv, NEW k \in Clients, Client(k)
    PROVE  ResumeInv'
<1>1. /\ UNCHANGED <<saved, listFrom, work, handle, stage>>
      /\ \A v \in Workers : v \in cancelled => v \in cancelled'
    BY DEF Client, Return, StopCall, StopReturn, ResetCall, ResetStop, ResetClear, Cancel
<1>2. stage = "up"
    BY DEF Client, Return, StopCall, StopReturn, ResetCall, ResetStop, ResetClear,
           MayCall, ResumeInv, CallersInv, Drained
<1>3. CASE ResetClear(k)
    <2>1. AllIdle
        BY <1>3 DEF ResetClear, ResumeInv, CallersInv
    <2>2. \A v \in Workers : work'[v].pc = "idle"
        BY <1>1, <2>1 DEF AllIdle, At
    <2>3. CallersInv'
        BY <1>1, <1>2, <2>2 DEF CallersInv, AllIdle, At
    <2>4. meta'.completed = 0 /\ Covered(meta)' /\ Covered(saved)'
        BY <1>1, <1>3, ItemsType
           DEF ResetClear, EmptyMeta, Covered, ResumePoint, ResumeInv, ResumePointSound
    <2> QED
        BY <1>1, <2>2, <2>3, <2>4, IdleStep DEF ResumeInv, ResumePointSound
<1>4. CASE ~ResetClear(k)
    <2>1. /\ meta'.completed = meta.completed /\ meta'.done = meta.done
          /\ ResumePointSound'
        <3>1. CASE UNCHANGED meta
            BY <1>1, <3>1 DEF ResumeInv, ResumePointSound, Covered, ResumePoint
        <3>2. CASE UpdateState({"stopped"})
            BY <1>1, <3>2, StateOnly DEF ResumeInv
        <3> QED
            BY <1>4, <3>1, <3>2
               DEF Client, Return, StopCall, StopReturn, ResetCall, ResetStop
    <2>2. CallersInv'
        <3>1. \A j \in Clients : client'[j] \in {"reset", "clear"} => AllIdle
            BY <1>4 DEF Client, Return, StopCall, StopReturn, ResetCall, ResetStop,
                        Orderly, Drained, ResumeInv, CallersInv, TypeInv, TypeOK
        <3> QED
            BY <1>1, <1>2, <3>1 DEF CallersInv, AllIdle, At
    <2>3. OneWorker' /\ \A v \in Workers : LoadingInv(v)' /\ PublishingInv(v)'
        BY <1>1, <2>1 DEF ResumeInv, OneWorker, LoadingInv, PublishingInv, At,
                          SkipCovered, WholeList
    <2> QED
        BY <1>1, <2>1, <2>2, <2>3 DEF ResumeInv, WholeList
<1> QED
    BY <1>3, <1>4

\* Every step keeps the invariant.
LEMMA ResumeStep ==
    ASSUME Orderly, TypeInv, ResumeInv, [Next]_vars
    PROVE  ResumeInv'
<1>1. ASSUME NEW w \in Workers, Worker(w) PROVE ResumeInv'
    BY <1>1, LoadingStep, PublishingStep, ExitStep DEF Worker
<1>2. ASSUME NEW w \in Workers, Start(w) PROVE ResumeInv'
    BY <1>2, SpawnStep DEF Start, Orderly, MayCall
<1>3. ASSUME NEW k \in Clients, Client(k) PROVE ResumeInv'
    BY <1>3, ClientStep
<1>4. CASE Boot
    <2>1. \A v \in Workers : work'[v].pc = "idle"
        BY <1>4 DEF Boot, ResumeInv, CallersInv, Drained, AllIdle, At
    <2>2. CallersInv'
        BY <1>4 DEF Boot, ResumeInv, CallersInv, Drained, AllIdle, At
    <2>3. meta'.completed > 0 => WholeList
        BY <1>4 DEF Boot, ResumeInv, NewMeta, EmptyMeta
    <2>4. Covered(meta)' /\ Covered(saved)'
        BY <1>4, ItemsType DEF Boot, ResumeInv, ResumePointSound, Covered, ResumePoint,
                               NewMeta, EmptyMeta
    <2> QED
        BY <1>4, <2>1, <2>2, <2>3, <2>4, IdleStep DEF Boot, ResumeInv, ResumePointSound
<1>5. CASE SchedulerStart
    BY <1>5, SpawnStep DEF SchedulerStart, ResumeInv, CallersInv
<1>6. CASE Save
    BY <1>6 DEF Save, ResumeInv, OneWorker, CallersInv, Drained, AllIdle, LoadingInv,
                PublishingInv, ResumePointSound, Covered, ResumePoint, At,
                SkipCovered, WholeList
<1>7. CASE Crash
    <2>1. \A v \in Workers : work'[v].pc = "idle"
        BY <1>7 DEF Crash, IdleWork
    <2>2. CallersInv'
        BY <1>7, <2>1 DEF Crash, CallersInv, Drained, AllIdle, At
    <2>3. meta'.completed = 0 /\ Covered(meta)' /\ Covered(saved)'
        BY <1>7, ItemsType DEF Crash, ResumeInv, ResumePointSound, Covered,
                               ResumePoint, NewMeta, EmptyMeta
    <2> QED
        BY <1>7, <2>1, <2>2, <2>3, IdleStep DEF Crash, ResumeInv, ResumePointSound
<1>8. CASE UNCHANGED vars
    BY <1>8 DEF vars, ResumeInv, OneWorker, CallersInv, Drained, AllIdle, LoadingInv,
                PublishingInv, ResumePointSound, Covered, ResumePoint, At,
                SkipCovered, WholeList
<1> QED
    BY <1>1, <1>2, <1>3, <1>4, <1>5, <1>6, <1>7, <1>8 DEF Next

\* A worker that finds its list exhausted has attempted every item.
LEMMA PassComplete ==
    ASSUME TypeInv, ResumeInv
    PROVE  PassCoversCollection
<1> SUFFICES ASSUME NEW w \in Workers, At(w, "next"), work[w].next > work[w].last
             PROVE  1..Items \subseteq meta.done
    BY DEF PassCoversCollection
<1>1. 1..(work[w].next - 1) \subseteq meta.done /\ work[w].last = Items
    BY DEF ResumeInv, PublishingInv, At
<1>2. work[w].next \in Nat /\ Items \in Nat
    BY ItemsType DEF TypeInv, TypeOK, Work
<1> QED
    BY <1>1, <1>2

\* With orderly callers and a list that S3 keeps, and whatever crashes,
\* restarts, failed restores and Mongo errors there are, every state satisfies
\* the invariant that ResumePointSound rests on.
THEOREM ResumeInvariant ==
    ASSUME Orderly
    PROVE  Spec => []ResumeInv
<1>1. Init => TypeInv /\ ResumeInv
    <2> SUFFICES ASSUME Init PROVE TypeInv /\ ResumeInv
        OBVIOUS
    <2>1. TypeInv
        BY InitType
    <2>2. Covered(meta) /\ Covered(saved) /\ meta.completed = 0 /\ saved.completed = 0
        BY ItemsType DEF Init, NewMeta, EmptyMeta, Covered, ResumePoint
    <2>3. AllIdle
        BY DEF Init, AllIdle, At, IdleWork
    <2>4. CallersInv /\ OneWorker
        BY <2>3 DEF Init, CallersInv, Drained, OneWorker, AllIdle
    <2>5. \A w \in Workers : LoadingInv(w) /\ PublishingInv(w)
        BY <2>3 DEF AllIdle, LoadingInv, PublishingInv, At
    <2> QED
        BY <2>1, <2>2, <2>4, <2>5 DEF ResumeInv, Init, ResumePointSound
<1>2. TypeInv /\ ResumeInv /\ [Next]_vars => (TypeInv /\ ResumeInv)'
    BY TypeStep, ResumeStep
<1> QED
    BY <1>1, <1>2, PTL DEF Spec

\* Then restarting from the metadata in memory or in S3 skips no item, and one
\* worker at most is at work.
THEOREM ResumeIsSound ==
    ASSUME Orderly
    PROVE  Spec => [](ResumePointSound /\ OneWorker)
<1>1. ResumeInv => ResumePointSound /\ OneWorker
    BY DEF ResumeInv
<1> QED
    BY ResumeInvariant, <1>1, PTL

\* And a pass that ends has attempted every item.
THEOREM PassIsComplete ==
    ASSUME Orderly
    PROVE  Spec => []PassCoversCollection
<1>1. TypeInv /\ [Next]_vars => TypeInv'
    BY TypeStep
<1>2. TypeInv /\ ResumeInv => PassCoversCollection
    BY PassComplete
<1> QED
    BY InitType, ResumeInvariant, <1>1, <1>2, PTL DEF Spec

-----------------------------------------------------------------------------
(* The context, whoever calls and whatever fails. *)

\* A worker's step looks at its context before it publishes.
LEMMA ContextWorker ==
    ASSUME TypeInv, ContextInv, NEW w \in Workers, Worker(w)
    PROVE  ContextInv'
<1>0. /\ work \in [Workers -> Work]
      /\ \A v \in Workers : work[v] \in Work
    BY DEF TypeInv, TypeOK
<1>f. \A v \in Workers \ {w} : work'[v] = work[v] /\ (v \in cancelled => v \in cancelled')
    BY <1>0 DEF Worker, ReadSkip, LoadFromS3, UseCursor, LoadComplete, LoadInterrupted,
       LoadFailed, Persist, Setup, NothingToPublish, Proceed, Stopped, Publish, Record,
       Finish, Loaded, Exit, Goto
<1> DEFINE Good ==
        /\ work'[w].late # 0 => work'[w].late = 1 /\ w \in cancelled'
                                /\ work'[w].pc \in {"record", "queue"}
        /\ work'[w].pc \in {"setup", "queue"} => w \in cancelled' \/ work'[w].last = Items
        /\ work'[w].pc \in {"persist", "next", "record"} => work'[w].last = Items
<1>g. ASSUME Good PROVE ContextInv'
    <2>1. Items' = Items
        BY DEF Items
    <2> QED
        BY <1>f, <1>g, <2>1 DEF ContextInv
<1>1. CASE ReadSkip(w) \/ UseCursor(w) \/ Finish(w)
    <2>1. work[w].late = 0
        BY <1>1 DEF ReadSkip, UseCursor, Finish, At, ContextInv
    <2>2. work'[w].late = work[w].late /\ work'[w].pc \in {"load", "cursor"}
        BY <1>0, <1>1 DEF ReadSkip, UseCursor, Finish, Work
    <2> QED
        BY <1>g, <2>1, <2>2
<1>2. CASE LoadFromS3(w) \/ LoadComplete(w)
    <2>1. work[w].late = 0
        BY <1>2 DEF LoadFromS3, LoadComplete, At, ContextInv
    <2>2. /\ work'[w].late = work[w].late /\ work'[w].pc \in {"setup", "persist"}
          /\ work'[w].last = Items
        BY <1>0, <1>2 DEF LoadFromS3, LoadComplete, Loaded, Work
    <2> QED
        BY <1>g, <2>1, <2>2
<1>3. CASE LoadInterrupted(w)
    <2>1. work[w].late = 0 /\ w \in cancelled /\ cancelled' = cancelled
        BY <1>3 DEF LoadInterrupted, At, ContextInv
    <2>2. work'[w].late = work[w].late /\ work'[w].pc = "setup"
        BY <1>0, <1>3 DEF LoadInterrupted, Loaded, Work
    <2> QED
        BY <1>g, <2>1, <2>2
<1>4. CASE LoadFailed(w) \/ NothingToPublish(w) \/ Stopped(w)
    <2>1. work'[w] = IdleWork
        BY <1>0, <1>4 DEF LoadFailed, NothingToPublish, Stopped, Exit
    <2> QED
        BY <1>g, <2>1 DEF IdleWork
<1>5. CASE Persist(w) \/ Setup(w)
    <2>1. /\ work[w].pc \in {"persist", "setup"} /\ work[w].late = 0 /\ cancelled' = cancelled
          /\ w \in cancelled \/ work[w].last = Items
        BY <1>5 DEF Persist, Setup, At, ContextInv
    <2>2. /\ work'[w].late = work[w].late /\ work'[w].last = work[w].last
          /\ work'[w].pc \in {"setup", "empty", "queue"}
        BY <1>0, <1>5 DEF Persist, Setup, Goto, Work
    <2> QED
        BY <1>g, <2>1, <2>2
<1>6. CASE Proceed(w)
    <2>1. w \notin cancelled /\ work[w].late = 0 /\ work[w].last = Items
        BY <1>6 DEF Proceed, At, ContextInv
    <2>2. /\ work'[w].late = work[w].late /\ work'[w].last = work[w].last
          /\ work'[w].pc = "next"
        BY <1>0, <1>6 DEF Proceed, Goto, Work
    <2> QED
        BY <1>g, <2>1, <2>2
<1>7. CASE Publish(w)
    <2>1. work[w].late = 0 /\ work[w].last = Items /\ cancelled' = cancelled
        BY <1>7 DEF Publish, At, ContextInv
    <2>2. /\ work'[w].late = (IF w \in cancelled THEN 1 ELSE 0)
          /\ work'[w].last = work[w].last /\ work'[w].pc = "record"
        BY <1>0, <1>7, <2>1 DEF Publish, Work
    <2> QED
        BY <1>g, <2>1, <2>2
<1>8. CASE Record(w)
    <2>1. /\ work[w].last = Items /\ cancelled' = cancelled
          /\ work[w].late # 0 => work[w].late = 1 /\ w \in cancelled
        BY <1>8 DEF Record, At, ContextInv
    <2>2. /\ work'[w].late = work[w].late /\ work'[w].last = work[w].last
          /\ work'[w].pc = "queue"
        BY <1>0, <1>8 DEF Record, Work
    <2> QED
        BY <1>g, <2>1, <2>2
<1> QED
    BY <1>1, <1>2, <1>3, <1>4, <1>5, <1>6, <1>7, <1>8 DEF Worker

\* Every step keeps it: whoever cancels a context leaves the worker where it is.
LEMMA ContextStep ==
    ASSUME TypeInv, ContextInv, [Next]_vars
    PROVE  ContextInv'
<1>0. work \in [Workers -> Work] /\ Items' = Items
    BY DEF TypeInv, TypeOK, Items
<1>1. ASSUME NEW w \in Workers, Worker(w) PROVE ContextInv'
    BY <1>1, ContextWorker
<1>2. ASSUME NEW w \in Workers, Spawn(w), UNCHANGED cancelled PROVE ContextInv'
    BY <1>0, <1>2 DEF Spawn, At, ContextInv
<1>3. CASE UNCHANGED work /\ cancelled \subseteq cancelled'
    BY <1>0, <1>3 DEF ContextInv
<1>4. CASE Crash
    BY <1>4 DEF Crash, IdleWork, ContextInv
<1> QED
    BY <1>1, <1>2, <1>3, <1>4 DEF Next, Start, SchedulerStart, Client, Return, StopCall,
       StopReturn, ResetCall, ResetStop, ResetClear, Cancel, Boot, Save, vars

\* However workers overlap, and whatever fails: a cancelled worker attempts one
\* more item at most, and a list cut short by a cancellation is never consumed.
THEOREM CancelledIsPrompt == Spec => [](AtMostOneLateAttempt /\ ShortListUnused)
<1>1. Init => ContextInv
    BY DEF Init, IdleWork, ContextInv
<1>2. TypeInv /\ ContextInv => AtMostOneLateAttempt /\ ShortListUnused
    BY DEF TypeInv, TypeOK, Work, ContextInv, AtMostOneLateAttempt, ShortListUnused
<1>3. TypeInv /\ [Next]_vars => TypeInv'
    BY TypeStep
<1>4. TypeInv /\ ContextInv /\ [Next]_vars => ContextInv'
    BY ContextStep
<1> QED
    BY InitType, <1>1, <1>2, <1>3, <1>4, PTL DEF Spec

\* Nothing of a list that a cancellation cut short is published, whoever cancels.
THEOREM ShortListsAreDropped == Spec => []ShortListUnused
BY CancelledIsPrompt, PTL
=============================================================================
