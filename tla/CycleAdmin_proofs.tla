--------------------------- MODULE CycleAdmin_proofs ---------------------------
(***************************************************************************)
(* What holds of CycleAdmin for every configuration, every collection and   *)
(* every number of cycles, goroutines and callers, however they overlap.    *)
(***************************************************************************)
EXTENDS CycleAdmin, TLAPS

-----------------------------------------------------------------------------
(* Configurations. *)

\* The cycle made of a valid configuration has its type, and is itself a valid
\* configuration when it is throttled.
LEMMA NewCycleValid ==
    ASSUME NEW c \in Config, Validate(c)
    PROVE  /\ NewCycle(c) \in Config
           /\ NewCycle(c).type = c.type
           /\ IsThrottled(NewCycle(c)) => Validate(NewCycle(c))
<1>1. ParseDuration(c.coolDown) \in Times /\ ParseDuration(c.throttle) \in Times
      /\ ParseDuration(c.timeWindow) \in Times /\ ParseDuration(c.minimumThrottle) \in Times
      /\ ParseDuration(c.maximumThrottle) \in Times /\ DefaultThrottle \in Times
    BY TimesAssumption DEF ParseDuration
<1>2. CASE IsThrottled(c)
    BY <1>1, <1>2 DEF NewCycle, Config, Durations, IsThrottled, IsScaling, Validate, CheckDurations
<1>3. CASE ~IsThrottled(c)
    BY <1>1, <1>3 DEF NewCycle, Config, Durations, IsThrottled, IsScaling, Validate, CheckDurations
<1> QED
    BY <1>2, <1>3

\* The configuration of a throttled cycle, with another throttle, is valid: the
\* configuration that was taken when the cycle was made is taken again.
LEMMA RetunedValid ==
    ASSUME NEW c \in Config, IsThrottled(c), Validate(c), NEW d \in Times
    PROVE  LET e == [TransformToConfig(c) EXCEPT !.throttle = d]
           IN  e \in Config /\ Validate(e) /\ IsThrottled(e)
BY DEF TransformToConfig, Config, Durations, IsThrottled, IsScaling, Validate, CheckDurations

-----------------------------------------------------------------------------
(* Types of what the steps build. *)

LEMMA ConstantTypes ==
    /\ EmptyMeta \in Meta /\ MixedMeta \in Meta /\ MixedMeta.mixed
    /\ Covered(EmptyMeta) /\ Covered(MixedMeta)
    /\ NoCycle \in Cycle /\ IdleWork \in Work /\ IdleThread \in Thread
<1>1. EmptyMeta = [completed |-> 0, done |-> {}, mixed |-> FALSE]
    BY DEF EmptyMeta
<1>2. MixedMeta = [completed |-> 0, done |-> {}, mixed |-> TRUE]
    BY DEF MixedMeta
<1>3. EmptyMeta \in Meta /\ MixedMeta \in Meta
    BY <1>1, <1>2, ItemsAssumption DEF Meta
<1>4. MixedMeta.mixed = TRUE /\ EmptyMeta.completed = 0
    BY <1>1, <1>2
<1>5. 1..0 \subseteq EmptyMeta.done
    OBVIOUS
<1>6. NoCycle \in Cycle /\ IdleWork \in Work /\ IdleThread \in Thread
    BY <1>3, ItemsAssumption DEF NoCycle, Cycle, IdleWork, Work, IdleThread, Thread
<1> QED
    BY <1>3, <1>4, <1>5, <1>6 DEF Covered

\* What a goroutine counts keeps to what it attempted.
LEMMA ProgressType ==
    ASSUME NEW m \in Meta, NEW S \in SUBSET (1..Items)
    PROVE  /\ Progress(m, S) \in Meta
           /\ m.mixed => Progress(m, S) = m
           /\ ~m.mixed /\ Progress(m, S).completed < Items =>
                  /\ m.completed < Items
                  /\ Progress(m, S).completed = m.completed + 1
                  /\ Progress(m, S).done = m.done \union S
<1>1. CASE m.mixed
    BY <1>1 DEF Progress
<1>2. CASE ~m.mixed /\ m.completed + 1 < Items
    <2>1. Progress(m, S) = [m EXCEPT !.completed = @ + 1, !.done = @ \union S]
        BY <1>2 DEF Progress
    <2>2. m.completed \in 0..Items /\ m.done \in SUBSET (1..Items)
        BY DEF Meta
    <2>3. m.completed + 1 \in 0..Items /\ m.completed < Items
        BY <1>2, <2>2, ItemsAssumption
    <2>4. m.done \union S \in SUBSET (1..Items)
        BY <2>2
    <2> QED
        BY <1>2, <2>1, <2>3, <2>4 DEF Meta
<1>3. CASE ~m.mixed /\ ~(m.completed + 1 < Items)
    <2>1. Progress(m, S) = [completed |-> Items, done |-> {}, mixed |-> FALSE]
        BY <1>3 DEF Progress
    <2>2. Items \in 0..Items
        BY ItemsAssumption
    <2> QED
        BY <1>3, <2>1, <2>2, ItemsAssumption DEF Meta
<1> QED
    BY <1>1, <1>2, <1>3

\* A goroutine that runs has a cycle.
LEMMA Working ==
    ASSUME TypeOK, GoroutineInv, NEW w \in Workers, ~At(w, "idle")
    PROVE  /\ work[w].of \in Objects /\ ~Fresh(work[w].of)
           /\ MetaOf(w) \in Meta /\ work[w].next \in 1..(Items + 1)
<1>1. work[w].of # None /\ ~Fresh(work[w].of)
    BY DEF GoroutineInv
<1>2. work[w].of \in Objects \union {None} /\ work[w].next \in 1..(Items + 1)
    BY DEF TypeOK, Work
<1>3. cycle[work[w].of] \in Cycle
    BY <1>1, <1>2 DEF TypeOK
<1> QED
    BY <1>1, <1>2, <1>3 DEF MetaOf, Cycle

\* The items before the next one, and it, are the items up to it.
LEMMA OneMore ==
    ASSUME NEW n \in Nat, NEW S, 1..(n - 1) \subseteq S
    PROVE  1..n \subseteq S \union {n}
OBVIOUS

-----------------------------------------------------------------------------
(* A goroutine's step. *)

\* The other goroutines that publish a cycle either count in mixed metadata or have
\* it to themselves.
Undisturbed(w, o) ==
    \A v \in Workers : v # w /\ At(v, "queue") /\ work[v].of = o =>
        cycle'[o].meta.mixed \/ (~At(w, "queue")' /\ cycle'[o].meta = cycle[o].meta)

\* A step that writes the metadata of one cycle only, and keeps what it counts to
\* what was attempted.
OnlyMeta(o) ==
    /\ cycle' \in [Objects -> Cycle]
    /\ \A x \in Objects : cycle'[x].config = cycle[x].config
    /\ \A x \in Objects : x # o => cycle'[x] = cycle[x]
    /\ Covered(cycle'[o].meta)

LEMMA MetaStep ==
    ASSUME TypeOK, NEW o \in Objects, NEW n \in Meta, Covered(n),
           cycle' = [cycle EXCEPT ![o].meta = n]
    PROVE  OnlyMeta(o) /\ cycle'[o].meta = n
BY DEF TypeOK, Cycle, OnlyMeta

LEMMA NoMetaStep ==
    ASSUME AdminInv, NEW o \in Objects, cycle' = cycle
    PROVE  OnlyMeta(o)
BY DEF AdminInv, TypeOK, NothingSkipped, OnlyMeta

\* A goroutine that goes on and changes the metadata of its cycle only.
LEMMA GoesOn ==
    ASSUME AdminInv, NEW w \in Workers, NEW r \in Work,
           ~At(w, "idle"), r.pc # "idle", r.of = work[w].of,
           work' = [work EXCEPT ![w] = r],
           OnlyMeta(r.of), Undisturbed(w, r.of),
           r.pc = "queue" /\ ~cycle'[r.of].meta.mixed /\ cycle'[r.of].meta.completed < Items =>
               /\ 1..(r.next - 1) \subseteq cycle'[r.of].meta.done
               /\ r.next = cycle'[r.of].meta.completed + 1,
           UNCHANGED <<file, mode, current, cancel, cancelled, saved, thread, halted, revived,
                       wanted>>
    PROVE  AdminInv'
<1>1. r.of \in Objects /\ work'[w] = r
      /\ \A v \in Workers : v # w => work'[v] = work[v]
    BY Working DEF AdminInv, TypeOK
<1>2. TypeOK'
    BY DEF AdminInv, TypeOK, OnlyMeta
<1>3. \A v \in Workers : /\ At(v, "idle")' <=> At(v, "idle")
                         /\ work'[v].of = work[v].of
    BY <1>1 DEF At
<1>4. \A v \in Workers : ~At(v, "idle") => work[v].of \in Objects
    BY Working DEF AdminInv
<1>5. \A x \in Objects : Fresh(x)' <=> Fresh(x)
    BY DEF Fresh, OnlyMeta
<1>6. GoroutineInv'
    <2>1. \A v \in Workers : /\ At(v, "idle")' <=> work'[v].of = None
                             /\ At(v, "idle")' => v \notin cancelled'
                             /\ ~At(v, "idle")' => ~Fresh(work[v].of)'
        <3>1. \A v \in Workers : ~At(v, "idle") => ~Fresh(work[v].of)'
            BY <1>4, <1>5, <1>3 DEF AdminInv, GoroutineInv, Fresh
        <3> QED
            BY <1>3, <3>1 DEF AdminInv, GoroutineInv
    <2>2. ASSUME NEW v \in Workers, v # w, At(v, "queue")'
          PROVE  /\ At(v, "queue") /\ work'[v] = work[v] /\ work[v].of \in Objects
                 /\ \/ MetaOf(v)'.mixed
                    \/ MetaOf(v)' = MetaOf(v) /\ (work[v].of = r.of => r.pc # "queue")
        <3>1. At(v, "queue") /\ work'[v] = work[v] /\ work[v].of \in Objects
            BY <1>1, <1>4, <2>2 DEF At
        <3>2. CASE work[v].of = r.of
            BY <1>1, <2>2, <3>1, <3>2 DEF Undisturbed, MetaOf, At
        <3>3. CASE work[v].of # r.of
            BY <3>1, <3>3 DEF OnlyMeta, MetaOf
        <3> QED
            BY <3>1, <3>2, <3>3
    <2>3. ASSUME NEW v \in Workers, At(v, "queue")', ~MetaOf(v)'.mixed,
                 MetaOf(v)'.completed < Items
          PROVE  /\ 1..(work'[v].next - 1) \subseteq MetaOf(v)'.done
                 /\ work'[v].next = MetaOf(v)'.completed + 1
        <3>1. CASE v = w
            BY <1>1, <2>3, <3>1 DEF At, MetaOf
        <3>2. CASE v # w
            BY <2>2, <2>3, <3>2 DEF AdminInv, GoroutineInv
        <3> QED
            BY <3>1, <3>2
    <2>4. ASSUME NEW u \in Workers, NEW v \in Workers, u # v,
                 At(u, "queue")', At(v, "queue")', work'[u].of = work'[v].of
          PROVE  MetaOf(v)'.mixed
        <3>1. MetaOf(u)' = MetaOf(v)'
            BY <2>4 DEF MetaOf
        <3>2. CASE u = w
            BY <1>1, <2>2, <2>4, <3>2 DEF At
        <3>3. CASE v = w
            BY <1>1, <2>2, <2>4, <3>1, <3>3 DEF At
        <3>4. CASE u # w /\ v # w
            BY <2>2, <2>4, <3>4 DEF AdminInv, GoroutineInv
        <3> QED
            BY <3>2, <3>3, <3>4
    <2>5. \A o \in Objects : cancel'[o] # None => work'[cancel'[o]].of = o
        <3>1. \A o \in Objects : cancel[o] # None => cancel[o] \in Workers
            BY DEF AdminInv, TypeOK
        <3> QED
            BY <1>3, <3>1 DEF AdminInv, GoroutineInv
    <2> QED
        BY <2>1, <2>3, <2>4, <2>5 DEF GoroutineInv
<1>7. ThreadInv'
    BY DEF AdminInv, ThreadInv, Fresh, OnlyMeta
<1>8. CycleInv'
    <2>1. mode # "down"
        BY DEF AdminInv, CycleInv
    <2> QED
        BY <2>1 DEF AdminInv, CycleInv, Fresh, TypeOK, OnlyMeta
<1>9. NothingSkipped'
    BY <1>1 DEF AdminInv, NothingSkipped, OnlyMeta
<1>10. CycleStays' /\ LiveWorkersAreCurrent' /\ CurrentRuns'
    BY <1>3 DEF AdminInv, CycleStays, LiveWorkersAreCurrent, CurrentRuns
<1> QED
    BY <1>2, <1>6, <1>7, <1>8, <1>9, <1>10 DEF AdminInv

\* A goroutine that returns, its cancelled context or its failure known.
LEMMA Leaves ==
    ASSUME AdminInv, NEW w \in Workers, ~At(w, "idle"), Exit(w),
           OnlyMeta(work[w].of), Undisturbed(w, work[w].of),
           halted' \in SUBSET Objects, halted \subseteq halted',
           w \in cancelled \/ \A o \in Objects : cancel[o] = w => o \in halted'
    PROVE  AdminInv'
<1> DEFINE held == work[w].of
<1>1. held \in Objects
    BY Working DEF AdminInv
<1>2. /\ work'[w] = IdleWork /\ \A v \in Workers : v # w => work'[v] = work[v]
      /\ work' \in [Workers -> Work]
      /\ cancelled' = cancelled \ {w}
      /\ UNCHANGED <<file, mode, current, saved, thread, revived, wanted>>
    BY ConstantTypes DEF Exit, AdminInv, TypeOK
<1>3. /\ cancel' \in [Objects -> Workers \union {None}]
      /\ \A o \in Objects : cancel[o] # w => cancel'[o] = cancel[o]
      /\ \A o \in Objects : cancel'[o] # w
      /\ \A o \in Objects : cancel'[o] \in {cancel[o], None}
    <2>1. cancel' = [cancel EXCEPT ![held] = IF @ = w THEN None ELSE @]
          /\ cancel \in [Objects -> Workers \union {None}]
        BY DEF Exit, AdminInv, TypeOK
    <2>2. \A o \in Objects : cancel[o] = w => o = held
        BY NoneAssumption DEF AdminInv, GoroutineInv
    <2> QED
        BY <1>1, <2>1, <2>2, NoneAssumption
<1>4. TypeOK'
    BY <1>2, <1>3 DEF AdminInv, TypeOK, OnlyMeta
<1>5. \A x \in Objects : Fresh(x)' <=> Fresh(x)
    BY DEF Fresh, OnlyMeta
<1>6. \A v \in Workers : ~At(v, "idle")' => v # w /\ work'[v] = work[v] /\ ~At(v, "idle")
                                            /\ work[v].of \in Objects
    BY <1>2, Working DEF At, IdleWork, AdminInv
<1>7. GoroutineInv'
    <2>1. \A v \in Workers : /\ At(v, "idle")' <=> work'[v].of = None
                             /\ At(v, "idle")' => v \notin cancelled'
                             /\ ~At(v, "idle")' => ~Fresh(work[v].of)'
        <3>1. \A v \in Workers : ~At(v, "idle")' => ~Fresh(work[v].of)'
            BY <1>5, <1>6 DEF AdminInv, GoroutineInv, Fresh
        <3>2. \A v \in Workers : /\ At(v, "idle")' <=> work'[v].of = None
                                 /\ At(v, "idle")' => v \notin cancelled'
            BY <1>2 DEF AdminInv, GoroutineInv, At, IdleWork
        <3> QED
            BY <3>1, <3>2
    <2>2. ASSUME NEW v \in Workers, At(v, "queue")'
          PROVE  /\ v # w /\ At(v, "queue") /\ work'[v] = work[v]
                 /\ MetaOf(v)'.mixed \/ MetaOf(v)' = MetaOf(v)
        <3>1. ~At(v, "idle")'
            BY <2>2 DEF At
        <3>2. v # w /\ At(v, "queue") /\ work'[v] = work[v] /\ work[v].of \in Objects
            BY <1>6, <2>2, <3>1 DEF At
        <3>3. CASE work[v].of = held
            BY <3>2, <3>3 DEF Undisturbed, MetaOf
        <3>4. CASE work[v].of # held
            BY <3>2, <3>4 DEF OnlyMeta, MetaOf
        <3> QED
            BY <3>2, <3>3, <3>4
    <2>3. \A v \in Workers :
              At(v, "queue")' /\ ~MetaOf(v)'.mixed /\ MetaOf(v)'.completed < Items =>
                  /\ 1..(work'[v].next - 1) \subseteq MetaOf(v)'.done
                  /\ work'[v].next = MetaOf(v)'.completed + 1
        BY <2>2 DEF AdminInv, GoroutineInv
    <2>4. \A u, v \in Workers : At(u, "queue")' /\ At(v, "queue")' /\ work'[u].of = work'[v].of
              => u = v \/ MetaOf(v)'.mixed
        BY <2>2 DEF AdminInv, GoroutineInv
    <2>5. ASSUME NEW o \in Objects, cancel'[o] # None
          PROVE  work'[cancel'[o]].of = o
        <3>1. cancel'[o] = cancel[o] /\ cancel[o] # w /\ cancel[o] \in Workers
            BY <1>3, <2>5 DEF AdminInv, TypeOK
        <3> QED
            BY <1>2, <2>5, <3>1 DEF AdminInv, GoroutineInv
    <2> QED
        BY <2>1, <2>3, <2>4, <2>5 DEF GoroutineInv
<1>8. ThreadInv'
    BY <1>2 DEF AdminInv, ThreadInv, Fresh, OnlyMeta
<1>9. CycleInv'
    <2>1. mode # "down"
        BY DEF AdminInv, CycleInv
    <2> QED
        BY <1>2, <2>1 DEF AdminInv, CycleInv, Fresh, TypeOK, OnlyMeta
<1>10. NothingSkipped' /\ CycleStays'
    BY <1>1, <1>2 DEF AdminInv, NothingSkipped, CycleStays, OnlyMeta
<1>11. LiveWorkersAreCurrent'
    <2>1. ASSUME NEW v \in Workers, ~At(v, "idle")', v \notin cancelled',
                 cancel'[work'[v].of] = v
          PROVE  work'[v].of \in {current} \union revived
        <3>1. v # w /\ work'[v] = work[v] /\ ~At(v, "idle") /\ work[v].of \in Objects
            BY <1>6, <2>1
        <3>2. cancel[work[v].of] = v
            BY <1>3, <2>1, <3>1, NoneAssumption
        <3>3. v \notin cancelled
            BY <1>2, <2>1, <3>1
        <3> QED
            BY <3>1, <3>2, <3>3 DEF AdminInv, LiveWorkersAreCurrent
    <2> QED
        BY <1>2, <2>1 DEF LiveWorkersAreCurrent
<1>12. CurrentRuns'
    <2>1. ASSUME mode = "running", current # None, current \notin halted'
          PROVE  \E v \in Workers : /\ cancel'[current] = v /\ work'[v].of = current
                                    /\ v \notin cancelled'
        <3>1. PICK v \in Workers : /\ cancel[current] = v /\ work[v].of = current
                                   /\ v \notin cancelled
            BY <2>1 DEF AdminInv, CurrentRuns
        <3>2. current \in Objects
            BY <2>1 DEF AdminInv, TypeOK
        <3>3. v # w
            BY <2>1, <3>1, <3>2
        <3> QED
            BY <1>2, <1>3, <3>1, <3>2, <3>3
    <2> QED
        BY <1>2, <2>1 DEF CurrentRuns
<1> QED
    BY <1>4, <1>7, <1>8, <1>9, <1>10, <1>11, <1>12 DEF AdminInv

\* What an iteration begins with counts only what was attempted, and is mixed when
\* another goroutine counts in it.
LEMMA BeginMetaSound ==
    ASSUME AdminInv, NEW w \in Workers, work[w].pc \in {"first", "again"},
           NEW skip \in Skips(w)
    PROVE  LET n == BeginMeta(w, skip)
           IN  /\ n \in Meta /\ Covered(n) /\ From(skip) \in 0..(Items - 1)
               /\ Publishing(work[w].of) # {} => n.mixed
               /\ ~n.mixed /\ n.completed < Items =>
                      1..From(skip) \subseteq n.done /\ From(skip) = n.completed
<1> DEFINE m == MetaOf(w)
<1>1. ~At(w, "idle")
    BY DEF At
<1>2. m \in Meta /\ Covered(m)
    BY <1>1, Working DEF AdminInv, NothingSkipped, MetaOf
<1>3. skip \in 0..Items /\ (~m.mixed /\ From(skip) > 0 => skip = m.completed)
    BY <1>2, ItemsAssumption DEF Skips, From, Meta
<1>4. /\ From(skip) \in 0..(Items - 1) /\ (skip < Items => From(skip) = skip)
      /\ (skip >= Items => From(skip) = 0)
    BY <1>3, ItemsAssumption DEF From
<1>5. CASE Publishing(work[w].of) # {} \/ (m.mixed /\ From(skip) > 0)
    BY <1>4, <1>5, ConstantTypes DEF BeginMeta
<1>6. CASE ~(Publishing(work[w].of) # {} \/ (m.mixed /\ From(skip) > 0))
    <2> DEFINE n == [completed |-> skip, mixed |-> FALSE,
                     done |-> IF From(skip) = 0 THEN {} ELSE m.done]
    <2>1. BeginMeta(w, skip) = n
        BY <1>6 DEF BeginMeta
    <2>2. n \in Meta
        BY <1>2, <1>3 DEF Meta
    <2>3. skip < Items => 1..skip \subseteq n.done
        <3>1. CASE From(skip) = 0
            BY <1>3, <1>4, <3>1, ItemsAssumption
        <3>2. CASE From(skip) > 0
            BY <1>2, <1>3, <1>4, <1>6, <3>2, ItemsAssumption DEF Covered, Meta
        <3> QED
            BY <1>4, <3>1, <3>2
    <2>4. n.completed = skip /\ ~n.mixed
        OBVIOUS
    <2> HIDE DEF n
    <2>5. Covered(n) /\ (n.completed < Items => 1..From(skip) \subseteq n.done
                                                /\ From(skip) = n.completed)
        BY <1>3, <1>4, <2>3, <2>4, ItemsAssumption DEF Covered
    <2> QED
        BY <1>4, <1>6, <2>1, <2>2, <2>5
<1> QED
    BY <1>5, <1>6

LEMMA BeginStep ==
    ASSUME AdminInv, NEW w \in Workers, Begin(w)
    PROVE  AdminInv'
<1> DEFINE o == work[w].of
<1>1. /\ ~At(w, "idle") /\ o \in Objects /\ ~At(w, "queue")
      /\ work \in [Workers -> Work] /\ work[w] \in Work
      /\ work[w].pc \in {"first", "again"}
    BY Working DEF Begin, At, AdminInv, TypeOK
<1>2. UNCHANGED <<file, mode, current, cancel, cancelled, saved, thread, halted, revived, wanted>>
    BY DEF Begin
<1>3. CASE IsThrottled(cycle[o].config)
    <2>1. PICK skip \in Skips(w) :
              /\ work' = [work EXCEPT ![w].pc = "queue", ![w].next = From(skip) + 1]
              /\ SetMeta(w, BeginMeta(w, skip))
        BY <1>3 DEF Begin
    <2> DEFINE n == BeginMeta(w, skip)
               r == [work[w] EXCEPT !.pc = "queue", !.next = From(skip) + 1]
    <2>2. /\ n \in Meta /\ Covered(n) /\ From(skip) \in 0..(Items - 1)
          /\ Publishing(o) # {} => n.mixed
          /\ ~n.mixed /\ n.completed < Items =>
                 1..From(skip) \subseteq n.done /\ From(skip) = n.completed
        BY <1>1, BeginMetaSound
    <2>3. r \in Work /\ r.pc = "queue" /\ r.of = o /\ r.next = From(skip) + 1
          /\ work' = [work EXCEPT ![w] = r]
        <3>1. From(skip) + 1 \in 1..(Items + 1) /\ From(skip) + 1 - 1 = From(skip)
            BY <2>2, ItemsAssumption
        <3>2. r \in Work /\ r.pc = "queue" /\ r.of = o /\ r.next = From(skip) + 1
            BY <1>1, <3>1 DEF Work
        <3>3. work' = [work EXCEPT ![w] = r]
            BY <1>1, <2>1
        <3> QED
            BY <3>2, <3>3
    <2> HIDE DEF n, r
    <2>4. OnlyMeta(o) /\ cycle'[o].meta = n
        BY <1>1, <2>1, <2>2, MetaStep DEF SetMeta, AdminInv, n
    <2>5. Undisturbed(w, o)
        BY <2>2, <2>4 DEF Undisturbed, Publishing
    <2>6. r.next - 1 = From(skip)
        BY <2>2, <2>3, ItemsAssumption
    <2> QED
        BY <1>1, <1>2, <2>2, <2>3, <2>4, <2>5, <2>6, GoesOn
<1>4. CASE ~IsThrottled(cycle[o].config)
    <2> DEFINE r == [work[w] EXCEPT !.pc = "window"]
    <2>1. r \in Work /\ r.pc = "window" /\ r.of = o
        BY <1>1 DEF Work
    <2>2. work' = [work EXCEPT ![w] = r] /\ cycle' = cycle
        BY <1>1, <1>4 DEF Begin
    <2>3. At(w, "window")'
        BY <1>1, <2>1, <2>2 DEF At
    <2> HIDE DEF r
    <2>4. OnlyMeta(o) /\ Undisturbed(w, o)
        BY <1>1, <2>2, <2>3, NoMetaStep DEF Undisturbed, At
    <2> QED
        BY <1>1, <1>2, <2>1, <2>2, <2>4, GoesOn
<1> QED
    BY <1>3, <1>4

\* Publish and Finish: the goroutine counts one more.
LEMMA CountStep ==
    ASSUME AdminInv, NEW w \in Workers, At(w, "queue"), NEW S \in SUBSET (1..Items),
           NEW r \in Work, r.of = work[w].of, work' = [work EXCEPT ![w] = r],
           SetMeta(w, Progress(MetaOf(w), S)),
           \/ r.pc = "queue" /\ S = {work[w].next} /\ r.next = work[w].next + 1
           \/ r.pc = "again" /\ S = {} /\ work[w].next > Items,
           UNCHANGED <<file, mode, current, cancel, cancelled, saved, thread, halted, revived,
                       wanted>>
    PROVE  AdminInv'
<1> DEFINE o == work[w].of
           m == MetaOf(w)
           n == Progress(m, S)
           k == work[w].next
<1>1. ~At(w, "idle") /\ o \in Objects /\ m \in Meta /\ k \in 1..(Items + 1)
    <2>1. ~At(w, "idle")
        BY DEF At
    <2> QED
        BY <2>1, Working DEF AdminInv
<1>2. /\ n \in Meta /\ (m.mixed => n = m)
      /\ ~m.mixed /\ n.completed < Items =>
             /\ m.completed < Items /\ n.completed = m.completed + 1
             /\ n.done = m.done \union S
    BY <1>1, ProgressType
<1>3. ~m.mixed /\ m.completed < Items => k = m.completed + 1 /\ 1..(k - 1) \subseteq m.done
    BY DEF AdminInv, GoroutineInv
<1>4. ~m.mixed /\ n.completed < Items => n.completed = k /\ 1..k \subseteq n.done
    <2>1. SUFFICES ASSUME ~m.mixed, n.completed < Items
                   PROVE  n.completed = k /\ 1..k \subseteq n.done
        OBVIOUS
    <2>2. n.completed = k /\ 1..(k - 1) \subseteq m.done /\ n.done = m.done \union S
        BY <1>2, <1>3, <2>1
    <2>3. S = {k}
        BY <1>1, <2>1, <2>2, ItemsAssumption
    <2> HIDE DEF n, m
    <2> QED
        BY <1>1, <2>2, <2>3, OneMore
<1>5. Covered(n)
    <2>1. n.completed \in Nat /\ n.mixed \in BOOLEAN /\ m.mixed \in BOOLEAN
        BY <1>1, <1>2 DEF Meta
    <2>2. CASE m.mixed
        BY <1>2, <2>2 DEF Covered
    <2>3. CASE ~m.mixed
        BY <1>4, <2>1, <2>3, ItemsAssumption DEF Covered
    <2> QED
        BY <2>1, <2>2, <2>3
<1> HIDE DEF n
<1>6. OnlyMeta(o) /\ cycle'[o].meta = n
    BY <1>1, <1>2, <1>5, MetaStep DEF SetMeta, AdminInv, n
<1>7. Undisturbed(w, o)
    <2>1. ASSUME NEW v \in Workers, v # w, At(v, "queue"), work[v].of = o
          PROVE  n.mixed
        <3>1. m.mixed
            BY <2>1 DEF AdminInv, GoroutineInv
        <3> QED
            BY <1>2, <3>1
    <2> QED
        BY <1>6, <2>1 DEF Undisturbed
<1>8. r.pc = "queue" /\ ~n.mixed /\ n.completed < Items =>
          1..(r.next - 1) \subseteq n.done /\ r.next = n.completed + 1
    <2>1. SUFFICES ASSUME r.pc = "queue", ~n.mixed, n.completed < Items
                   PROVE  1..(r.next - 1) \subseteq n.done /\ r.next = n.completed + 1
        OBVIOUS
    <2>2. ~m.mixed
        BY <1>2, <2>1
    <2>3. n.completed = k /\ 1..k \subseteq n.done /\ r.next = k + 1
        BY <1>4, <2>1, <2>2
    <2>4. r.next - 1 = k
        BY <1>1, <2>3
    <2> QED
        BY <2>3, <2>4
<1> QED
    BY <1>1, <1>6, <1>7, <1>8, GoesOn

LEMMA WorkerStep ==
    ASSUME AdminInv, NEW w \in Workers, Worker(w)
    PROVE  AdminInv'
<1> DEFINE o == work[w].of
<1>0. work \in [Workers -> Work] /\ work[w] \in Work
    BY DEF AdminInv, TypeOK
<1>1. CASE Publish(w)
    <2> DEFINE r == [work[w] EXCEPT !.next = @ + 1]
    <2>1. At(w, "queue") /\ work[w].next <= Items /\ work[w].next \in 1..(Items + 1)
        BY <1>0, <1>1 DEF Publish, Work
    <2>2. work[w].next \in 1..Items /\ work[w].next + 1 \in 1..(Items + 1)
        BY <2>1, ItemsAssumption
    <2>3. r \in Work /\ r.of = o /\ r.pc = "queue" /\ r.next = work[w].next + 1
          /\ work' = [work EXCEPT ![w] = r]
        BY <1>0, <1>1, <2>1, <2>2 DEF Work, At, Publish
    <2>4. SetMeta(w, Progress(MetaOf(w), {work[w].next}))
          /\ UNCHANGED <<file, mode, current, cancel, cancelled, saved, thread, halted, revived,
                         wanted>>
        BY <1>1 DEF Publish
    <2> HIDE DEF r
    <2> QED
        <3> DEFINE S == {work[w].next}
        <3>1. S \in SUBSET (1..Items)
            BY <2>2
        <3>2. SetMeta(w, Progress(MetaOf(w), S)) /\ S = {work[w].next}
            BY <2>4
        <3> HIDE DEF S
        <3>3. \/ r.pc = "queue" /\ S = {work[w].next} /\ r.next = work[w].next + 1
              \/ r.pc = "again" /\ S = {} /\ work[w].next > Items
            BY <2>3, <3>2
        <3>4. r \in Work /\ r.of = work[w].of /\ work' = [work EXCEPT ![w] = r]
            BY <2>3
        <3>5. UNCHANGED <<file, mode, current, cancel, cancelled, saved, thread, halted, revived,
                          wanted>>
            BY <2>4
        <3> QED
            BY ONLY AdminInv, <2>1, <3>1, <3>2, <3>3, <3>4, <3>5, CountStep
<1>2. CASE Finish(w)
    <2> DEFINE r == [work[w] EXCEPT !.pc = "again", !.next = 1]
    <2>1. At(w, "queue") /\ work[w].next > Items
        BY <1>2 DEF Finish
    <2>2. r \in Work /\ r.of = o /\ r.pc = "again" /\ work' = [work EXCEPT ![w] = r]
        <3>1. 1 \in 1..(Items + 1)
            BY ItemsAssumption
        <3> QED
            BY <1>0, <1>2, <3>1 DEF Work, Finish
    <2>3. SetMeta(w, Progress(MetaOf(w), {}))
          /\ UNCHANGED <<file, mode, current, cancel, cancelled, saved, thread, halted, revived,
                         wanted>>
        BY <1>2 DEF Finish
    <2> HIDE DEF r
    <2> QED
        BY <2>1, <2>2, <2>3, CountStep
<1>3. CASE Stopped(w) \/ GiveUp(w)
    <2>1. ~At(w, "idle") /\ o \in Objects /\ Exit(w) /\ work'[w].pc = "idle"
        <3>1. ~At(w, "idle") /\ Exit(w)
            BY <1>3 DEF Stopped, GiveUp, At
        <3> QED
            BY <1>0, <3>1, Working DEF AdminInv, Exit, IdleWork
    <2>2. /\ halted' \in SUBSET Objects /\ halted \subseteq halted'
          /\ w \in cancelled \/ \A x \in Objects : cancel[x] = w => x \in halted'
        BY <1>3 DEF Stopped, GiveUp, AdminInv, TypeOK
    <2>3. CASE cycle' = cycle
        BY <2>1, <2>2, <2>3, NoMetaStep, Leaves DEF Undisturbed, At
    <2>4. CASE GiveUp(w) /\ ~At(w, "window") /\ \E skip \in Skips(w) : SetMeta(w, BeginMeta(w, skip))
        <3>1. PICK skip \in Skips(w) : SetMeta(w, BeginMeta(w, skip))
            BY <2>4
        <3> DEFINE n == BeginMeta(w, skip)
        <3>2. work[w].pc \in {"first", "again"}
            BY <2>4 DEF GiveUp, At
        <3>3. n \in Meta /\ Covered(n) /\ (Publishing(o) # {} => n.mixed)
            BY <3>2, BeginMetaSound
        <3> HIDE DEF n
        <3>4. OnlyMeta(o) /\ cycle'[o].meta = n
            BY <2>1, <3>1, <3>3, MetaStep DEF SetMeta, AdminInv, n
        <3>5. Undisturbed(w, o)
            BY <3>3, <3>4 DEF Undisturbed, Publishing
        <3> QED
            BY <2>1, <2>2, <3>4, <3>5, Leaves
    <2> QED
        BY <1>3, <2>3, <2>4 DEF Stopped, GiveUp
<1> QED
    BY <1>1, <1>2, <1>3, BeginStep DEF Worker
-----------------------------------------------------------------------------
(* Starting, stopping and adding a cycle. *)

\* Stop cancels the goroutine that the cycle would cancel, and leaves the others.
LEMMA StopStep ==
    ASSUME TypeOK, GoroutineInv, NEW o \in Objects, Stop(o)
    PROVE  /\ UNCHANGED <<work, cancel>>
           /\ cancelled' \in SUBSET Workers /\ halted' \in SUBSET Objects
           /\ o \in halted' /\ halted \subseteq halted'
           /\ \A w \in Workers : At(w, "idle") => w \notin cancelled'
           /\ \A w \in Workers : w \notin cancelled' => w \notin cancelled /\ cancel[o] # w
           /\ \A w \in Workers : w \notin cancelled /\ cancel[o] # w => w \notin cancelled'
<1>1. cancel[o] \in Workers \union {None} /\ cancelled \subseteq Workers /\ halted \subseteq Objects
    BY DEF TypeOK
<1>2. cancel[o] # None => ~At(cancel[o], "idle")
    BY <1>1, NoneAssumption DEF GoroutineInv
<1>3. \A w \in Workers : At(w, "idle") => w \notin cancelled
    BY DEF GoroutineInv
<1> QED
    BY <1>1, <1>2, <1>3, NoneAssumption DEF Stop

\* What Stop does to the goroutines, with the cycles unchanged.
LEMMA StopKeeps ==
    ASSUME TypeOK, GoroutineInv, NEW o \in Objects, Stop(o), cycle' = cycle
    PROVE  GoroutineInv'
BY StopStep DEF GoroutineInv, At, MetaOf, Fresh

\* Start runs one more goroutine, the one that a Stop would cancel.
LEMMA StartStep ==
    ASSUME TypeOK, GoroutineInv, NEW o \in Objects, Start(o),
           \A x \in Objects : x # o => cycle'[x] = cycle[x],
           cycle'[o] = cycle[o] \/ Fresh(o),
           cycle'[o].config # None
    PROVE  /\ GoroutineInv' /\ work' \in [Workers -> Work] /\ halted' \in SUBSET Objects
           /\ cancel' \in [Objects -> Workers \union {None}] /\ cancelled' = cancelled
           /\ halted' = halted \ {o}
           /\ \A x \in Objects : x # o => cancel'[x] = cancel[x]
           /\ \E w \in Workers : cancel'[o] = w /\ work'[w].of = o /\ w \notin cancelled
           /\ \A x \in Objects, w \in Workers : x # o /\ cancel[x] = w /\ work[w].of = x
                  => work'[w] = work[w]
           /\ \A v \in Workers : ~At(v, "idle")' =>
                work'[v].of = o \/ (~At(v, "idle") /\ work'[v] = work[v])
<1>1. PICK w \in Workers :
          /\ At(w, "idle")
          /\ work' = [work EXCEPT ![w] = [pc |-> "first", of |-> o, next |-> 1]]
          /\ cancel' = [cancel EXCEPT ![o] = w]
    BY DEF Start
<1>2. 1 \in 1..(Items + 1)
    BY ItemsAssumption
<1>3. /\ work' \in [Workers -> Work]
      /\ work'[w].pc = "first" /\ work'[w].of = o
      /\ \A v \in Workers : v # w => work'[v] = work[v]
      /\ cancel' \in [Objects -> Workers \union {None}] /\ cancel'[o] = w
      /\ \A x \in Objects : x # o => cancel'[x] = cancel[x]
    BY <1>1, <1>2 DEF TypeOK, Work
<1>4. /\ w \notin cancelled /\ cancelled' = cancelled /\ work[w].of = None
      /\ halted' = halted \ {o} /\ halted' \in SUBSET Objects
    BY <1>1 DEF GoroutineInv, Start, TypeOK
<1>5. ASSUME NEW v \in Workers, v # w, ~At(v, "idle")
      PROVE  /\ work'[v] = work[v] /\ ~At(v, "idle")' /\ work[v].of \in Objects
             /\ ~Fresh(work[v].of) /\ MetaOf(v)' = MetaOf(v) /\ ~Fresh(work[v].of)'
    <2>1. work'[v] = work[v] /\ work[v].of \in Objects /\ ~Fresh(work[v].of)
        BY <1>3, <1>5, Working
    <2>2. cycle'[work[v].of] = cycle[work[v].of]
        BY <2>1
    <2> QED
        BY <1>5, <2>1, <2>2 DEF At, MetaOf, Fresh
<1>6. \A v \in Workers : /\ At(v, "idle")' <=> work'[v].of = None
                         /\ At(v, "idle")' => v \notin cancelled'
                         /\ ~At(v, "idle")' => ~Fresh(work[v].of)'
    <2>1. ASSUME NEW v \in Workers, v # w, At(v, "idle")
          PROVE  At(v, "idle")' /\ work'[v].of = None /\ v \notin cancelled'
        BY <1>3, <1>4, <2>1 DEF GoroutineInv, At
    <2>2. ~At(w, "idle")' /\ work'[w].of # None /\ ~Fresh(work[w].of)'
        BY <1>3, NoneAssumption DEF At, Fresh
    <2>3. \A v \in Workers : ~At(v, "idle") => work[v].of # None
        BY DEF GoroutineInv
    <2>4. ASSUME NEW v \in Workers, v # w, ~At(v, "idle")
          PROVE  ~At(v, "idle")' /\ work'[v].of # None /\ ~Fresh(work[v].of)'
        BY <1>5, <2>3, <2>4
    <2> QED
        BY <2>1, <2>2, <2>4
<1>7. \A v \in Workers : At(v, "queue")' => /\ At(v, "queue") /\ work'[v] = work[v]
                                            /\ MetaOf(v)' = MetaOf(v)
    <2>1. ASSUME NEW v \in Workers, At(v, "queue")'
          PROVE  v # w /\ At(v, "queue") /\ ~At(v, "idle")
        BY <1>3, <2>1 DEF At
    <2> QED
        BY <1>5, <2>1
<1>8. \A x \in Objects : cancel'[x] # None => work'[cancel'[x]].of = x
    <2>1. ASSUME NEW x \in Objects, x # o, cancel[x] # None
          PROVE  work'[cancel[x]].of = x
        <3>1. cancel[x] \in Workers /\ work[cancel[x]].of = x /\ cancel[x] # w
            BY <1>4, <2>1, NoneAssumption DEF GoroutineInv, TypeOK
        <3> QED
            BY <1>3, <3>1
    <2> QED
        BY <1>3, <2>1
<1>9. GoroutineInv'
    BY <1>6, <1>7, <1>8 DEF GoroutineInv
<1>10. \A v \in Workers : ~At(v, "idle")' =>
           work'[v].of = o \/ (~At(v, "idle") /\ work'[v] = work[v])
    BY <1>3 DEF At
<1>11. \A x \in Objects, v \in Workers : x # o /\ cancel[x] = v /\ work[v].of = x
           => work'[v] = work[v]
    BY <1>3, <1>4, NoneAssumption
<1> QED
    BY <1>3, <1>4, <1>9, <1>10, <1>11

\* What Start does to a cycle that is in the map, or is resumed outside it.
LEMMA StartServes ==
    ASSUME AdminInv, NEW o \in Objects, Start(o), UNCHANGED <<cycle, current>>, ~Fresh(o),
           revived \subseteq revived', o = current \/ o \in revived'
    PROVE  /\ GoroutineInv' /\ work' \in [Workers -> Work] /\ halted' \in SUBSET Objects
           /\ cancel' \in [Objects -> Workers \union {None}] /\ cancelled' = cancelled
           /\ LiveWorkersAreCurrent'
           /\ o = current => \E w \in Workers : /\ cancel'[current] = w /\ work'[w].of = current
                                                /\ w \notin cancelled'
           /\ CurrentRuns /\ mode' = mode => CurrentRuns'
<1>1. /\ GoroutineInv' /\ work' \in [Workers -> Work] /\ halted' \in SUBSET Objects
      /\ cancel' \in [Objects -> Workers \union {None}] /\ cancelled' = cancelled
      /\ halted' = halted \ {o}
      /\ \A x \in Objects : x # o => cancel'[x] = cancel[x]
      /\ \E w \in Workers : cancel'[o] = w /\ work'[w].of = o /\ w \notin cancelled
      /\ \A x \in Objects, w \in Workers : x # o /\ cancel[x] = w /\ work[w].of = x
             => work'[w] = work[w]
      /\ \A v \in Workers : ~At(v, "idle")' =>
            work'[v].of = o \/ (~At(v, "idle") /\ work'[v] = work[v])
    BY StartStep DEF AdminInv, Fresh
<1>2. LiveWorkersAreCurrent'
    <2>1. ASSUME NEW v \in Workers, ~At(v, "idle")', v \notin cancelled',
                 cancel'[work'[v].of] = v, work'[v].of # o
          PROVE  work'[v].of \in {current} \union revived
        <3>1. ~At(v, "idle") /\ work'[v] = work[v] /\ work[v].of \in Objects
            BY <1>1, <2>1, Working DEF AdminInv
        <3> QED
            BY <1>1, <2>1, <3>1 DEF AdminInv, LiveWorkersAreCurrent
    <2> QED
        BY <2>1 DEF LiveWorkersAreCurrent
<1>3. CurrentRuns /\ mode' = mode => CurrentRuns'
    <2>1. ASSUME CurrentRuns, mode = "running", current # None, current \notin halted', current # o
          PROVE  \E w \in Workers : cancel'[current] = w /\ work'[w].of = current /\ w \notin cancelled'
        <3>1. current \in Objects /\ current \notin halted
            BY <1>1, <2>1 DEF AdminInv, TypeOK
        <3> QED
            BY <1>1, <2>1, <3>1 DEF CurrentRuns
    <2> QED
        BY <1>1, <2>1 DEF CurrentRuns
<1> QED
    BY <1>1, <1>2, <1>3

\* A cycle that is added where there is none is the only one that works on, but for
\* those that were resumed.
LEMMA AddStep ==
    ASSUME AdminInv, NEW c \in Config, Validate(c), NEW m \in Meta, Covered(m),
           current = None, AddCycle(c, m), revived' = revived
    PROVE  /\ current' \in Objects /\ cycle' \in [Objects -> Cycle]
           /\ work' \in [Workers -> Work] /\ halted' \in SUBSET Objects
           /\ cancel' \in [Objects -> Workers \union {None}] /\ cancelled' = cancelled
           /\ GoroutineInv' /\ LiveWorkersAreCurrent'
           /\ ~Fresh(current)'
           /\ \A o \in Objects : ~Fresh(o) => cycle'[o] = cycle[o]
           /\ \A o \in Objects : Covered(cycle'[o].meta)
           /\ \A o \in Objects : ~Fresh(o)' /\ IsThrottled(cycle'[o].config)
                                    => Validate(cycle'[o].config)
           /\ mode = "running" =>
                  \E w \in Workers : /\ cancel'[current'] = w /\ work'[w].of = current'
                                     /\ w \notin cancelled'
           /\ mode # "running" => work' = work
<1> DEFINE n == NewCycle(c)
<1>1. n \in Config /\ n # None /\ (IsThrottled(n) => Validate(n))
    BY NewCycleValid, NoneAssumption
<1> HIDE DEF n
<1>2. PICK o \in Objects :
          /\ Put(o, c, m)
          /\ IF mode = "running" THEN Start(o) ELSE UNCHANGED goroutines
    BY DEF AddCycle
<1>3. /\ Fresh(o) /\ current' = o
      /\ cycle' = [cycle EXCEPT ![o] = [config |-> n, meta |-> m]]
      /\ cycle \in [Objects -> Cycle]
    BY <1>2 DEF Put, AdminInv, TypeOK, n
<1>4. /\ cycle' \in [Objects -> Cycle]
      /\ cycle'[o].config = n /\ cycle'[o].meta = m
      /\ \A x \in Objects : x # o => cycle'[x] = cycle[x]
    BY <1>1, <1>3 DEF Cycle
<1>5. \A w \in Workers : ~At(w, "idle") => work[w].of \in Objects /\ work[w].of # o
                                           /\ work[w].of # None
    BY <1>3, Working, NoneAssumption DEF AdminInv
<1>6. \A w \in Workers : ~At(w, "idle") /\ w \notin cancelled /\ cancel[work[w].of] = w
                             => work[w].of \in revived
    BY <1>5 DEF AdminInv, LiveWorkersAreCurrent
<1>7. CASE mode = "running"
    <2>1. Start(o)
        BY <1>2, <1>7
    <2>2. /\ GoroutineInv' /\ work' \in [Workers -> Work] /\ halted' \in SUBSET Objects
          /\ cancel' \in [Objects -> Workers \union {None}] /\ cancelled' = cancelled
          /\ \A x \in Objects : x # o => cancel'[x] = cancel[x]
          /\ \E w \in Workers : cancel'[o] = w /\ work'[w].of = o /\ w \notin cancelled
          /\ \A v \in Workers : ~At(v, "idle")' =>
                work'[v].of = o \/ (~At(v, "idle") /\ work'[v] = work[v])
        BY <1>1, <1>3, <1>4, <2>1, StartStep DEF AdminInv
    <2>3. LiveWorkersAreCurrent'
        <3>1. ASSUME NEW v \in Workers, ~At(v, "idle")', v \notin cancelled',
                     cancel'[work'[v].of] = v, work'[v].of # o
              PROVE  work'[v].of \in revived'
            BY <1>5, <1>6, <2>2, <3>1
        <3> QED
            BY <1>3, <3>1 DEF LiveWorkersAreCurrent
    <2> QED
        BY <1>1, <1>3, <1>4, <1>7, <2>2, <2>3 DEF Fresh, AdminInv, NothingSkipped, CycleInv
<1>8. CASE mode # "running"
    <2>1. UNCHANGED <<work, cancel, halted, cancelled>>
        BY <1>2, <1>8 DEF goroutines
    <2>2. \A w \in Workers : ~At(w, "idle") => cycle'[work[w].of] = cycle[work[w].of]
        BY <1>4, <1>5
    <2>3. \A w \in Workers : At(w, "queue") => ~At(w, "idle")
        BY DEF At
    <2>4. GoroutineInv'
        BY <2>1, <2>2, <2>3 DEF AdminInv, GoroutineInv, At, MetaOf, Fresh
    <2>5. LiveWorkersAreCurrent'
        BY <1>6, <2>1 DEF LiveWorkersAreCurrent, At
    <2>6. /\ work' \in [Workers -> Work] /\ halted' \in SUBSET Objects
          /\ cancel' \in [Objects -> Workers \union {None}] /\ cancelled' = cancelled
        BY <2>1 DEF AdminInv, TypeOK
    <2> QED
        BY <1>1, <1>3, <1>4, <1>8, <2>1, <2>4, <2>5, <2>6
           DEF Fresh, AdminInv, NothingSkipped, CycleInv
<1> QED
    BY <1>7, <1>8

-----------------------------------------------------------------------------
(* The calls and the process. *)

\* A step that changes no cycle but for its own metadata leaves every call with the
\* cycle it holds.
LEMMA ThreadsKept ==
    ASSUME ThreadInv, thread' = thread,
           \A o \in Objects : ~Fresh(o) => cycle'[o].config = cycle[o].config
    PROVE  ThreadInv'
BY DEF ThreadInv, Fresh

\* A call that is answered holds nothing.
LEMMA Answered ==
    ASSUME TypeOK, ThreadInv, NEW t \in Threads, Answer(t),
           \A o \in Objects : ~Fresh(o) => cycle'[o].config = cycle[o].config
    PROVE  /\ ThreadInv' /\ thread' \in [Threads -> Thread]
           /\ \A u \in Threads : u # t => thread'[u] = thread[u]
           /\ thread'[t] = IdleThread
BY ConstantTypes DEF ThreadInv, Fresh, Answer, IdleThread, TypeOK

LEMMA CreateInv ==
    ASSUME AdminInv, NEW b \in Bodies, CreateCycle(b)
    PROVE  AdminInv'
<1>1. b \in Config /\ Validate(b) /\ current = None /\ AddCycle(b, EmptyMeta)
      /\ wanted' = TRUE /\ UNCHANGED <<file, mode, saved, thread, revived>> /\ mode # "down"
    BY ConfigsAssumption DEF CreateCycle, Unlocked
<1>2. /\ current' \in Objects /\ cycle' \in [Objects -> Cycle]
      /\ work' \in [Workers -> Work] /\ halted' \in SUBSET Objects
      /\ cancel' \in [Objects -> Workers \union {None}] /\ cancelled' = cancelled
      /\ GoroutineInv' /\ LiveWorkersAreCurrent' /\ ~Fresh(current)'
      /\ \A o \in Objects : ~Fresh(o) => cycle'[o] = cycle[o]
      /\ \A o \in Objects : Covered(cycle'[o].meta)
      /\ \A o \in Objects : ~Fresh(o)' /\ IsThrottled(cycle'[o].config)
                               => Validate(cycle'[o].config)
      /\ mode = "running" =>
             \E w \in Workers : /\ cancel'[current'] = w /\ work'[w].of = current'
                                /\ w \notin cancelled'
    BY <1>1, ConstantTypes, AddStep
<1>3. TypeOK' /\ ThreadInv' /\ CycleInv'
    BY <1>1, <1>2, ThreadsKept DEF AdminInv, TypeOK, CycleInv
<1>4. NothingSkipped' /\ CycleStays' /\ CurrentRuns'
    BY <1>1, <1>2, NoneAssumption DEF AdminInv, NothingSkipped, CycleStays, CurrentRuns
<1> QED
    BY <1>2, <1>3, <1>4 DEF AdminInv

\* A cycle that leaves the map is stopped.
LEMMA RemoveStep ==
    ASSUME AdminInv, RemoveCycle, UNCHANGED <<file, cycle, revived>>, mode' = mode
    PROVE  /\ current' = None /\ UNCHANGED <<work, cancel>>
           /\ cancelled' \in SUBSET Workers /\ halted' \in SUBSET Objects
           /\ GoroutineInv' /\ LiveWorkersAreCurrent' /\ CurrentRuns'
<1>1. current \in Objects /\ current' = None /\ Stop(current)
    BY DEF RemoveCycle, AdminInv, TypeOK
<1>2. /\ UNCHANGED <<work, cancel>> /\ cancelled' \in SUBSET Workers
      /\ halted' \in SUBSET Objects /\ GoroutineInv'
      /\ \A w \in Workers : w \notin cancelled' => w \notin cancelled /\ cancel[current] # w
    BY <1>1, StopStep, StopKeeps DEF AdminInv
<1>3. LiveWorkersAreCurrent'
    BY <1>1, <1>2 DEF AdminInv, LiveWorkersAreCurrent, At
<1> QED
    BY <1>1, <1>2, <1>3 DEF CurrentRuns

LEMMA DeleteInv ==
    ASSUME AdminInv, DeleteCycle
    PROVE  AdminInv'
<1>1. /\ RemoveCycle /\ wanted' = FALSE
      /\ UNCHANGED <<file, mode, cycle, saved, thread, revived>>
    BY DEF DeleteCycle
<1>2. /\ current' = None /\ UNCHANGED <<work, cancel>>
      /\ cancelled' \in SUBSET Workers /\ halted' \in SUBSET Objects
      /\ GoroutineInv' /\ LiveWorkersAreCurrent' /\ CurrentRuns'
    BY <1>1, RemoveStep
<1>3. TypeOK' /\ ThreadInv' /\ CycleInv'
    BY <1>1, <1>2, ThreadsKept DEF AdminInv, TypeOK, CycleInv, Fresh, At
<1>4. NothingSkipped' /\ CycleStays'
    BY <1>1 DEF AdminInv, NothingSkipped, CycleStays
<1> QED
    BY <1>2, <1>3, <1>4 DEF AdminInv

LEMMA FreeInv ==
    ASSUME AdminInv, NEW o \in Objects, Free(o)
    PROVE  AdminInv'
<1>1. /\ cycle' = [cycle EXCEPT ![o] = NoCycle] /\ cycle \in [Objects -> Cycle]
      /\ halted' = halted \ {o} /\ revived' = revived \ {o}
      /\ o # current /\ (\A t \in Threads : thread[t].of # o)
      /\ \A w \in Workers : work[w].of # o
      /\ UNCHANGED <<file, mode, current, work, cancel, cancelled, saved, thread, wanted>>
    BY DEF Free, Quiet, AdminInv, TypeOK
<1>2. /\ cycle' \in [Objects -> Cycle] /\ cycle'[o] = NoCycle
      /\ \A x \in Objects : x # o => cycle'[x] = cycle[x]
    BY <1>1, ConstantTypes
<1>3. \A w \in Workers : ~At(w, "idle") => work[w].of \in Objects
    BY Working DEF AdminInv
<1>4. \A w \in Workers : At(w, "queue") => ~At(w, "idle")
    BY DEF At
<1>5. GoroutineInv'
    <2>1. \A w \in Workers : ~At(w, "idle") => cycle'[work[w].of] = cycle[work[w].of]
        BY <1>1, <1>2, <1>3
    <2> QED
        BY <1>1, <1>4, <2>1 DEF AdminInv, GoroutineInv, At, MetaOf, Fresh
<1>6. TypeOK'
    BY <1>1, <1>2 DEF AdminInv, TypeOK
<1>7. ThreadInv'
    BY <1>1, <1>2 DEF AdminInv, ThreadInv, Fresh
<1>8. CycleInv'
    <2>1. current # None => current \in Objects
        BY DEF AdminInv, TypeOK
    <2> QED
        BY <1>1, <1>2, <2>1 DEF AdminInv, CycleInv, Fresh, NoCycle, At
<1>9. NothingSkipped'
    BY <1>1, <1>2, ConstantTypes DEF AdminInv, NothingSkipped, NoCycle
<1>10. CycleStays' /\ LiveWorkersAreCurrent' /\ CurrentRuns'
    BY <1>1 DEF AdminInv, CycleStays, LiveWorkersAreCurrent, CurrentRuns, At
<1> QED
    BY <1>5, <1>6, <1>7, <1>8, <1>9, <1>10 DEF AdminInv

LEMMA FindInv ==
    ASSUME AdminInv, NEW t \in Threads, NEW call \in ControlNames, Find(t, call)
    PROVE  AdminInv'
<1>1. PICK d \in (IF call = "throttle" THEN Intervals ELSE {None}) :
          thread' = [thread EXCEPT ![t].pc = "found", ![t].call = call,
                                   ![t].of = current, ![t].throttle = d]
    BY DEF Find
<1>2. /\ thread[t].pc = "idle" /\ current # None /\ current \in Objects
      /\ call = "throttle" => IsThrottled(cycle[current].config)
      /\ UNCHANGED <<file, mode, current, cycle, work, cancel, cancelled, saved, halted,
                     revived, wanted>>
      /\ thread \in [Threads -> Thread]
    BY DEF Find, AdminInv, TypeOK, goroutines
<1>3. /\ thread' \in [Threads -> Thread]
      /\ thread'[t] = [pc |-> "found", call |-> call, of |-> current, throttle |-> d,
                       copy |-> thread[t].copy]
      /\ \A u \in Threads : u # t => thread'[u] = thread[u]
    BY <1>1, <1>2, ConfigsAssumption DEF Thread
<1>4. TypeOK' /\ GoroutineInv' /\ LiveWorkersAreCurrent' /\ CurrentRuns'
    BY <1>2, <1>3 DEF AdminInv, TypeOK, GoroutineInv, LiveWorkersAreCurrent, CurrentRuns,
                      At, MetaOf, Fresh
<1>5. ThreadInv'
    BY <1>2, <1>3, ConfigsAssumption DEF AdminInv, ThreadInv, CycleInv, Fresh
<1>6. CycleInv'
    BY <1>2, <1>3 DEF AdminInv, CycleInv, Fresh, At
<1>7. NothingSkipped' /\ CycleStays'
    BY <1>2, <1>3 DEF AdminInv, NothingSkipped, CycleStays
<1> QED
    BY <1>4, <1>5, <1>6, <1>7 DEF AdminInv

LEMMA ResumeInv ==
    ASSUME AdminInv, NEW t \in Threads, ResumeCycle(t)
    PROVE  AdminInv'
<1> DEFINE held == thread[t].of
<1>1. /\ thread[t].pc = "found" /\ Start(held) /\ Answer(t)
      /\ revived' = revived \union ({held} \ {current})
      /\ UNCHANGED <<file, mode, current, cycle, saved, wanted>>
    BY DEF ResumeCycle, Found
<1>2. held \in Objects /\ ~Fresh(held) /\ mode # "down"
    BY <1>1 DEF AdminInv, ThreadInv, CycleInv
<1>3. /\ GoroutineInv' /\ work' \in [Workers -> Work] /\ halted' \in SUBSET Objects
      /\ cancel' \in [Objects -> Workers \union {None}] /\ cancelled' = cancelled
      /\ LiveWorkersAreCurrent' /\ CurrentRuns'
    BY <1>1, <1>2, StartServes DEF AdminInv
<1>4. /\ ThreadInv' /\ thread' \in [Threads -> Thread] /\ thread'[t] = IdleThread
      /\ \A u \in Threads : u # t => thread'[u] = thread[u]
    BY <1>1, Answered DEF AdminInv
<1>5. TypeOK' /\ CycleInv'
    BY <1>1, <1>2, <1>3, <1>4 DEF AdminInv, TypeOK, CycleInv, Fresh
<1>6. NothingSkipped' /\ CycleStays'
    BY <1>1, <1>4, ConstantTypes DEF AdminInv, NothingSkipped, CycleStays, IdleThread
<1> QED
    BY <1>3, <1>4, <1>5, <1>6 DEF AdminInv

\* StopCycle and ResetCycle, which replaces the metadata of the cycle by nothing,
\* or by what a goroutine may still count in it.
LEMMA HaltInv ==
    ASSUME AdminInv, NEW t \in Threads, StopCycle(t) \/ ResetCycle(t)
    PROVE  AdminInv'
<1> DEFINE held == thread[t].of
<1>1. /\ thread[t].pc = "found" /\ thread[t].call # "throttle" /\ Stop(held) /\ Answer(t)
      /\ UNCHANGED <<file, mode, current, saved, revived, wanted>>
      /\ held \in Objects /\ ~Fresh(held) /\ mode # "down"
    BY DEF StopCycle, ResetCycle, Found, AdminInv, ThreadInv, CycleInv
<1>2. /\ UNCHANGED <<work, cancel>>
      /\ cancelled' \in SUBSET Workers /\ halted' \in SUBSET Objects
      /\ held \in halted' /\ halted \subseteq halted'
      /\ \A w \in Workers : At(w, "idle") => w \notin cancelled'
      /\ \A w \in Workers : w \notin cancelled' => w \notin cancelled /\ cancel[held] # w
      /\ \A w \in Workers : w \notin cancelled /\ cancel[held] # w => w \notin cancelled'
    BY <1>1, StopStep DEF AdminInv
<1>3. OnlyMeta(held) /\ \A w \in Workers : At(w, "queue") =>
                           MetaOf(w)' = MetaOf(w) \/ MetaOf(w)'.mixed
    <2>1. CASE StopCycle(t)
        BY <1>1, <1>2, <2>1, NoMetaStep DEF StopCycle, MetaOf
    <2>2. CASE ResetCycle(t)
        <3> DEFINE n == IF Publishing(held) = {} THEN EmptyMeta ELSE MixedMeta
        <3>1. cycle' = [cycle EXCEPT ![held].meta = n]
            BY <2>2 DEF ResetCycle
        <3>2. n \in Meta /\ Covered(n) /\ (Publishing(held) # {} => n.mixed)
            BY ConstantTypes
        <3> HIDE DEF n
        <3>3. OnlyMeta(held) /\ cycle'[held].meta = n
            BY <1>1, <3>1, <3>2, MetaStep DEF AdminInv
        <3>4. ASSUME NEW w \in Workers, At(w, "queue")
              PROVE  MetaOf(w)' = MetaOf(w) \/ MetaOf(w)'.mixed
            <4>1. work[w].of \in Objects
                BY <3>4, Working DEF AdminInv, At
            <4> QED
                BY <1>2, <3>2, <3>3, <3>4, <4>1 DEF OnlyMeta, Publishing, MetaOf
        <3> QED
            BY <3>3, <3>4
    <2> QED
        BY <2>1, <2>2
<1>4. GoroutineInv'
    <2>1. \A w \in Workers : At(w, "queue")' <=> At(w, "queue")
        BY <1>2 DEF At
    <2>2. \A w \in Workers : ~At(w, "idle") => work[w].of \in Objects
        BY Working DEF AdminInv
    <2>3. \A w \in Workers : /\ At(w, "idle")' <=> work'[w].of = None
                             /\ At(w, "idle")' => w \notin cancelled'
                             /\ ~At(w, "idle")' => ~Fresh(work[w].of)'
        BY <1>2, <1>3, <2>2 DEF AdminInv, GoroutineInv, At, Fresh, OnlyMeta
    <2>4. \A w \in Workers :
              At(w, "queue")' /\ ~MetaOf(w)'.mixed /\ MetaOf(w)'.completed < Items =>
                  /\ 1..(work'[w].next - 1) \subseteq MetaOf(w)'.done
                  /\ work'[w].next = MetaOf(w)'.completed + 1
        BY <1>2, <1>3, <2>1 DEF AdminInv, GoroutineInv
    <2>5. \A v, w \in Workers : At(v, "queue")' /\ At(w, "queue")' /\ work'[v].of = work'[w].of
              => v = w \/ MetaOf(w)'.mixed
        BY <1>2, <1>3, <2>1 DEF AdminInv, GoroutineInv
    <2> QED
        BY <1>2, <2>3, <2>4, <2>5 DEF AdminInv, GoroutineInv
<1>5. /\ ThreadInv' /\ thread' \in [Threads -> Thread] /\ thread'[t] = IdleThread
      /\ \A u \in Threads : u # t => thread'[u] = thread[u]
    BY <1>1, <1>3, Answered DEF AdminInv, OnlyMeta
<1>6. TypeOK'
    BY <1>1, <1>2, <1>3, <1>5 DEF AdminInv, TypeOK, OnlyMeta
<1>7. CycleInv'
    <2>1. current # None => current \in Objects
        BY DEF AdminInv, TypeOK
    <2> QED
        BY <1>1, <1>3, <2>1 DEF AdminInv, CycleInv, Fresh, OnlyMeta
<1>8. NothingSkipped' /\ CycleStays'
    BY <1>1, <1>3, <1>5, ConstantTypes DEF AdminInv, NothingSkipped, CycleStays, IdleThread, OnlyMeta
<1>9. LiveWorkersAreCurrent'
    BY <1>1, <1>2 DEF AdminInv, LiveWorkersAreCurrent, At
<1>10. CurrentRuns'
    <2>1. ASSUME mode = "running", current # None, current \notin halted'
          PROVE  \E w \in Workers : /\ cancel[current] = w /\ work[w].of = current
                                    /\ w \notin cancelled'
        <3>1. PICK w \in Workers : /\ cancel[current] = w /\ work[w].of = current
                                   /\ w \notin cancelled
            BY <1>2, <2>1 DEF AdminInv, CurrentRuns
        <3>2. cancel[held] # w
            <4>1. current # held
                BY <1>2, <2>1
            <4>2. w # None
                BY NoneAssumption
            <4> QED
                BY <1>1, <3>1, <4>1, <4>2 DEF AdminInv, GoroutineInv
        <3> QED
            BY <1>2, <3>1, <3>2
    <2> QED
        BY <1>1, <1>2, <2>1 DEF CurrentRuns
<1> QED
    BY <1>4, <1>5, <1>6, <1>7, <1>8, <1>9, <1>10 DEF AdminInv

\* SetCycleThrottle: the copy, the removal and the cycle that takes its place.
LEMMA ThrottleInv ==
    ASSUME AdminInv, NEW t \in Threads, CopyMetadata(t) \/ RemoveOld(t) \/ AddNew(t)
    PROVE  AdminInv'
<1> DEFINE held == thread[t].of
<1>0. /\ thread[t].pc # "idle" /\ thread[t].call = "throttle" /\ thread[t] \in Thread
      /\ thread \in [Threads -> Thread]
    BY DEF CopyMetadata, RemoveOld, AddNew, Found, AdminInv, ThreadInv, TypeOK
<1>1. /\ held \in Objects /\ ~Fresh(held)
      /\ thread[t].throttle \in Times /\ IsThrottled(cycle[held].config)
    BY <1>0 DEF AdminInv, ThreadInv
<1>2. mode # "down"
    BY <1>0 DEF AdminInv, CycleInv
<1>3. CASE CopyMetadata(t)
    <2>1. UNCHANGED <<file, mode, current, cycle, work, cancel, cancelled, saved, halted,
                      revived, wanted>>
          /\ thread[t].pc = "found" /\ cycle[held].meta \in Meta
        BY <1>1, <1>3 DEF CopyMetadata, Found, goroutines, AdminInv, TypeOK, Cycle
    <2>2. /\ thread' \in [Threads -> Thread]
          /\ thread'[t] = [thread[t] EXCEPT !.pc = "copied", !.copy = cycle[held].meta]
          /\ \A u \in Threads : u # t => thread'[u] = thread[u]
        BY <1>0, <1>3, <2>1 DEF CopyMetadata, Thread
    <2>3. /\ thread'[t].pc = "copied" /\ thread'[t].call = "throttle"
          /\ thread'[t].of = held /\ thread'[t].throttle = thread[t].throttle
          /\ thread'[t].copy = cycle[held].meta
        BY <1>0, <2>2 DEF Thread
    <2>4. TypeOK' /\ GoroutineInv' /\ LiveWorkersAreCurrent' /\ CurrentRuns'
        BY <2>1, <2>2 DEF AdminInv, TypeOK, GoroutineInv, LiveWorkersAreCurrent, CurrentRuns,
                          At, MetaOf, Fresh
    <2>5. ThreadInv'
        BY <1>1, <2>1, <2>2, <2>3 DEF AdminInv, ThreadInv, Fresh
    <2>6. CycleInv'
        BY <1>2, <2>1 DEF AdminInv, CycleInv, Fresh, At
    <2>7. NothingSkipped' /\ CycleStays'
        BY <1>1, <2>1, <2>2, <2>3 DEF AdminInv, NothingSkipped, CycleStays
    <2> QED
        BY <2>4, <2>5, <2>6, <2>7 DEF AdminInv
<1>4. CASE RemoveOld(t)
    <2>1. UNCHANGED <<file, mode, cycle, saved, revived, wanted>> /\ thread[t].pc = "copied"
        BY <1>4 DEF RemoveOld
    <2>2. /\ thread' \in [Threads -> Thread]
          /\ thread'[t] = [thread[t] EXCEPT !.pc = "removed"]
          /\ \A u \in Threads : u # t => thread'[u] = thread[u]
        BY <1>0, <1>4 DEF RemoveOld, Thread
    <2>3. /\ thread'[t].pc = "removed" /\ thread'[t].call = "throttle"
          /\ thread'[t].of = held /\ thread'[t].throttle = thread[t].throttle
          /\ thread'[t].copy = thread[t].copy
        BY <1>0, <2>2 DEF Thread
    <2>4. /\ current' = None /\ UNCHANGED <<work, cancel>>
          /\ cancelled' \in SUBSET Workers /\ halted' \in SUBSET Objects
          /\ GoroutineInv' /\ LiveWorkersAreCurrent' /\ CurrentRuns'
        <3>1. CASE RemoveCycle
            BY <2>1, <3>1, RemoveStep
        <3>2. CASE current = None /\ UNCHANGED <<current, goroutines>>
            BY <2>1, <3>2 DEF AdminInv, TypeOK, GoroutineInv, LiveWorkersAreCurrent, CurrentRuns,
                              At, MetaOf, Fresh, goroutines
        <3> QED
            BY <1>4, <3>1, <3>2 DEF RemoveOld
    <2>5. TypeOK' /\ CycleStays'
        BY <2>1, <2>2, <2>3, <2>4 DEF AdminInv, TypeOK, CycleStays
    <2>6. ThreadInv'
        BY <1>1, <2>1, <2>2, <2>3 DEF AdminInv, ThreadInv, Fresh
    <2>7. CycleInv'
        BY <1>2, <2>1, <2>4 DEF AdminInv, CycleInv, Fresh
    <2>8. NothingSkipped'
        BY <2>1, <2>2, <2>3 DEF AdminInv, NothingSkipped
    <2> QED
        BY <2>4, <2>5, <2>6, <2>7, <2>8 DEF AdminInv
<1>5. CASE AddNew(t)
    <2> DEFINE c == Retuned(t)
    <2>1. /\ thread[t].pc = "removed" /\ Answer(t)
          /\ UNCHANGED <<file, mode, saved, revived, wanted>>
        BY <1>5 DEF AddNew
    <2>2. c \in Config /\ Validate(c)
        <3>1. cycle[held].config \in Config /\ Validate(cycle[held].config)
            BY <1>1 DEF AdminInv, CycleInv, TypeOK, Cycle, Fresh
        <3> QED
            BY <1>1, <3>1, RetunedValid DEF Retuned
    <2>3. thread[t].copy \in Meta /\ Covered(thread[t].copy)
        BY <1>0 DEF Thread, AdminInv, NothingSkipped
    <2> HIDE DEF c
    <2>4. CASE current = None
        <3>1. AddCycle(c, thread[t].copy)
            BY <1>5, <2>2, <2>4 DEF AddNew, c
        <3>2. /\ current' \in Objects /\ cycle' \in [Objects -> Cycle]
              /\ work' \in [Workers -> Work] /\ halted' \in SUBSET Objects
              /\ cancel' \in [Objects -> Workers \union {None}] /\ cancelled' = cancelled
              /\ GoroutineInv' /\ LiveWorkersAreCurrent' /\ ~Fresh(current)'
              /\ \A o \in Objects : ~Fresh(o) => cycle'[o] = cycle[o]
              /\ \A o \in Objects : Covered(cycle'[o].meta)
              /\ \A o \in Objects : ~Fresh(o)' /\ IsThrottled(cycle'[o].config)
                                       => Validate(cycle'[o].config)
              /\ mode = "running" =>
                     \E w \in Workers : /\ cancel'[current'] = w /\ work'[w].of = current'
                                        /\ w \notin cancelled'
            BY <2>1, <2>2, <2>3, <2>4, <3>1, AddStep
        <3>3. /\ ThreadInv' /\ thread' \in [Threads -> Thread] /\ thread'[t] = IdleThread
              /\ \A u \in Threads : u # t => thread'[u] = thread[u]
            BY <2>1, <3>2, Answered DEF AdminInv
        <3>4. TypeOK' /\ CycleInv'
            BY <1>2, <2>1, <3>2, <3>3 DEF AdminInv, TypeOK, CycleInv
        <3>5. NothingSkipped'
            BY <2>1, <3>2, <3>3, ConstantTypes DEF AdminInv, NothingSkipped, IdleThread
        <3>6. CycleStays' /\ CurrentRuns'
            BY <2>1, <3>2, NoneAssumption DEF CycleStays, CurrentRuns
        <3> QED
            BY <3>2, <3>3, <3>4, <3>5, <3>6 DEF AdminInv
    <2>5. CASE current # None
        <3>1. UNCHANGED <<current, cycle, work, cancel, cancelled, halted>>
            BY <1>5, <2>5 DEF AddNew, goroutines
        <3>2. /\ ThreadInv' /\ thread' \in [Threads -> Thread] /\ thread'[t] = IdleThread
              /\ \A u \in Threads : u # t => thread'[u] = thread[u]
            BY <2>1, <3>1, Answered DEF AdminInv
        <3>3. TypeOK' /\ GoroutineInv' /\ LiveWorkersAreCurrent' /\ CurrentRuns'
            BY <2>1, <3>1, <3>2 DEF AdminInv, TypeOK, GoroutineInv, LiveWorkersAreCurrent,
                                    CurrentRuns, At, MetaOf, Fresh
        <3>4. CycleInv' /\ CycleStays'
            BY <1>2, <2>1, <2>5, <3>1 DEF AdminInv, CycleInv, CycleStays, Fresh
        <3>5. NothingSkipped'
            BY <2>1, <3>1, <3>2, ConstantTypes DEF AdminInv, NothingSkipped, IdleThread
        <3> QED
            BY <3>2, <3>3, <3>4, <3>5 DEF AdminInv
    <2> QED
        BY <2>4, <2>5
<1> QED
    BY <1>3, <1>4, <1>5

\* A process that is down has nothing under way.
LEMMA BootInv ==
    ASSUME AdminInv, Boot
    PROVE  AdminInv'
<1>1. /\ mode = "down" /\ mode' = "stopped" /\ current = None
      /\ UNCHANGED <<file, saved, thread, revived>>
      /\ \A w \in Workers : At(w, "idle")
      /\ \A t \in Threads : thread[t].pc = "idle"
    BY DEF Boot, AdminInv, CycleInv
<1>2. CASE \E i \in Loaded(file, TheID) :
              AddCycle(file[i], IF IsThrottled(file[i]) THEN saved ELSE EmptyMeta)
    <2>1. PICK i \in Loaded(file, TheID) :
              AddCycle(file[i], IF IsThrottled(file[i]) THEN saved ELSE EmptyMeta)
        BY <1>2
    <2> DEFINE m == IF IsThrottled(file[i]) THEN saved ELSE EmptyMeta
    <2>2. file[i] \in Config /\ Validate(file[i])
        BY ConfigsAssumption DEF Loaded, Entries, AdminInv, TypeOK
    <2>3. m \in Meta /\ Covered(m)
        BY ConstantTypes DEF AdminInv, TypeOK, NothingSkipped
    <2> HIDE DEF m
    <2>4. AddCycle(file[i], m)
        BY <2>1 DEF m
    <2>5. /\ current' \in Objects /\ cycle' \in [Objects -> Cycle]
          /\ work' \in [Workers -> Work] /\ halted' \in SUBSET Objects
          /\ cancel' \in [Objects -> Workers \union {None}] /\ cancelled' = cancelled
          /\ GoroutineInv' /\ LiveWorkersAreCurrent' /\ ~Fresh(current)'
          /\ \A o \in Objects : ~Fresh(o) => cycle'[o] = cycle[o]
          /\ \A o \in Objects : Covered(cycle'[o].meta)
          /\ \A o \in Objects : ~Fresh(o)' /\ IsThrottled(cycle'[o].config)
                                   => Validate(cycle'[o].config)
        BY <1>1, <2>2, <2>3, <2>4, AddStep
    <2>6. wanted' \in BOOLEAN
        BY DEF Boot
    <2>7. TypeOK' /\ ThreadInv' /\ CycleInv'
        BY <1>1, <2>5, <2>6, ThreadsKept DEF AdminInv, TypeOK, CycleInv
    <2>8. NothingSkipped' /\ CycleStays' /\ CurrentRuns'
        BY <1>1, <2>5, NoneAssumption DEF AdminInv, NothingSkipped, CycleStays, CurrentRuns
    <2> QED
        BY <2>5, <2>7, <2>8 DEF AdminInv
<1>3. CASE Loaded(file, TheID) = {} /\ UNCHANGED <<current, cycle, goroutines>>
    <2>1. wanted' = FALSE /\ UNCHANGED <<current, cycle, work, cancel, cancelled, halted>>
        BY <1>3 DEF Boot, goroutines
    <2>2. TypeOK' /\ GoroutineInv' /\ LiveWorkersAreCurrent'
        BY <1>1, <2>1 DEF AdminInv, TypeOK, GoroutineInv, LiveWorkersAreCurrent,
                          At, MetaOf, Fresh
    <2>3. ThreadInv' /\ CycleInv'
        BY <1>1, <2>1, ThreadsKept DEF AdminInv, CycleInv, Fresh
    <2>4. NothingSkipped' /\ CycleStays' /\ CurrentRuns'
        BY <1>1, <2>1 DEF AdminInv, NothingSkipped, CycleStays, CurrentRuns
    <2> QED
        BY <2>2, <2>3, <2>4 DEF AdminInv
<1> QED
    BY <1>2, <1>3 DEF Boot

LEMMA SaveType ==
    ASSUME AdminInv, Save
    PROVE  saved' \in Meta /\ Covered(saved')
<1>1. current # None => current \in Objects
    BY DEF AdminInv, TypeOK
<1> QED
    BY <1>1 DEF Save, AdminInv, TypeOK, NothingSkipped, Cycle

LEMMA ProcessInv ==
    ASSUME AdminInv, SchedulerStart \/ StartCycles \/ Shutdown \/ Checkpoint \/ Crash
    PROVE  AdminInv'
<1>0. current # None => current \in Objects /\ ~Fresh(current)
    BY DEF AdminInv, TypeOK, CycleInv
<1>1. CASE SchedulerStart
    <2>1. /\ mode = "stopped" /\ mode' = "starting"
          /\ UNCHANGED <<file, current, cycle, work, cancel, cancelled, halted, saved, thread,
                         revived, wanted>>
        BY <1>1 DEF SchedulerStart, goroutines
    <2>2. TypeOK' /\ GoroutineInv' /\ LiveWorkersAreCurrent' /\ CurrentRuns'
        BY <2>1 DEF AdminInv, TypeOK, GoroutineInv, LiveWorkersAreCurrent, CurrentRuns,
                    At, MetaOf, Fresh
    <2>3. ThreadInv' /\ CycleInv' /\ NothingSkipped' /\ CycleStays'
        BY <2>1, ThreadsKept DEF AdminInv, CycleInv, NothingSkipped, CycleStays, Fresh
    <2> QED
        BY <2>2, <2>3 DEF AdminInv
<1>2. CASE StartCycles
    <2>1. /\ mode = "starting" /\ mode' = "running"
          /\ UNCHANGED <<file, current, cycle, saved, thread, revived, wanted>>
        BY <1>2 DEF StartCycles
    <2>2. CASE current = None /\ UNCHANGED goroutines
        <3>1. UNCHANGED <<work, cancel, cancelled, halted>>
            BY <2>2 DEF goroutines
        <3>2. TypeOK' /\ GoroutineInv' /\ LiveWorkersAreCurrent' /\ CurrentRuns'
            BY <2>1, <2>2, <3>1 DEF AdminInv, TypeOK, GoroutineInv, LiveWorkersAreCurrent,
                                    CurrentRuns, At, MetaOf, Fresh
        <3>3. ThreadInv' /\ CycleInv' /\ NothingSkipped' /\ CycleStays'
            BY <2>1, <2>2, <3>1, ThreadsKept DEF AdminInv, CycleInv, NothingSkipped, CycleStays, Fresh
        <3> QED
            BY <3>2, <3>3 DEF AdminInv
    <2>3. CASE current # None /\ Start(current)
        <3>1. /\ GoroutineInv' /\ work' \in [Workers -> Work] /\ halted' \in SUBSET Objects
              /\ cancel' \in [Objects -> Workers \union {None}] /\ cancelled' = cancelled
              /\ LiveWorkersAreCurrent'
              /\ \E w \in Workers : /\ cancel'[current] = w /\ work'[w].of = current
                                    /\ w \notin cancelled'
            BY <1>0, <2>1, <2>3, StartServes
        <3>2. TypeOK' /\ CurrentRuns'
            BY <2>1, <3>1 DEF AdminInv, TypeOK, CurrentRuns
        <3>3. ThreadInv' /\ CycleInv' /\ NothingSkipped' /\ CycleStays'
            BY <2>1, <2>3, ThreadsKept DEF AdminInv, CycleInv, NothingSkipped, CycleStays, Fresh
        <3> QED
            BY <3>1, <3>2, <3>3 DEF AdminInv
    <2> QED
        BY <1>2, <2>2, <2>3 DEF StartCycles
<1>3. CASE Shutdown
    <2>1. /\ mode = "running" /\ mode' = "stopped" /\ Save
          /\ UNCHANGED <<file, current, cycle, thread, revived, wanted>>
        BY <1>3 DEF Shutdown
    <2>2. /\ GoroutineInv' /\ cancelled' \in SUBSET Workers /\ halted' \in SUBSET Objects
          /\ UNCHANGED <<work, cancel>>
          /\ \A w \in Workers : w \notin cancelled' => w \notin cancelled
        <3>1. CASE current = None /\ UNCHANGED goroutines
            BY <2>1, <3>1 DEF AdminInv, TypeOK, GoroutineInv, At, MetaOf, Fresh, goroutines
        <3>2. CASE current # None /\ Stop(current)
            BY <1>0, <2>1, <3>2, StopStep, StopKeeps DEF AdminInv
        <3> QED
            BY <1>3, <3>1, <3>2 DEF Shutdown
    <2>3. TypeOK' /\ LiveWorkersAreCurrent' /\ CurrentRuns'
        BY <2>1, <2>2, SaveType DEF AdminInv, TypeOK, LiveWorkersAreCurrent, CurrentRuns, At
    <2>4. ThreadInv' /\ CycleInv' /\ NothingSkipped' /\ CycleStays'
        BY <2>1, SaveType, ThreadsKept DEF AdminInv, CycleInv, NothingSkipped, CycleStays, Fresh, At
    <2> QED
        BY <2>2, <2>3, <2>4 DEF AdminInv
<1>4. CASE Checkpoint
    <2>1. /\ Save /\ mode = "running"
          /\ UNCHANGED <<file, mode, current, cycle, work, cancel, cancelled, thread, halted,
                         revived, wanted>>
        BY <1>4 DEF Checkpoint, goroutines
    <2>2. TypeOK' /\ GoroutineInv' /\ LiveWorkersAreCurrent' /\ CurrentRuns'
        BY <2>1, SaveType DEF AdminInv, TypeOK, GoroutineInv, LiveWorkersAreCurrent,
                              CurrentRuns, At, MetaOf, Fresh
    <2>3. ThreadInv' /\ CycleInv' /\ NothingSkipped' /\ CycleStays'
        BY <2>1, SaveType, ThreadsKept DEF AdminInv, CycleInv, NothingSkipped, CycleStays, Fresh
    <2> QED
        BY <2>2, <2>3 DEF AdminInv
<1>5. CASE Crash
    BY <1>5, ConstantTypes, NoneAssumption
       DEF Crash, AdminInv, TypeOK, GoroutineInv, ThreadInv, CycleInv, NothingSkipped,
           CycleStays, LiveWorkersAreCurrent, CurrentRuns, At, Fresh, IdleWork,
           IdleThread, NoCycle
<1> QED
    BY <1>1, <1>2, <1>3, <1>4, <1>5

-----------------------------------------------------------------------------
(* The theorems. *)

LEMMA InitInv ==
    ASSUME Init
    PROVE  AdminInv
<1>1. /\ current = None /\ mode = "down" /\ wanted = FALSE /\ cancelled = {} /\ halted = {}
      /\ saved = EmptyMeta /\ file \in Files /\ revived = {}
      /\ cycle = [o \in Objects |-> NoCycle]
      /\ work = [w \in Workers |-> IdleWork]
      /\ cancel = [o \in Objects |-> None]
      /\ thread = [t \in Threads |-> IdleThread]
    BY DEF Init
<1>2. TypeOK
    BY <1>1, ConstantTypes DEF TypeOK
<1>3. GoroutineInv /\ ThreadInv /\ CycleInv
    BY <1>1, NoneAssumption DEF GoroutineInv, ThreadInv, CycleInv, At, Fresh, IdleWork,
                                IdleThread, NoCycle
<1>4. NothingSkipped /\ CycleStays /\ LiveWorkersAreCurrent /\ CurrentRuns
    BY <1>1, ConstantTypes DEF NothingSkipped, CycleStays, LiveWorkersAreCurrent,
                               CurrentRuns, At, IdleWork, IdleThread, NoCycle
<1> QED
    BY <1>2, <1>3, <1>4 DEF AdminInv

LEMMA NextInv ==
    ASSUME AdminInv, [Next]_vars
    PROVE  AdminInv'
<1>1. ASSUME NEW w \in Workers, Worker(w)
      PROVE  AdminInv'
    BY <1>1, WorkerStep
<1>2. ASSUME NEW t \in Threads, Call(t)
      PROVE  AdminInv'
    BY <1>2, FindInv, ResumeInv, HaltInv, ThrottleInv DEF Call
<1>3. ASSUME NEW b \in Bodies, CreateCycle(b)
      PROVE  AdminInv'
    BY <1>3, CreateInv
<1>4. ASSUME NEW o \in Objects, Free(o)
      PROVE  AdminInv'
    BY <1>4, FreeInv
<1>5. CASE UNCHANGED vars
    BY <1>5 DEF vars, goroutines, AdminInv, TypeOK, GoroutineInv, ThreadInv, CycleInv,
                NothingSkipped, CycleStays, LiveWorkersAreCurrent, CurrentRuns, At, Fresh, MetaOf
<1> QED
    BY <1>1, <1>2, <1>3, <1>4, <1>5, DeleteInv, BootInv, ProcessInv DEF Next

\* What explains the next five: the properties of the API and, beside them, whom each
\* goroutine and each call works for, in every state.
THEOREM AdminInvariant == Spec => []AdminInv
<1>1. AdminInv /\ [Next]_vars => AdminInv'
    BY NextInv
<1> QED
    BY <1>1, InitInv, PTL DEF Spec

\* Types.
THEOREM TypeCorrect == Spec => []TypeOK
BY AdminInvariant, PTL DEF AdminInv

\* A pass that is carried from one cycle of the ID to the next, through S3 and a
\* restart or by a throttle change, skips no item it has not attempted, wherever one
\* goroutine counted at a time: whatever overlapped before, the next pass is whole.
THEOREM PassIsCarried == Spec => []NothingSkipped
BY AdminInvariant, PTL DEF AdminInv

\* A throttle change never leaves the ID without a cycle: what is made of a cycle
\* that was configured is a configuration that is valid.
THEOREM ThrottleKeepsTheCycle == Spec => []CycleStays
BY AdminInvariant, PTL DEF AdminInv

\* What goes on publishing, and can be stopped, is the cycle in the scheduler, or one
\* that was resumed after it left it: a deletion and a throttle change stop the cycle
\* they remove, however many resumes and starts came before.
THEOREM OthersAreStopped == Spec => []LiveWorkersAreCurrent
BY AdminInvariant, PTL DEF AdminInv

\* While the scheduler runs, the cycle in it has a goroutine that publishes and that a
\* stop would cancel, until it is stopped or that goroutine fails.
THEOREM TheCurrentCycleRuns == Spec => []CurrentRuns
BY AdminInvariant, PTL DEF AdminInv
=============================================================================
