--------------------------- MODULE ToggleWatch_proofs ---------------------------
(***************************************************************************)
(* Proofs about ToggleWatch, for every set of values, wherever the toggles *)
(* are kept, whatever fails and however often they change.  The inductive  *)
(* invariant says what the mode names (ModeNamesToggle) and what is handed *)
(* over (HandoverInv); that the toggles are obeyed follows from it.        *)
(***************************************************************************)
EXTENDS ToggleWatch, TLAPS

IInv == TypeOK /\ ModeNamesToggle /\ HandoverInv

(***************************************************************************)
(* The scheduler.                                                          *)
(***************************************************************************)

SchedulerOK ==
    /\ applied \in [Toggles -> Values \union {Nothing, Empty}]
    /\ mode \in Modes /\ last \in Modes
    /\ clash \in BOOLEAN

\* What a handler does to the mode, a case at a time.
LEMMA HandleMode ==
    ASSUME TypeOK, NEW t \in Toggles, NEW v, Handle(t, v)
    PROVE  /\ mode' \in Modes /\ last' \in Modes
           /\ v # On /\ mode \in {"running", "stopped", "unknown"} =>
                mode' = IF t = "manual" THEN "disabled" ELSE "autoDisabled"
           /\ v # On /\ mode \in {"disabled", "autoDisabled"} => mode' = mode
           /\ v = On /\ mode = "autoDisabled" =>
                mode' = IF t = "automatic" THEN "stopped" ELSE mode
           /\ v = On /\ mode = "disabled" =>
                mode' = IF t = "manual" THEN "stopped" ELSE mode
           /\ v = On /\ mode \in {"running", "stopped", "unknown"} => mode' \in {"running", "stopped"} \union {mode}
<1>1. mode \in Modes /\ last \in Modes
    BY DEF TypeOK
<1>2. CASE v = On
    BY <1>1, <1>2 DEF Handle, Enable, SetMode, Modes, Toggles
<1>3. CASE v # On
    <2>1. Off(t)
        BY <1>3 DEF Handle
    <2> QED  BY <1>1, <1>3, <2>1 DEF Off, Enabled, Modes, Toggles
<1> QED  BY <1>2, <1>3

\* When both are on there is no clash, and when both are off, and none is unknown,
\* there is.
LEMMA HandleClash ==
    ASSUME TypeOK, NEW t \in Toggles, NEW v \in Values \union {Empty}, Handle(t, v)
    PROVE  /\ applied' = [applied EXCEPT ![t] = v]
           /\ applied' \in [Toggles -> Values \union {Nothing, Empty}]
           /\ clash' \in BOOLEAN
           /\ clash' => \E u \in Toggles : applied'[u] # On
           /\ clash /\ (\E u \in Toggles : applied'[u] # On) => clash'
           /\ (\A u \in Toggles : applied'[u] \notin {On, Nothing}) => clash'
<1>1. applied' = [applied EXCEPT ![t] = v]
    BY DEF Handle
<1>2. applied' \in [Toggles -> Values \union {Nothing, Empty}]
    BY <1>1 DEF TypeOK
<1>3. clash' = /\ \E u \in Toggles : applied'[u] # On
               /\ clash \/ \A u \in Toggles : applied'[u] \notin {On, Nothing}
    BY DEF Handle
<1>4. clash' \in BOOLEAN
    BY <1>3, Zenon
<1>5. "manual" \in Toggles
    BY DEF Toggles
<1> QED  BY <1>1, <1>2, <1>3, <1>4, <1>5, Zenon

\* A handler's call keeps the mode true to the toggles, whether it is a watcher's or
\* the boot's.
LEMMA HandleInv ==
    ASSUME IInv, NEW t \in Toggles, NEW v \in Values \union {Empty}, Handle(t, v),
           \/ main'.pc = main.pc
           \/ main.pc = "manual" /\ t = "manual" /\ main'.pc = "automatic"
           \/ main.pc = "automatic" /\ t = "automatic" /\ main'.pc = "start"
    PROVE  SchedulerOK' /\ ModeNamesToggle'
<1> USE ValuesAssumption
<1>0. TypeOK /\ ModeNamesToggle /\ HandoverInv
    BY DEF IInv
<1>1. mode \in Modes /\ applied \in [Toggles -> Values \union {Nothing, Empty}]
      /\ clash \in BOOLEAN
    BY <1>0 DEF TypeOK
<1>2. v # Nothing
    OBVIOUS
<1>3. SchedulerOK'
    BY <1>0, HandleMode, HandleClash DEF SchedulerOK
<1>4. /\ applied'[t] = v
      /\ \A u \in Toggles \ {t} : applied'[u] = applied[u]
    BY <1>1, <1>0, HandleClash
<1>5. mode' # "unknown"
    BY <1>0, <1>1, HandleMode DEF ModeNamesToggle, Modes
<1>6. mode' = "disabled" => applied'["manual"] # On
    BY <1>0, <1>1, <1>4, HandleMode DEF ModeNamesToggle, Modes, Toggles
<1>7. mode' = "autoDisabled" => applied'["automatic"] \notin {On, Nothing}
    BY <1>0, <1>1, <1>2, <1>4, HandleMode DEF ModeNamesToggle, Modes, Toggles
<1>8. clash' => \E u \in Toggles : applied'[u] # On
    BY <1>0, HandleClash
<1>9. ASSUME ~clash', applied'["manual"] # On PROVE mode' = "disabled"
    <2>1. ~clash
        <3>1. \E u \in Toggles : applied'[u] # On
            BY <1>9 DEF Toggles
        <3> QED  BY <1>0, <1>9, <3>1, HandleClash
    <2>2. applied'["manual"] = Nothing \/ applied'["automatic"] \in {On, Nothing}
        BY <1>0, <1>9, HandleClash DEF Toggles
    <2>3. CASE t = "manual"
        <3>1. v # On /\ applied["automatic"] \in {On, Nothing}
            BY <1>2, <1>4, <1>9, <2>2, <2>3 DEF Toggles
        <3>2. mode # "autoDisabled"
            BY <1>0, <3>1 DEF ModeNamesToggle
        <3> QED  BY <1>0, <1>1, <2>3, <3>1, <3>2, HandleMode DEF Modes, ModeNamesToggle
    <2>4. CASE t = "automatic"
        <3>1. mode = "disabled"
            BY <1>0, <1>4, <1>9, <2>1, <2>4 DEF ModeNamesToggle, Toggles
        <3> QED  BY <1>0, <2>4, <3>1, HandleMode
    <2> QED  BY <2>3, <2>4 DEF Toggles
<1>10. ASSUME ~clash', main'.pc \in {"start", "done"}, applied'["automatic"] # On
       PROVE  mode' = "autoDisabled"
    <2>1. ~clash
        <3>1. \E u \in Toggles : applied'[u] # On
            BY <1>10 DEF Toggles
        <3> QED  BY <1>0, <1>10, <3>1, HandleClash
    <2>2. applied'["manual"] \in {On, Nothing} \/ applied'["automatic"] = Nothing
        BY <1>0, <1>10, HandleClash DEF Toggles
    <2>3. CASE t = "automatic"
        <3>1. main.pc \in {"automatic", "start", "done"}
            BY <1>10, <2>3
        <3>2. applied["manual"] = On
            BY <1>0, <1>2, <1>4, <2>2, <2>3, <3>1 DEF HandoverInv, Toggles
        <3>3. mode # "disabled" /\ v # On
            BY <1>0, <1>4, <1>10, <2>3, <3>2 DEF ModeNamesToggle
        <3> QED  BY <1>0, <1>1, <2>3, <3>3, HandleMode DEF Modes, ModeNamesToggle
    <2>4. CASE t = "manual"
        <3>1. main.pc \in {"start", "done"}
            BY <1>10, <2>4
        <3>2. mode = "autoDisabled" /\ applied["automatic"] # Nothing
            BY <1>0, <1>4, <1>10, <2>1, <2>4, <3>1 DEF ModeNamesToggle, HandoverInv, Toggles
        <3>3. v = On
            BY <1>2, <1>4, <2>2, <2>4, <3>2 DEF Toggles
        <3> QED  BY <1>0, <2>4, <3>2, <3>3, HandleMode
    <2> QED  BY <2>3, <2>4 DEF Toggles
<1> QED  BY <1>3, <1>5, <1>6, <1>7, <1>8, <1>9, <1>10 DEF ModeNamesToggle

\* A start, a shutdown or a health check leaves it alone whether it is enabled.
LEMMA RunInv ==
    ASSUME IInv, mode \in {"running", "stopped"}, mode' \in {"running", "stopped"},
           last' \in Modes, UNCHANGED <<applied, clash>>,
           main'.pc = main.pc \/ (main.pc = "start" /\ main'.pc = "done")
    PROVE  SchedulerOK' /\ ModeNamesToggle'
<1>1. SchedulerOK'
    BY DEF IInv, TypeOK, SchedulerOK, Modes
<1>2. ~clash => applied["manual"] = On
    BY DEF IInv, ModeNamesToggle
<1>3. ~clash /\ main.pc \in {"start", "done"} => applied["automatic"] = On
    BY DEF IInv, ModeNamesToggle
<1> QED  BY <1>1, <1>2, <1>3 DEF ModeNamesToggle, IInv

\* Nor does a call that is refused.
LEMMA IdleInv ==
    ASSUME IInv, UNCHANGED <<applied, mode, last, clash>>,
           \/ main'.pc = main.pc \/ (main.pc = "start" /\ main'.pc = "done")
           \/ main'.pc \in {"watch", "manual", "panic"}
    PROVE  SchedulerOK' /\ ModeNamesToggle'
BY DEF IInv, TypeOK, SchedulerOK, ModeNamesToggle

LEMMA StartInv ==
    ASSUME IInv, Start, UNCHANGED <<applied, clash>>,
           main'.pc = main.pc \/ (main.pc = "start" /\ main'.pc = "done")
    PROVE  SchedulerOK' /\ ModeNamesToggle'
<1>1. CASE Enabled
    <2>1. mode \in {"running", "stopped"}
        BY <1>1 DEF IInv, TypeOK, ModeNamesToggle, Enabled, Modes
    <2>2. mode' = "running" /\ last' \in Modes
        BY <1>1, <2>1 DEF Start, SetMode, IInv, TypeOK, Modes
    <2> QED  BY <2>1, <2>2, RunInv
<1>2. CASE ~Enabled
    BY <1>2, IdleInv DEF Start
<1> QED  BY <1>1, <1>2

(***************************************************************************)
(* The boot, the watchers and the operator.                                *)
(***************************************************************************)

Watcher == [pc : {"off", "register", "wait", "sleep", "call"},
            seen : Values \union {Nothing}, registered : BOOLEAN, indexed : BOOLEAN]

WatchersOK ==
    /\ watcher \in [Toggles -> Watcher]
    /\ events \in [Toggles -> Seq(Values)]

BootOK == main \in [pc : {"read", "watch", "manual", "automatic", "start", "done", "panic"},
                    value : [Toggles -> Values \union {Nothing, Empty}]]

OperatorOK ==
    /\ toggle \in [Toggles -> Values] /\ changes \in 0..MaxChanges
    /\ heard \in [Toggles -> BOOLEAN] /\ halted \in BOOLEAN

PlaceOK == source \in Sources /\ listed \subseteq Toggles

LEMMA TypeParts == TypeOK <=> /\ PlaceOK /\ BootOK
                              /\ WatchersOK /\ SchedulerOK /\ OperatorOK
BY DEF TypeOK, PlaceOK, WatchersOK, Watcher, SchedulerOK, BootOK, OperatorOK

LEMMA InitInv == Init => IInv
<1> SUFFICES ASSUME Init PROVE IInv
    OBVIOUS
<1> USE ValuesAssumption
<1>1. PlaceOK /\ BootOK
    BY DEF Init, PlaceOK, BootOK
<1>2. WatchersOK
    <2>1. FALSE \in BOOLEAN
        OBVIOUS
    <2>2. [pc |-> "off", seen |-> Nothing, registered |-> FALSE, indexed |-> FALSE] \in Watcher
        BY <2>1, Zenon DEF Watcher
    <2>3. <<>> \in Seq(Values)
        OBVIOUS
    <2>4. watcher \in [Toggles -> Watcher] /\ events \in [Toggles -> Seq(Values)]
        BY <2>2, <2>3, Zenon DEF Init
    <2> QED  BY <2>4 DEF WatchersOK
<1>3. SchedulerOK
    BY DEF Init, SchedulerOK, Modes
<1>4. OperatorOK
    <2>1. toggle \in [Toggles -> Values] /\ changes \in 0..MaxChanges
        BY DEF Init
    <2>2. ASSUME NEW t \in Toggles PROVE (t \in listed) \in BOOLEAN
        <3>1. CASE t \in listed
            BY <3>1
        <3>2. CASE t \notin listed
            BY <3>2
        <3> QED
            BY <3>1, <3>2, Zenon
    <2>3. [t \in Toggles |-> t \in listed] \in [Toggles -> BOOLEAN]
        BY <2>2, Zenon
    <2>4. heard \in [Toggles -> BOOLEAN] /\ halted \in BOOLEAN
        <3>1. FALSE \in BOOLEAN
            BY Zenon
        <3> QED
            BY <2>3, <3>1, Zenon DEF Init
    <2> QED  BY <2>1, <2>4 DEF OperatorOK
<1>5. ModeNamesToggle
    BY DEF Init, ModeNamesToggle, Toggles
<1>6. HandoverInv
    BY DEF Init, HandoverInv
<1> QED  BY <1>1, <1>2, <1>3, <1>4, <1>5, <1>6, TypeParts DEF IInv

LEMMA BootInv ==
    ASSUME IInv, Boot
    PROVE  IInv'
<1> USE ValuesAssumption
<1>0. PlaceOK /\ BootOK /\ WatchersOK /\ SchedulerOK /\ OperatorOK
      /\ ModeNamesToggle /\ HandoverInv
    BY TypeParts DEF IInv
<1>1. CASE BootRead
    <2>1. main.pc = "read" /\ UNCHANGED <<source, listed, watcher, events, applied, mode, last, clash>>
          /\ UNCHANGED <<toggle, changes, heard, halted>>
        BY <1>1 DEF BootRead, watching, scheduler, operator
    <2>2. PICK failed \in SUBSET Toggles :
            main' = [pc |-> IF source = "etcd" /\ failed # {} THEN "panic" ELSE "watch",
                     value |-> [t \in Toggles |-> IF t \in failed THEN Empty ELSE toggle[t]]]
        BY <1>1 DEF BootRead
    <2>3. main'.pc \in {"watch", "panic"}
        BY <2>2
    <2>4. \A t \in Toggles : main'.value[t] \in Values \union {Empty}
        BY <1>0, <2>2 DEF OperatorOK
    <2>5. BootOK'
        BY <2>2, <2>4 DEF BootOK
    <2>6. SchedulerOK' /\ ModeNamesToggle'
        BY <2>1, <2>3, IdleInv
    <2>7. HandoverInv'
        BY <1>0, <2>1, <2>3, <2>4 DEF HandoverInv
    <2>8. WatchersOK' /\ OperatorOK' /\ PlaceOK'
        BY <1>0, <2>1 DEF PlaceOK, WatchersOK, OperatorOK
    <2> QED  BY <2>5, <2>6, <2>7, <2>8, TypeParts DEF IInv, TypeOK, PlaceOK, BootOK, WatchersOK, SchedulerOK, OperatorOK, Watcher
<1>2. CASE BootWatch
    <2>1. main.pc = "watch" /\ UNCHANGED <<source, listed, events, applied, mode, last, clash>>
          /\ UNCHANGED <<toggle, changes, heard, halted>>
        BY <1>2 DEF BootWatch, scheduler, operator
    <2>2. main' = [main EXCEPT !.pc = "manual"]
        BY <1>2 DEF BootWatch
    <2>3. BootOK' /\ main'.pc = "manual" /\ main'.value = main.value
        BY <1>0, <2>2 DEF BootOK
    <2>4. watcher' = [t \in Toggles |-> [watcher[t] EXCEPT
                          !.pc = IF source = "file" THEN "wait" ELSE "register"]]
        BY <1>2 DEF BootWatch
    <2>5. WatchersOK' /\ \A t \in Toggles : watcher'[t].pc # "call"
        BY <1>0, <2>1, <2>4 DEF WatchersOK, Watcher
    <2>6. SchedulerOK' /\ ModeNamesToggle'
        BY <2>1, <2>3, IdleInv
    <2>7. HandoverInv'
        BY <1>0, <2>1, <2>3, <2>5 DEF HandoverInv
    <2>8. OperatorOK' /\ PlaceOK'
        BY <1>0, <2>1 DEF PlaceOK, OperatorOK
    <2> QED  BY <2>3, <2>5, <2>6, <2>7, <2>8 DEF IInv, TypeOK, PlaceOK, BootOK, WatchersOK, SchedulerOK, OperatorOK, Watcher
<1>3. ASSUME NEW t \in Toggles, NEW next \in {"automatic", "start"},
             t = "manual" <=> next = "automatic", BootApply(t, next)
      PROVE  IInv'
    <2>1. main.pc = t /\ UNCHANGED <<source, listed, watcher, events>>
          /\ UNCHANGED <<toggle, changes, heard, halted>>
        BY <1>3 DEF BootApply, watching, operator
    <2>2. main' = [main EXCEPT !.pc = next] /\ Handle(t, main.value[t])
        BY <1>3 DEF BootApply
    <2>3. BootOK' /\ main'.pc = next /\ main'.value = main.value
        BY <1>0, <2>2 DEF BootOK
    <2>4. main.value[t] \in Values \union {Empty}
        BY <1>0, <2>1 DEF BootOK, HandoverInv, Toggles
    <2>5. SchedulerOK' /\ ModeNamesToggle'
        BY <1>3, <2>1, <2>2, <2>3, <2>4, HandleInv DEF Toggles
    <2>6. applied' = [applied EXCEPT ![t] = main.value[t]]
        BY <2>2 DEF Handle
    <2>7. applied'[t] # Nothing
        BY <1>0, <2>4, <2>6 DEF SchedulerOK
    <2>8. HandoverInv'
        BY <1>0, <1>3, <2>1, <2>3, <2>6, <2>7 DEF HandoverInv, SchedulerOK, Toggles
    <2>9. WatchersOK' /\ OperatorOK' /\ PlaceOK'
        BY <1>0, <2>1 DEF PlaceOK, WatchersOK, OperatorOK
    <2> QED  BY <2>3, <2>5, <2>8, <2>9 DEF IInv, TypeOK, PlaceOK, BootOK, WatchersOK, SchedulerOK, OperatorOK, Watcher
<1>4. CASE BootStart
    <2>1. main.pc = "start" /\ UNCHANGED <<source, listed, watcher, events, applied, clash>>
          /\ UNCHANGED <<toggle, changes, heard, halted>>
        BY <1>4 DEF BootStart, watching, operator
    <2>2. Start /\ main' = [main EXCEPT !.pc = "done"]
        BY <1>4 DEF BootStart
    <2>3. BootOK' /\ main'.pc = "done" /\ main'.value = main.value
        BY <1>0, <2>2 DEF BootOK
    <2>4. SchedulerOK' /\ ModeNamesToggle'
        BY <2>1, <2>2, <2>3, StartInv
    <2>5. HandoverInv'
        BY <1>0, <2>1, <2>3 DEF HandoverInv
    <2>6. WatchersOK' /\ OperatorOK' /\ PlaceOK'
        BY <1>0, <2>1 DEF PlaceOK, WatchersOK, OperatorOK
    <2> QED  BY <2>3, <2>4, <2>5, <2>6 DEF IInv, TypeOK, PlaceOK, BootOK, WatchersOK, SchedulerOK, OperatorOK, Watcher
<1>5. ASSUME BootApply("manual", "automatic") \/ BootApply("automatic", "start") PROVE IInv'
    <2>1. "manual" \in Toggles /\ "automatic" \in Toggles
        BY DEF Toggles
    <2> QED  BY <1>3, <1>5, <2>1
<1> QED  BY <1>1, <1>2, <1>4, <1>5 DEF Boot

\* The steps of a watcher that call nothing leave the rest alone.
LEMMA WatcherStep ==
    ASSUME IInv, WatchersOK', UNCHANGED <<source, listed, main, scheduler, operator>>,
           \A t \in Toggles : watcher'[t].pc = "call" => watcher'[t].seen # Nothing
    PROVE  IInv'
<1>1. UNCHANGED <<applied, mode, last, clash, toggle, changes, heard, halted, source, listed, main>>
    BY DEF scheduler, operator
<1>2. ModeNamesToggle' /\ HandoverInv'
    BY <1>1 DEF IInv, ModeNamesToggle, HandoverInv
<1> QED  BY <1>1, <1>2 DEF IInv, TypeOK, PlaceOK, WatchersOK, Watcher

\* A watcher is replaced by one that hands over nothing but what it has seen.
LEMMA SetWatcher ==
    ASSUME WatchersOK, HandoverInv, NEW t \in Toggles, NEW r \in Watcher,
           watcher' = [watcher EXCEPT ![t] = r], r.pc = "call" => r.seen # Nothing
    PROVE  /\ watcher' \in [Toggles -> Watcher]
           /\ \A u \in Toggles : watcher'[u].pc = "call" => watcher'[u].seen # Nothing
<1>1. watcher \in [Toggles -> Watcher]
    BY DEF WatchersOK
<1>2. watcher' \in [Toggles -> Watcher]
    BY <1>1
<1>3. \A u \in Toggles : watcher'[u] = IF u = t THEN r ELSE watcher[u]
    BY <1>1
<1>4. \A u \in Toggles : watcher[u].pc = "call" => watcher[u].seen # Nothing
    BY DEF HandoverInv
<1> QED
    BY <1>2, <1>3, <1>4

LEMMA NextInv == IInv /\ [Next]_vars => IInv'
<1> SUFFICES ASSUME IInv, [Next]_vars PROVE IInv'
    OBVIOUS
<1> USE ValuesAssumption
<1>0. PlaceOK /\ BootOK /\ WatchersOK /\ SchedulerOK /\ OperatorOK
      /\ ModeNamesToggle /\ HandoverInv
    BY TypeParts DEF IInv
<1>1. CASE UNCHANGED vars
    <2>1. UNCHANGED <<source, listed, main, watcher, events, applied, mode, last, clash>>
          /\ UNCHANGED <<toggle, changes, heard, halted>>
        BY <1>1 DEF vars, watching, scheduler, operator
    <2> QED  BY <2>1 DEF IInv, TypeOK, PlaceOK, ModeNamesToggle, HandoverInv
<1>2. CASE Boot
    BY <1>2, BootInv
<1>3. CASE HealthCheck
    <2>1. /\ mode \in {"running", "stopped"} /\ mode' \in {"running", "stopped"}
          /\ last' \in Modes
        BY <1>0, <1>3 DEF HealthCheck, SetMode, SchedulerOK
    <2>2. UNCHANGED <<source, listed, main, watcher, events, applied, clash>>
          /\ UNCHANGED <<toggle, changes, heard, halted>>
        BY <1>3 DEF HealthCheck, watching, operator
    <2>3. SchedulerOK' /\ ModeNamesToggle'
        BY <2>1, <2>2, RunInv
    <2> QED  BY <1>0, <2>2, <2>3 DEF IInv, TypeOK, PlaceOK, HandoverInv, SchedulerOK, WatchersOK, BootOK, OperatorOK, Watcher
<1>4. CASE StartCall
    <2>1. /\ Start /\ halted' = FALSE
          /\ UNCHANGED <<source, listed, main, watcher, events, applied, clash, toggle, changes, heard>>
        BY <1>4 DEF StartCall, watching
    <2>2. SchedulerOK' /\ ModeNamesToggle'
        BY <2>1, StartInv
    <2>3. OperatorOK'
        BY <1>0, <2>1 DEF OperatorOK
    <2> QED  BY <1>0, <2>1, <2>2, <2>3 DEF IInv, TypeOK, PlaceOK, HandoverInv, SchedulerOK, WatchersOK, BootOK, OperatorOK, Watcher
<1>5. CASE ShutdownCall
    <2>1. /\ mode = "running" /\ mode' = "stopped" /\ last' \in Modes /\ halted' = TRUE
          /\ UNCHANGED <<source, listed, main, watcher, events, applied, clash, toggle, changes, heard>>
        BY <1>0, <1>5 DEF ShutdownCall, SetMode, watching, Modes
    <2>2. SchedulerOK' /\ ModeNamesToggle'
        BY <2>1, RunInv
    <2>3. OperatorOK'
        BY <1>0, <2>1 DEF OperatorOK
    <2> QED  BY <1>0, <2>1, <2>2, <2>3 DEF IInv, TypeOK, PlaceOK, HandoverInv, SchedulerOK, WatchersOK, BootOK, OperatorOK, Watcher
<1>6. ASSUME NEW t \in Toggles, FileTick(t) PROVE IInv'
    <2>1. toggle[t] \in Values /\ toggle[t] # Nothing
        BY <1>0 DEF OperatorOK
    <2>2. /\ watcher' = [watcher EXCEPT ![t].pc = "call", ![t].seen = toggle[t]]
          /\ UNCHANGED <<events, source, listed, main, scheduler, operator>>
        BY <1>6 DEF FileTick, Ticking
    <2>3. watcher[t] \in Watcher
        BY <1>0 DEF WatchersOK
    <2> DEFINE r == [watcher[t] EXCEPT !.pc = "call", !.seen = toggle[t]]
    <2>4. r \in Watcher /\ r.seen # Nothing
        BY <2>1, <2>3 DEF Watcher
    <2>5. watcher' = [watcher EXCEPT ![t] = r]
        BY <1>0, <2>2 DEF WatchersOK, Watcher
    <2> HIDE DEF r
    <2>6. WatchersOK' /\ \A u \in Toggles : watcher'[u].pc = "call" => watcher'[u].seen # Nothing
        BY <1>0, <2>2, <2>4, <2>5, SetWatcher DEF WatchersOK
    <2> QED  BY <2>2, <2>6, WatcherStep
<1>7. ASSUME NEW t \in Toggles, Register(t) PROVE IInv'
    <2>1. /\ watcher' = [watcher EXCEPT ![t].pc = "wait", ![t].registered = TRUE]
          /\ UNCHANGED <<events, source, listed, main, scheduler, operator>>
        BY <1>7 DEF Register
    <2>2. watcher[t] \in Watcher
        BY <1>0 DEF WatchersOK
    <2> DEFINE r == [watcher[t] EXCEPT !.pc = "wait", !.registered = TRUE]
    <2>3. r \in Watcher /\ r.pc # "call"
        BY <2>2 DEF Watcher
    <2>4. watcher' = [watcher EXCEPT ![t] = r]
        BY <1>0, <2>1 DEF WatchersOK, Watcher
    <2> HIDE DEF r
    <2>5. WatchersOK' /\ \A u \in Toggles : watcher'[u].pc = "call" => watcher'[u].seen # Nothing
        BY <1>0, <2>1, <2>3, <2>4, SetWatcher DEF WatchersOK
    <2> QED  BY <2>1, <2>5, WatcherStep
<1>8. ASSUME NEW t \in Toggles, Event(t) PROVE IInv'
    <2>1. /\ events[t] # <<>> /\ events[t] \in Seq(Values)
          /\ watcher' = [watcher EXCEPT ![t].pc = "call", ![t].seen = Head(events[t]),
                                        ![t].indexed = TRUE]
          /\ events' = [events EXCEPT ![t] = Tail(events[t])]
          /\ UNCHANGED <<source, listed, main, scheduler, operator>>
        BY <1>0, <1>8 DEF Event, WatchersOK
    <2>2. Head(events[t]) \in Values /\ Tail(events[t]) \in Seq(Values)
        BY <2>1
    <2>3. events' \in [Toggles -> Seq(Values)]
        BY <1>0, <2>1, <2>2 DEF WatchersOK
    <2>4. PICK v \in Values : watcher' = [watcher EXCEPT ![t].pc = "call", ![t].seen = v,
                                                        ![t].indexed = TRUE]
        BY <2>1, <2>2
    <2>5. watcher[t] \in Watcher /\ v # Nothing
        BY <1>0, ValuesAssumption DEF WatchersOK
    <2> DEFINE r == [watcher[t] EXCEPT !.pc = "call", !.seen = v, !.indexed = TRUE]
    <2>6. r \in Watcher /\ r.seen # Nothing
        BY <2>5 DEF Watcher
    <2>7. watcher' = [watcher EXCEPT ![t] = r]
        BY <1>0, <2>4 DEF WatchersOK, Watcher
    <2> HIDE DEF r
    <2>8. WatchersOK' /\ \A u \in Toggles : watcher'[u].pc = "call" => watcher'[u].seen # Nothing
        BY <1>0, <2>3, <2>6, <2>7, SetWatcher DEF WatchersOK
    <2> QED  BY <2>1, <2>8, WatcherStep
<1>9. ASSUME NEW t \in Toggles, EventFailed(t) PROVE IInv'
    <2>1. /\ watcher' = [watcher EXCEPT ![t].pc = "sleep", ![t].registered = watcher[t].indexed]
          /\ events' = [events EXCEPT ![t] = IF watcher[t].indexed THEN events[t] ELSE <<>>]
          /\ UNCHANGED <<source, listed, main, scheduler, operator>>
        BY <1>9 DEF EventFailed
    <2>2. events' \in [Toggles -> Seq(Values)]
        BY <1>0, <2>1 DEF WatchersOK
    <2>3. PICK b \in BOOLEAN : watcher' = [watcher EXCEPT ![t].pc = "sleep", ![t].registered = b]
        BY <1>0, <2>1 DEF WatchersOK, Watcher
    <2>4. watcher[t] \in Watcher
        BY <1>0 DEF WatchersOK
    <2> DEFINE r == [watcher[t] EXCEPT !.pc = "sleep", !.registered = b]
    <2>5. r \in Watcher /\ r.pc # "call"
        BY <2>4 DEF Watcher
    <2>6. watcher' = [watcher EXCEPT ![t] = r]
        BY <1>0, <2>3 DEF WatchersOK, Watcher
    <2> HIDE DEF r
    <2>7. WatchersOK' /\ \A u \in Toggles : watcher'[u].pc = "call" => watcher'[u].seen # Nothing
        BY <1>0, <2>2, <2>5, <2>6, SetWatcher DEF WatchersOK
    <2> QED  BY <2>1, <2>7, WatcherStep
<1>10. ASSUME NEW t \in Toggles, Retry(t) PROVE IInv'
    <2>1. /\ watcher' = [watcher EXCEPT ![t].pc = "register"]
          /\ UNCHANGED <<events, source, listed, main, scheduler, operator>>
        BY <1>10 DEF Retry
    <2>2. WatchersOK' /\ \A u \in Toggles : watcher'[u].pc = "call" => watcher'[u].seen # Nothing
        BY <1>0, <2>1 DEF WatchersOK, Watcher, HandoverInv
    <2> QED  BY <2>1, <2>2, WatcherStep
<1>11. ASSUME NEW t \in Toggles, RunCallback(t) PROVE IInv'
    <2>1. /\ watcher[t].pc = "call" /\ Handle(t, watcher[t].seen)
          /\ watcher' = [watcher EXCEPT ![t].pc = "wait"]
          /\ UNCHANGED <<source, listed, main, events, toggle, changes, heard, halted>>
        BY <1>11 DEF RunCallback, operator
    <2>2. watcher[t].seen \in Values
        BY <1>0, <2>1 DEF WatchersOK, Watcher, HandoverInv
    <2>3. SchedulerOK' /\ ModeNamesToggle'
        BY <2>1, <2>2, HandleInv
    <2>4. WatchersOK' /\ \A u \in Toggles : watcher'[u].pc = "call" => watcher'[u].seen # Nothing
        BY <1>0, <2>1 DEF WatchersOK, Watcher, HandoverInv
    <2>5. applied' = [applied EXCEPT ![t] = watcher[t].seen]
        BY <2>1 DEF Handle
    <2>6. \A u \in Toggles : applied[u] # Nothing => applied'[u] # Nothing
        BY <1>0, <2>2, <2>5 DEF SchedulerOK
    <2>7. HandoverInv'
        BY <1>0, <2>1, <2>4, <2>6 DEF HandoverInv, Toggles
    <2> QED  BY <1>0, <2>1, <2>3, <2>4, <2>7 DEF IInv, TypeOK, PlaceOK, SchedulerOK, WatchersOK, BootOK, OperatorOK, Watcher
<1>12. ASSUME NEW t \in Toggles, Change(t) PROVE IInv'
    <2>1. PICK v \in Values :
            /\ toggle' = [toggle EXCEPT ![t] = v]
            /\ events' = IF watcher[t].registered THEN [events EXCEPT ![t] = Append(events[t], v)]
                         ELSE events
        BY <1>12 DEF Change
    <2>2. /\ changes < MaxChanges /\ changes' = changes + 1
          /\ heard' = [heard EXCEPT ![t] =
                          t \in listed \/ (main.pc = "done" /\ watcher[t].indexed)]
          /\ UNCHANGED <<source, listed, main, watcher, applied, mode, last, clash, halted>>
        BY <1>12 DEF Change, scheduler
    <2>3. heard' \in [Toggles -> BOOLEAN]
        BY <1>0, <2>2, Zenon DEF OperatorOK
    <2>4. OperatorOK'
        BY <1>0, <2>1, <2>2, <2>3 DEF OperatorOK
    <2>5. events' \in [Toggles -> Seq(Values)]
        BY <1>0, <2>1 DEF WatchersOK
    <2>6. ModeNamesToggle' /\ HandoverInv'
        BY <1>0, <2>2 DEF ModeNamesToggle, HandoverInv
    <2> QED  BY <1>0, <2>2, <2>4, <2>5, <2>6 DEF IInv, TypeOK, PlaceOK, SchedulerOK, WatchersOK, BootOK, OperatorOK, Watcher
<1> QED
    BY <1>1, <1>2, <1>3, <1>4, <1>5, <1>6, <1>7, <1>8, <1>9, <1>10, <1>11, <1>12 DEF Next

LEMMA Invariant == Spec => []IInv
BY InitInv, NextInv, PTL DEF Spec

(***************************************************************************)
(* What follows.                                                           *)
(***************************************************************************)

\* Every state of the toggles, their watchers and the boot is well typed.
THEOREM TypeCorrect == Spec => []TypeOK
<1>1. IInv => TypeOK
    BY DEF IInv
<1> QED  BY <1>1, Invariant, PTL

\* Without a clash the mode says which toggle is off.
THEOREM ModeIsNamed == Spec => []ModeNamesToggle
<1>1. IInv => ModeNamesToggle
    BY DEF IInv
<1> QED  BY <1>1, Invariant, PTL

\* After the boot the carousel is enabled exactly if both toggles are on, as far as
\* it was told, unless both were off at once.
THEOREM BothTogglesDecide == Spec => []TogglesObeyed
<1>1. IInv => TogglesObeyed
    <2> SUFFICES ASSUME IInv, main.pc \in {"start", "done"}, ~clash
                 PROVE  Enabled <=> \A t \in Toggles : applied[t] = On
        BY DEF TogglesObeyed
    <2>1. Enabled => \A t \in Toggles : applied[t] = On
        BY DEF IInv, ModeNamesToggle, Enabled, Toggles
    <2>2. (\A t \in Toggles : applied[t] = On) => Enabled
        BY DEF IInv, ModeNamesToggle, Enabled, Toggles
    <2> QED  BY <2>1, <2>2
<1> QED  BY <1>1, Invariant, PTL

(***************************************************************************)
(* What was heard is applied.                                              *)
(***************************************************************************)

\* A toggle that a step does not concern, unless the boot ends.
Same(u) == UNCHANGED <<watcher[u], events[u], heard[u], applied[u], toggle[u]>>

LEMMA OthersHeard ==
    ASSUME HeardInv, UNCHANGED <<source, listed>>, main.pc = "done" => main'.pc = "done",
           main.pc = "start" => main'.pc \in {"start", "done"},
           NEW t \in Toggles, \A u \in Toggles \ {t} : Same(u),
           IF source = "file" THEN HeardFile(t)' ELSE HeardEtcd(t)'
    PROVE  HeardInv'
<1> SUFFICES ASSUME NEW u \in Toggles \ {t}
             PROVE  IF source = "file" THEN HeardFile(u)' ELSE HeardEtcd(u)'
    BY DEF HeardInv
<1>1. Same(u) /\ IF source = "file" THEN HeardFile(u) ELSE HeardEtcd(u)
    BY DEF HeardInv
<1> QED
    BY <1>1 DEF Same, HeardFile, HeardEtcd

\* Before the boot has handed over both toggles nothing was seen of a file, and before it
\* is over nothing heard of etcd.
LEMMA BootHeard ==
    ASSUME IInv, HeardInv, Boot
    PROVE  HeardInv'
<1> USE DEF HeardInv, HeardFile, HeardEtcd
<1>1. /\ main.pc # "done" /\ UNCHANGED <<source, listed, events, toggle, heard>>
      /\ main.pc = "start" => main'.pc = "done" /\ UNCHANGED <<applied, watcher>>
      /\ \A t \in Toggles : /\ watcher'[t].seen = watcher[t].seen
                            /\ watcher'[t].registered = watcher[t].registered
                            /\ watcher'[t].indexed = watcher[t].indexed
    <2>1. watcher \in [Toggles -> Watcher]
        BY DEF IInv, TypeOK, Watcher
    <2>2. CASE BootWatch
        <3>1. watcher' = [t \in Toggles |-> [watcher[t] EXCEPT
                              !.pc = IF source = "file" THEN "wait" ELSE "register"]]
            BY <2>2 DEF BootWatch
        <3> QED
            BY <2>1, <2>2, <3>1 DEF BootWatch, scheduler, operator, Watcher
    <2>3. CASE BootRead \/ BootApply("manual", "automatic") \/ BootApply("automatic", "start")
        BY <2>3 DEF BootRead, BootApply, scheduler, operator, watching
    <2>4. CASE BootStart
        BY <2>4 DEF BootStart, operator, watching, IInv, TypeOK
    <2> QED
        BY <2>2, <2>3, <2>4 DEF Boot
<1>2. CASE source = "file" /\ main.pc = "start"
    BY <1>1, <1>2
<1>3. CASE source = "file" /\ main.pc # "start"
    BY <1>1, <1>3
<1>4. CASE source # "file"
    BY <1>1, <1>4
<1> QED
    BY <1>2, <1>3, <1>4

\* A start, a shutdown and a health check tell the watchers nothing.
LEMMA CallsHeard ==
    ASSUME HeardInv, HealthCheck \/ StartCall \/ ShutdownCall
    PROVE  HeardInv'
BY DEF HeardInv, HeardFile, HeardEtcd, HealthCheck, StartCall, ShutdownCall, watching, operator

\* The goroutine of one toggle takes a step.
Moves(t, r) ==
    /\ watcher'[t] = r
    /\ \A u \in Toggles \ {t} : UNCHANGED watcher[u]

LEMMA WatcherMoves ==
    ASSUME IInv, NEW t \in Toggles, NEW r \in Watcher, watcher' = [watcher EXCEPT ![t] = r]
    PROVE  Moves(t, r)
BY DEF IInv, TypeOK, Watcher, Moves

LEMMA FileTickHeard ==
    ASSUME IInv, HeardInv, NEW t \in Toggles, FileTick(t)
    PROVE  HeardInv'
<1>1. /\ t \in listed /\ main.pc \in {"start", "done"}
      /\ UNCHANGED <<source, listed, main, events, heard, applied, toggle>>
    BY DEF FileTick, Ticking, scheduler, operator
<1>0. source = "file" /\ HeardFile(t)
    BY <1>1 DEF HeardInv, HeardEtcd
<1> DEFINE r == [watcher[t] EXCEPT !.pc = "call", !.seen = toggle[t]]
<1>2. watcher[t] \in Watcher /\ toggle[t] \in Values
    BY DEF IInv, TypeOK, Watcher
<1>3. r \in Watcher /\ r.pc = "call" /\ r.indexed = watcher[t].indexed
    BY <1>2 DEF Watcher
<1>4. watcher' = [watcher EXCEPT ![t] = r]
    BY DEF FileTick
<1> HIDE DEF r
<1>5. Moves(t, r)
    BY <1>3, <1>4, WatcherMoves
<1>6. HeardFile(t)'
    BY <1>0, <1>1, <1>3, <1>5 DEF HeardFile, Moves
<1> QED
    BY <1>0, <1>1, <1>5, <1>6, OthersHeard DEF Same, Moves

LEMMA RegisterHeard ==
    ASSUME IInv, HeardInv, NEW t \in Toggles, Register(t)
    PROVE  HeardInv'
<1>1. watcher[t].pc = "register" /\ UNCHANGED <<source, listed, main, events, heard, applied, toggle>>
    BY DEF Register, scheduler, operator
<1> DEFINE r == [watcher[t] EXCEPT !.pc = "wait", !.registered = TRUE]
<1>2. watcher[t] \in Watcher
    BY DEF IInv, TypeOK, Watcher
<1>3. /\ r \in Watcher /\ r.pc = "wait" /\ r.registered
      /\ r.seen = watcher[t].seen /\ r.indexed = watcher[t].indexed
    BY <1>2 DEF Watcher
<1>4. watcher' = [watcher EXCEPT ![t] = r]
    BY DEF Register
<1> HIDE DEF r
<1>5. Moves(t, r)
    BY <1>3, <1>4, WatcherMoves
<1>6. IF source = "file" THEN HeardFile(t)' ELSE HeardEtcd(t)'
    BY <1>1, <1>3, <1>5 DEF HeardInv, HeardFile, HeardEtcd, Moves
<1> QED
    BY <1>1, <1>5, <1>6, OthersHeard DEF Same, Moves

LEMMA RetryHeard ==
    ASSUME IInv, HeardInv, NEW t \in Toggles, Retry(t)
    PROVE  HeardInv'
<1>1. watcher[t].pc = "sleep" /\ UNCHANGED <<source, listed, main, events, heard, applied, toggle>>
    BY DEF Retry, scheduler, operator
<1> DEFINE r == [watcher[t] EXCEPT !.pc = "register"]
<1>2. watcher[t] \in Watcher
    BY DEF IInv, TypeOK, Watcher
<1>3. /\ r \in Watcher /\ r.pc = "register" /\ r.registered = watcher[t].registered
      /\ r.seen = watcher[t].seen /\ r.indexed = watcher[t].indexed
    BY <1>2 DEF Watcher
<1>4. watcher' = [watcher EXCEPT ![t] = r]
    BY DEF Retry
<1> HIDE DEF r
<1>5. Moves(t, r)
    BY <1>3, <1>4, WatcherMoves
<1>6. IF source = "file" THEN HeardFile(t)' ELSE HeardEtcd(t)'
    BY <1>1, <1>3, <1>5 DEF HeardInv, HeardFile, HeardEtcd, Moves
<1> QED
    BY <1>1, <1>5, <1>6, OthersHeard DEF Same, Moves

\* The event is the last one, which is then the toggle, or that is still to come.
LEMMA EventHeard ==
    ASSUME IInv, HeardInv, NEW t \in Toggles, Event(t)
    PROVE  HeardInv'
<1>1. /\ source # "file" /\ events[t] # <<>>
      /\ events' = [events EXCEPT ![t] = Tail(events[t])]
      /\ UNCHANGED <<source, listed, main, heard, applied, toggle>>
    BY DEF Event, scheduler, operator
<1> DEFINE v == Head(events[t])
           r == [watcher[t] EXCEPT !.pc = "call", !.seen = v, !.indexed = TRUE]
<1>2. watcher[t] \in Watcher /\ events \in [Toggles -> Seq(Values)] /\ events[t] \in Seq(Values)
    BY DEF IInv, TypeOK, Watcher
<1>3. v \in Values /\ Tail(events[t]) \in Seq(Values)
    BY <1>1, <1>2
<1>4. Tail(events[t]) = <<>> => events[t][Len(events[t])] = v
    <2>1. Len(Tail(events[t])) = Len(events[t]) - 1 /\ Len(events[t]) \in Nat /\ v = events[t][1]
        BY <1>1, <1>2
    <2> HIDE DEF v
    <2> QED
        BY <2>1
<1>5. Tail(events[t]) # <<>> => Tail(events[t])[Len(Tail(events[t]))] = events[t][Len(events[t])]
    BY <1>1, <1>2
<1>6. watcher' = [watcher EXCEPT ![t] = r]
    BY DEF Event
<1> HIDE DEF v
<1>7. /\ r \in Watcher /\ r.pc = "call" /\ r.seen = v /\ r.indexed = TRUE
      /\ r.registered = watcher[t].registered
    BY <1>2, <1>3 DEF Watcher
<1> HIDE DEF r
<1>8. Moves(t, r)
    BY <1>6, <1>7, WatcherMoves
<1>9. events'[t] = Tail(events[t]) /\ \A u \in Toggles \ {t} : events'[u] = events[u]
    BY <1>1, <1>2
<1>10. HeardEtcd(t)
    BY <1>1 DEF HeardInv
<1>11. HeardEtcd(t)'
    BY <1>1, <1>4, <1>5, <1>7, <1>8, <1>9, <1>10 DEF HeardEtcd, Moves
<1> QED
    BY <1>1, <1>8, <1>9, <1>11, OthersHeard DEF Same, Moves

\* After its first event an error costs the watcher nothing.
LEMMA EventFailedHeard ==
    ASSUME IInv, HeardInv, NEW t \in Toggles, EventFailed(t)
    PROVE  HeardInv'
<1>1. /\ source # "file"
      /\ watcher[t].pc = "wait"
      /\ events' = [events EXCEPT ![t] = IF watcher[t].indexed THEN events[t] ELSE <<>>]
      /\ UNCHANGED <<source, listed, main, heard, applied, toggle>>
    BY DEF EventFailed, scheduler, operator
<1> DEFINE r == [watcher[t] EXCEPT !.pc = "sleep", !.registered = watcher[t].indexed]
<1>2. watcher[t] \in Watcher /\ events \in [Toggles -> Seq(Values)]
    BY DEF IInv, TypeOK, Watcher
<1>3. /\ r \in Watcher /\ r.pc = "sleep" /\ r.registered = watcher[t].indexed
      /\ r.seen = watcher[t].seen /\ r.indexed = watcher[t].indexed
    BY <1>2 DEF Watcher
<1>4. watcher' = [watcher EXCEPT ![t] = r]
    BY DEF EventFailed
<1> HIDE DEF r
<1>5. Moves(t, r)
    BY <1>3, <1>4, WatcherMoves
<1>6. /\ events'[t] = IF watcher[t].indexed THEN events[t] ELSE <<>>
      /\ \A u \in Toggles \ {t} : events'[u] = events[u]
    BY <1>1, <1>2
<1>7. HeardEtcd(t)
    BY <1>1 DEF HeardInv
<1>8. HeardEtcd(t)'
    BY <1>1, <1>3, <1>5, <1>6, <1>7 DEF HeardEtcd, Moves
<1> QED
    BY <1>1, <1>5, <1>6, <1>8, OthersHeard DEF Same, Moves

\* The callback applies what was seen.
LEMMA RunCallbackHeard ==
    ASSUME IInv, HeardInv, NEW t \in Toggles, RunCallback(t)
    PROVE  HeardInv'
<1>1. /\ watcher[t].pc = "call"
      /\ applied' = [applied EXCEPT ![t] = watcher[t].seen]
      /\ UNCHANGED <<source, listed, main, events, heard, toggle>>
    BY DEF RunCallback, Handle, operator
<1> DEFINE r == [watcher[t] EXCEPT !.pc = "wait"]
<1>2. watcher[t] \in Watcher /\ applied \in [Toggles -> Values \union {Nothing, Empty}]
    BY DEF IInv, TypeOK, Watcher
<1>3. /\ r \in Watcher /\ r.pc = "wait" /\ r.registered = watcher[t].registered
      /\ r.seen = watcher[t].seen /\ r.indexed = watcher[t].indexed
    BY <1>2 DEF Watcher
<1>4. watcher' = [watcher EXCEPT ![t] = r]
    BY DEF RunCallback
<1> HIDE DEF r
<1>5. Moves(t, r)
    BY <1>3, <1>4, WatcherMoves
<1>6. applied'[t] = watcher[t].seen /\ \A u \in Toggles \ {t} : applied'[u] = applied[u]
    BY <1>1, <1>2
<1>7. IF source = "file" THEN HeardFile(t)' ELSE HeardEtcd(t)'
    BY <1>1, <1>3, <1>5, <1>6 DEF HeardInv, HeardFile, HeardEtcd, Moves
<1> QED
    BY <1>1, <1>5, <1>6, <1>7, OthersHeard DEF Same, Moves

\* A change is in the file, or an event to come if it is heard.
LEMMA ChangeHeard ==
    ASSUME IInv, HeardInv, NEW t \in Toggles, Change(t)
    PROVE  HeardInv'
<1>1. PICK v \in Values :
          /\ toggle' = [toggle EXCEPT ![t] = v]
          /\ events' = IF watcher[t].registered THEN [events EXCEPT ![t] = Append(events[t], v)]
                       ELSE events
    BY DEF Change
<1>2. /\ heard' = [heard EXCEPT ![t] =
                       t \in listed \/ (main.pc = "done" /\ watcher[t].indexed)]
      /\ UNCHANGED <<source, listed, main, watcher, applied>>
    BY DEF Change, scheduler
<1>3. /\ events \in [Toggles -> Seq(Values)] /\ events[t] \in Seq(Values)
      /\ toggle \in [Toggles -> Values] /\ heard \in [Toggles -> BOOLEAN]
    BY DEF IInv, TypeOK
<1>4. /\ toggle'[t] = v
      /\ heard'[t] = (t \in listed \/ (main.pc = "done" /\ watcher[t].indexed))
      /\ \A u \in Toggles \ {t} : toggle'[u] = toggle[u] /\ heard'[u] = heard[u]
    BY <1>1, <1>2, <1>3, Zenon
<1>5. \A u \in Toggles \ {t} : events'[u] = events[u]
    BY <1>1, <1>3
<1>6. CASE source = "file"
    <2>1. HeardFile(t)
        BY <1>6 DEF HeardInv
    <2>2. heard'[t] = (t \in listed)
        <3>1. ~watcher[t].indexed
            BY <2>1 DEF HeardFile
        <3>2. (t \in listed \/ (main.pc = "done" /\ watcher[t].indexed)) = (t \in listed)
            BY <3>1
        <3> QED
            BY <1>4, <3>2, Zenon
    <2>3. HeardFile(t)'
        BY <1>2, <2>1, <2>2 DEF HeardFile
    <2> QED
        BY <1>2, <1>4, <1>5, <1>6, <2>3, OthersHeard DEF Same
<1>7. CASE source # "file"
    <2>1. HeardEtcd(t)
        BY <1>7 DEF HeardInv
    <2>2. watcher[t].registered => events'[t] # <<>> /\ events'[t][Len(events'[t])] = v
        BY <1>1, <1>3
    <2>3. ~watcher[t].registered => events'[t] = <<>>
        BY <1>1, <2>1 DEF HeardEtcd
    <2>4. heard'[t] => main.pc = "done" /\ watcher[t].indexed
        BY <1>4, <2>1 DEF HeardEtcd
    <2>5. HeardEtcd(t)'
        BY <1>2, <1>4, <2>1, <2>2, <2>3, <2>4 DEF HeardEtcd
    <2> QED
        BY <1>2, <1>4, <1>5, <1>7, <2>5, OthersHeard DEF Same
<1> QED
    BY <1>6, <1>7

LEMMA HeardNext == IInv /\ HeardInv /\ [Next]_vars => HeardInv'
<1> SUFFICES ASSUME IInv, HeardInv, [Next]_vars PROVE HeardInv'
    OBVIOUS
<1>1. CASE UNCHANGED vars
    BY <1>1 DEF vars, watching, scheduler, operator, HeardInv, HeardFile, HeardEtcd
<1> QED
    BY <1>1, BootHeard, CallsHeard, FileTickHeard, RegisterHeard, RetryHeard, EventHeard,
       EventFailedHeard, RunCallbackHeard, ChangeHeard DEF Next

\* Where the last change of a toggle is until it is applied: in the file, among etcd's
\* events, or in the hand of the callback.
THEOREM HeardIsKept == Spec => []HeardInv
<1>1. ASSUME Init PROVE HeardInv
    <2> SUFFICES ASSUME NEW t \in Toggles
                 PROVE  IF source = "file" THEN HeardFile(t) ELSE HeardEtcd(t)
        BY DEF HeardInv
    <2>1. /\ watcher[t].pc = "off" /\ watcher[t].seen = Nothing
          /\ ~watcher[t].registered /\ ~watcher[t].indexed
        BY <1>1 DEF Init
    <2>2. events[t] = <<>> /\ heard[t] = (t \in listed)
        BY <1>1, Zenon DEF Init
    <2>3. source # "file" => listed = {}
        BY <1>1 DEF Init
    <2> QED
        BY <2>1, <2>2, <2>3 DEF HeardFile, HeardEtcd
<1> QED
    BY <1>1, HeardNext, Invariant, PTL DEF Spec

\* No change that a watcher could hear is forgotten, whatever fails: when it has nothing
\* more to see and its callback is over, the scheduler was told what the toggle says.
THEOREM NothingHeardIsForgotten == Spec => []SettledIsApplied
<1>1. IInv /\ HeardInv => SettledIsApplied
    <2> SUFFICES ASSUME IInv, HeardInv, NEW t \in Toggles, heard[t], Settled(t)
                 PROVE  applied[t] = toggle[t]
        BY DEF SettledIsApplied
    <2>1. toggle[t] # Nothing
        BY ValuesAssumption DEF IInv, TypeOK
    <2> QED
        BY <2>1 DEF Settled, HeardInv, HeardFile, HeardEtcd
<1> QED
    BY <1>1, HeardIsKept, Invariant, PTL
=============================================================================
