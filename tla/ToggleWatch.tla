----------------------------- MODULE ToggleWatch -----------------------------
(***************************************************************************)
(* The carousel's two toggles, the operator's and the one that says which  *)
(* cluster is active, from where they are changed to the mode of the       *)
(* scheduler: main reads them at boot and hands them over, while one       *)
(* goroutine for each watches it, by reading a file at intervals or by     *)
(* waiting for events from etcd; the health check and the API start and    *)
(* shut down meanwhile.  A call of the scheduler is one step here; its     *)
(* steps, and calls that overlap, are in Scheduler.                        *)
(***************************************************************************)
EXTENDS Naturals, Sequences

CONSTANTS
    Values,     \* what a toggle may say
    On,         \* the value that parses as true: what does not parse is off
    Sources,    \* where they may be kept: "file", "etcd"
    Faults,     \* a subset of {"read", "watch"}: what may fail at boot, and after
    MaxChanges, \* bound: how often toggles are changed
    Nothing,    \* the watcher has seen nothing, the scheduler has been told nothing
    Empty       \* what main has instead of a toggle that it could not read

ASSUME SourceAssumption == Sources \subseteq {"file", "etcd"} /\ Faults \subseteq {"read", "watch"}
ASSUME ValuesAssumption ==
    /\ On \in Values /\ Values \intersect {Nothing, Empty} = {} /\ Nothing # Empty
    /\ MaxChanges \in Nat

VARIABLES
    source,     \* where the toggles are kept
    listed,     \* the toggle files that the watcher found when main made it: filePaths
    toggle,     \* the toggles as they were last set
    changes,    \* how often they were
    main,       \* where the boot is, and the values it read
    watcher,    \* the watching goroutines
    events,     \* changes etcd will report to each watcher, the next one first
    applied,    \* what the scheduler's handlers were told last
    heard,      \* whether the last change cannot have been missed: the file is listed,
                \* or the watcher of etcd had its first event and the boot was over
    mode, last, \* schedulerState: the current state and the one before
    clash,      \* whether both toggles were off since both were last on
    halted      \* whether the operator shut the scheduler down, and did not start it

watching  == <<watcher, events>>
scheduler == <<applied, mode, last, clash>>
operator  == <<toggle, changes, heard, halted>>
vars == <<source, listed, main, watching, scheduler, operator>>

Toggles == {"manual", "automatic"}
Modes == {"unknown", "running", "stopped", "disabled", "autoDisabled"}

TypeOK ==
    /\ source \in Sources /\ listed \subseteq Toggles
    /\ toggle \in [Toggles -> Values]
    /\ changes \in 0..MaxChanges
    /\ main \in [pc : {"read", "watch", "manual", "automatic", "start", "done", "panic"},
                 value : [Toggles -> Values \union {Nothing, Empty}]]
    /\ watcher \in [Toggles -> [pc : {"off", "register", "wait", "sleep", "call"},
                        seen : Values \union {Nothing},
                        registered : BOOLEAN, indexed : BOOLEAN]]
    /\ events \in [Toggles -> Seq(Values)]
    /\ applied \in [Toggles -> Values \union {Nothing, Empty}]
    /\ heard \in [Toggles -> BOOLEAN]
    /\ mode \in Modes /\ last \in Modes
    /\ clash \in BOOLEAN /\ halted \in BOOLEAN

\* seen: fileContents of the file, the value of the event; registered: etcd
\* keeps the changes for the watcher, who asks for what follows the last event
\* once it had one (indexed).
Init ==
    /\ source \in Sources
    /\ listed \in IF source = "file" THEN SUBSET Toggles ELSE {{}}
    /\ toggle \in [Toggles -> Values]
    /\ changes = 0
    /\ main = [pc |-> "read", value |-> [t \in Toggles |-> Nothing]]
    /\ watcher = [t \in Toggles |-> [pc |-> "off", seen |-> Nothing,
                                     registered |-> FALSE, indexed |-> FALSE]]
    /\ events = [t \in Toggles |-> <<>>]
    /\ applied = [t \in Toggles |-> Nothing]
    /\ heard = [t \in Toggles |-> t \in listed]
    /\ mode = "disabled" /\ last = "unknown"
    /\ clash = FALSE /\ halted = FALSE

-----------------------------------------------------------------------------
(* The scheduler: each of its calls as a whole. *)

Enabled == mode \notin {"disabled", "autoDisabled"}

SetMode(m) == IF mode = m THEN UNCHANGED <<mode, last>> ELSE mode' = m /\ last' = mode

\* A running scheduler is stopped before it is disabled.
Off(t) ==
    IF Enabled
      THEN mode' = (IF t = "manual" THEN "disabled" ELSE "autoDisabled") /\ last' = "stopped"
      ELSE UNCHANGED <<mode, last>>

\* Variant: either toggle undoes what the other did.
EnableAny(t) ==
    IF mode # "running" THEN SetMode("stopped") ELSE UNCHANGED <<mode, last>>

\* Only the cluster's toggle undoes what the cluster's toggle did.
Enable(t) ==
    IF mode # "running" /\ (mode = "autoDisabled") = (t = "automatic")
      THEN SetMode("stopped")
      ELSE UNCHANGED <<mode, last>>

Handle(t, v) ==
    /\ applied' = [applied EXCEPT ![t] = v]
    /\ IF v = On THEN Enable(t) ELSE Off(t)
    /\ clash' = /\ \E u \in Toggles : applied'[u] # On
                /\ clash \/ \A u \in Toggles : applied'[u] \notin {On, Nothing}

Start ==
    IF Enabled THEN SetMode("running") ELSE UNCHANGED <<mode, last>>

-----------------------------------------------------------------------------
(* The boot. *)

\* A file that is not listed cannot be read; an error of etcd ends the process.
Unlisted == IF source = "file" THEN Toggles \ listed ELSE {}

BootRead ==
    /\ main.pc = "read"
    /\ \E failed \in SUBSET Toggles :
         /\ Unlisted \subseteq failed
         /\ "read" \in Faults \/ failed = Unlisted
         /\ main' = [pc |-> IF source = "etcd" /\ failed # {} THEN "panic" ELSE "watch",
                     value |-> [t \in Toggles |-> IF t \in failed THEN Empty ELSE toggle[t]]]
    /\ UNCHANGED <<source, listed, watching, scheduler, operator>>

BootWatch ==
    /\ main.pc = "watch"
    /\ main' = [main EXCEPT !.pc = "manual"]
    /\ watcher' = [t \in Toggles |-> [watcher[t] EXCEPT
                       !.pc = IF source = "file" THEN "wait" ELSE "register"]]
    /\ UNCHANGED <<source, listed, events, scheduler, operator>>

BootApply(t, next) ==
    /\ main.pc = t
    /\ Handle(t, main.value[t])
    /\ main' = [main EXCEPT !.pc = next]
    /\ UNCHANGED <<source, listed, watching, operator>>

BootStart ==
    /\ main.pc = "start"
    /\ Start
    /\ main' = [main EXCEPT !.pc = "done"]
    /\ UNCHANGED <<source, listed, watching, applied, clash, operator>>

-----------------------------------------------------------------------------
(* The watchers. *)

\* The first tick comes thirty seconds after the watch began, long after the boot
\* handed over what it read; the scheduler may be starting its cycles, or restoring
\* them, which take longer.
Ticking(t) ==
    /\ t \in listed /\ main.pc \in {"start", "done"}
    /\ watcher[t].pc = "wait"
    /\ toggle[t] # watcher[t].seen

\* Variant: a read that fails is taken for an empty file.
FileTickEmpty(t) ==
    /\ Ticking(t)
    /\ watcher' = [watcher EXCEPT ![t].pc = "call", ![t].seen = Empty]
    /\ UNCHANGED <<source, listed, main, events, scheduler, operator>>

\* Of a file that is not listed every read fails, and the watch goes on.
FileTick(t) ==
    /\ Ticking(t)
    /\ watcher' = [watcher EXCEPT ![t].pc = "call", ![t].seen = toggle[t]]
    /\ UNCHANGED <<source, listed, main, events, scheduler, operator>>

\* The request reaches etcd: with no index yet, it waits for the next change.
Register(t) ==
    /\ watcher[t].pc = "register"
    /\ watcher' = [watcher EXCEPT ![t].pc = "wait", ![t].registered = TRUE]
    /\ UNCHANGED <<source, listed, main, events, scheduler, operator>>

Event(t) ==
    /\ source = "etcd"
    /\ watcher[t].pc = "wait"
    /\ events[t] # <<>>
    /\ watcher' = [watcher EXCEPT ![t].pc = "call", ![t].seen = Head(events[t]),
                                  ![t].indexed = TRUE]
    /\ events' = [events EXCEPT ![t] = Tail(@)]
    /\ UNCHANGED <<source, listed, main, scheduler, operator>>

\* Variant: an error makes the watcher forget what it saw last.
EventFailedForgets(t) ==
    /\ source = "etcd" /\ "watch" \in Faults
    /\ watcher[t].pc = "wait"
    /\ watcher' = [watcher EXCEPT ![t].pc = "sleep", ![t].registered = FALSE]
    /\ events' = [events EXCEPT ![t] = <<>>]
    /\ UNCHANGED <<source, listed, main, scheduler, operator>>

\* An error of the etcd client, which is asked again in ten seconds.
EventFailed(t) ==
    /\ source = "etcd" /\ "watch" \in Faults
    /\ watcher[t].pc = "wait"
    /\ watcher' = [watcher EXCEPT ![t].pc = "sleep", ![t].registered = watcher[t].indexed]
    /\ events' = [events EXCEPT ![t] = IF watcher[t].indexed THEN @ ELSE <<>>]
    /\ UNCHANGED <<source, listed, main, scheduler, operator>>

Retry(t) ==
    /\ watcher[t].pc = "sleep"
    /\ watcher' = [watcher EXCEPT ![t].pc = "register"]
    /\ UNCHANGED <<source, listed, main, events, scheduler, operator>>

RunCallback(t) ==
    /\ watcher[t].pc = "call"
    /\ Handle(t, watcher[t].seen)
    /\ watcher' = [watcher EXCEPT ![t].pc = "wait"]
    /\ UNCHANGED <<source, listed, main, events, operator>>

-----------------------------------------------------------------------------
(* Once the server serves. *)

\* unhealthyClusters, for a health check or the good-to-go endpoint.
HealthCheck ==
    /\ main.pc = "done"
    /\ \/ mode = "running" /\ SetMode("stopped")
       \/ mode = "stopped" /\ last # "autoDisabled" /\ SetMode("running")
    /\ UNCHANGED <<source, listed, main, watching, applied, clash, operator>>

StartCall ==
    /\ main.pc = "done"
    /\ Start
    /\ halted' = FALSE
    /\ UNCHANGED <<source, listed, main, watching, applied, clash, toggle, changes, heard>>

ShutdownCall ==
    /\ main.pc = "done"
    /\ mode = "running" /\ SetMode("stopped")
    /\ halted' = TRUE
    /\ UNCHANGED <<source, listed, main, watching, applied, clash, toggle, changes, heard>>

\* External: the operator, or the failover, changes a toggle.
Change(t) ==
    /\ changes < MaxChanges
    /\ changes' = changes + 1
    /\ \E v \in Values \ {toggle[t]} :
         /\ toggle' = [toggle EXCEPT ![t] = v]
         /\ events' = IF watcher[t].registered THEN [events EXCEPT ![t] = Append(@, v)]
                      ELSE events
    /\ heard' = [heard EXCEPT ![t] =
                    t \in listed \/ (main.pc = "done" /\ watcher[t].indexed)]
    /\ UNCHANGED <<source, listed, main, watcher, scheduler, halted>>

Boot ==
    \/ BootRead \/ BootWatch
    \/ BootApply("manual", "automatic") \/ BootApply("automatic", "start")
    \/ BootStart

Next ==
    \/ Boot
    \/ HealthCheck \/ StartCall \/ ShutdownCall
    \/ \E t \in Toggles :
         \/ FileTick(t) \/ Register(t) \/ Event(t) \/ EventFailed(t) \/ Retry(t)
         \/ RunCallback(t) \/ Change(t)

Spec == Init /\ [][Next]_vars

\* The boot goes on, the tickers tick, requests are answered, handlers return, and
\* etcd does not fail for ever.
FairSpec ==
    /\ Spec
    /\ WF_vars(Boot)
    /\ \A t \in Toggles :
         /\ WF_vars(FileTick(t)) /\ WF_vars(Register(t)) /\ SF_vars(Event(t))
         /\ WF_vars(Retry(t)) /\ WF_vars(RunCallback(t))

-----------------------------------------------------------------------------
(* Properties. *)

\* README: if the toggle changes at any time, the carousel follows.  Once it
\* changes no more, the scheduler has been told what it says: when it is kept in a
\* file that was there when main made the watcher, whether or not the boot could read
\* it, and with etcd once the boot is over and the watcher had its first event,
\* whatever errors it meets then.
HeardIsApplied == \A t \in Toggles : <>[](heard[t] => applied[t] = toggle[t])

\* The carousel is enabled exactly if both toggles are on, as far as the scheduler
\* was told, whatever was changed, shut down or started in between, unless both
\* were off at once since they last were both on: the mode has room for one of them.
TogglesObeyed ==
    main.pc \in {"start", "done"} =>
        clash \/ (Enabled <=> \A t \in Toggles : applied[t] = On)

\* Why it holds: the mode names a toggle that is off, and without such a clash the
\* one that is off, the cluster's as soon as the boot has handed over both.
ModeNamesToggle ==
    /\ mode # "unknown"
    /\ mode = "disabled" => applied["manual"] # On
    /\ mode = "autoDisabled" => applied["automatic"] \notin {On, Nothing}
    /\ clash => \E t \in Toggles : applied[t] # On
    /\ ~clash => /\ applied["manual"] # On => mode = "disabled"
                 /\ main.pc \in {"start", "done"} /\ applied["automatic"] # On
                        => mode = "autoDisabled"

\* What is handed over: by the boot what it read, by a watcher what it has seen.
HandoverInv ==
    /\ main.pc # "read" => \A t \in Toggles : main.value[t] # Nothing
    /\ \A t \in Toggles : watcher[t].pc = "call" => watcher[t].seen # Nothing
    /\ main.pc \in {"automatic", "start", "done"} => applied["manual"] # Nothing
    /\ main.pc \in {"start", "done"} => applied["automatic"] # Nothing

\* What HeardIsApplied rests on: nothing is forgotten on the way.  When a toggle's
\* watcher has nothing to see and its callback is over, the scheduler has been told
\* what the toggle says.
Settled(t) ==
    /\ main.pc \in {"start", "done"} /\ watcher[t].pc # "call"
    /\ IF source = "file" THEN watcher[t].seen = toggle[t] ELSE events[t] = <<>>

SettledIsApplied == \A t \in Toggles : heard[t] /\ Settled(t) => applied[t] = toggle[t]

\* Why: of a file, what was seen was applied unless its callback is under way, and the
\* boot hands nothing over after it.  Of etcd, once the watcher had an event it keeps
\* its place: the last event not seen yet, or else the one seen last, is the toggle.
HeardFile(t) ==
    /\ heard[t] = (t \in listed)
    /\ ~watcher[t].indexed
    /\ watcher[t].seen # Nothing =>
           /\ main.pc \in {"start", "done"}
           /\ watcher[t].pc # "call" => applied[t] = watcher[t].seen

HeardEtcd(t) ==
    /\ listed = {}
    /\ heard[t] => main.pc = "done" /\ watcher[t].indexed
    /\ watcher[t].indexed => watcher[t].registered
    /\ ~watcher[t].registered => events[t] = <<>>
    /\ events[t] # <<>> => events[t][Len(events[t])] = toggle[t]
    /\ watcher[t].indexed /\ events[t] = <<>> => watcher[t].seen = toggle[t]
    /\ heard[t] /\ events[t] = <<>> /\ watcher[t].pc # "call" => applied[t] = toggle[t]

HeardInv == \A t \in Toggles : IF source = "file" THEN HeardFile(t) ELSE HeardEtcd(t)

(* What the documentation says, checked where the code disagrees. *)

\* README: if the toggle changes at any time, the carousel follows; without the
\* condition that a watcher needs.
ToggleFollowed == \A t \in Toggles : <>[](applied[t] = toggle[t])

\* README: the carousel will be disabled in the passive region.
PassiveIsDisabled ==
    main.pc = "done" /\ applied["automatic"] # On => ~Enabled

\* api.yml: Shutdown stops all cycles in a production incident, and Start resumes
\* them when it has been resolved.  Only the operator ends his own shutdown.
ShutdownLasts == halted => mode # "running"
=============================================================================
