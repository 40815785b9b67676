--------------------------- MODULE ReadEnvironments ---------------------------
(***************************************************************************)
(* The delivery clusters whose health the carousel checks are read at boot *)
(* and watched.  With their credentials they are kept in two files, each   *)
(* watched by a goroutine of its own that combines a change with what the  *)
(* other file says then; or under a key of etcd, without credentials, of   *)
(* which a watcher misses changes as in ToggleWatch.                       *)
(***************************************************************************)
EXTENDS Naturals, Sequences

CONSTANTS
    Sources,    \* where they may be kept: "file", "etcd"
    Contents,   \* what a file, or the key, may hold: numbers, for the order of its versions
    Malformed,  \* the contents that do not parse
    Restores,   \* whether a file may go back to contents it had
    Faults,     \* a subset of {"read", "watch"}: reading, watching etcd may fail
    MaxChanges, \* bound: how often the files change
    NoContents, \* a file that was not read yet
    NoWatcher

ASSUME ContentsAssumption ==
    /\ Contents \subseteq Nat /\ Malformed \subseteq Contents /\ NoContents \notin Contents
    /\ Restores \in BOOLEAN /\ Faults \subseteq {"read", "watch"}
    /\ Sources \subseteq {"file", "etcd"}

Files == {"environments", "credentials"}
Other(f) == CHOOSE g \in Files : g # f
ASSUME NoWatcherAssumption == NoWatcher \notin Files /\ MaxChanges \in Nat

VARIABLES
    source,     \* where they are kept: in etcd, the environments only
    file,       \* the contents of the two files, or of the key
    changes,    \* how often they changed
    boot,       \* what the boot reads next, or how it ended
    watcher,    \* one goroutine per file
    events,     \* changes etcd will report, the next one first
    indexed,    \* whether the watcher of etcd had an event
    lock,       \* the watcher whose callback holds the service's lock
    parsed,     \* the contents the service's environments were parsed from
    lost        \* whether the last change was missed, or its callback gave up

etcd == <<events, indexed>>
vars == <<source, file, changes, boot, watcher, etcd, lock, parsed, lost>>

Watched == IF source = "file" THEN Files ELSE {"environments"}

TypeOK ==
    /\ source \in Sources
    /\ file \in [Files -> Contents]
    /\ changes \in 0..MaxChanges
    /\ boot \in {"environments", "credentials", "watching", "dead"}
    /\ watcher \in [Files -> [pc : {"off", "wait", "call", "read", "update"},
                              seen : Contents \union {NoContents},
                              other : Contents \union {NoContents}]]
    /\ events \in Seq(Contents) /\ indexed \in BOOLEAN
    /\ lock \in Files \union {NoWatcher}
    /\ parsed \in [Files -> Contents \union {NoContents}]
    /\ boot = "watching" => \A f \in Watched : parsed[f] \in Contents
    /\ lost \in BOOLEAN

Init ==
    /\ source \in Sources
    /\ file \in [Files -> Contents]
    /\ changes = 0
    /\ boot = "environments"
    /\ watcher = [f \in Files |-> [pc |-> "off", seen |-> NoContents, other |-> NoContents]]
    /\ events = <<>> /\ indexed = FALSE
    /\ lock = NoWatcher
    /\ parsed = [f \in Files |-> NoContents]
    /\ lost = FALSE

-----------------------------------------------------------------------------
\* newEnvironmentService reads what is watched, and the process does not survive
\* what it cannot read or parse.
BootRead(f) ==
    /\ boot = f
    /\ parsed' = [parsed EXCEPT ![f] = file[f]]
    /\ IF source = "file" /\ f = "environments"
         THEN boot' = "credentials" /\ UNCHANGED watcher
         ELSE IF \E g \in Watched : parsed'[g] \in Malformed
           THEN boot' = "dead" /\ UNCHANGED watcher
           ELSE /\ boot' = "watching"
                /\ watcher' = [g \in Files |-> [watcher[g] EXCEPT
                                   !.pc = IF g \in Watched THEN "wait" ELSE "off"]]
    /\ UNCHANGED <<source, file, changes, etcd, lock, lost>>

BootFails(f) ==
    /\ boot = f /\ "read" \in Faults
    /\ boot' = "dead"
    /\ UNCHANGED <<source, file, changes, watcher, etcd, lock, parsed, lost>>

\* A tick of the file's watch: the contents differ from those it saw last.
Tick(f) ==
    /\ source = "file"
    /\ watcher[f].pc = "wait"
    /\ file[f] # watcher[f].seen
    /\ watcher' = [watcher EXCEPT ![f].pc = "call", ![f].seen = file[f]]
    /\ UNCHANGED <<source, file, changes, boot, etcd, lock, parsed, lost>>

Event(f) ==
    /\ watcher[f].pc = "wait"
    /\ events # <<>>
    /\ watcher' = [watcher EXCEPT ![f].pc = "call", ![f].seen = Head(events)]
    /\ events' = Tail(events) /\ indexed' = TRUE
    /\ UNCHANGED <<source, file, changes, boot, lock, parsed, lost>>

\* An error before the first event: what etcd kept for the watcher is not asked for
\* again.  A later error only delays it.
EventsLost ==
    /\ "watch" \in Faults /\ ~indexed /\ events # <<>>
    /\ events' = <<>> /\ lost' = TRUE
    /\ UNCHANGED <<source, file, changes, boot, watcher, indexed, lock, parsed>>

\* Variant: the callbacks do not exclude one another.
CallbackLockNone(f) ==
    /\ watcher[f].pc = "call"
    /\ watcher' = [watcher EXCEPT ![f].pc = IF source = "file" THEN "read" ELSE "update"]
    /\ UNCHANGED <<source, file, changes, boot, etcd, lock, parsed, lost>>

\* The callback of etcd has no other file to read.
CallbackLock(f) ==
    /\ watcher[f].pc = "call"
    /\ lock = NoWatcher
    /\ lock' = f
    /\ watcher' = [watcher EXCEPT ![f].pc = IF source = "file" THEN "read" ELSE "update"]
    /\ UNCHANGED <<source, file, changes, boot, etcd, parsed, lost>>

Return(f) ==
    /\ lock' = NoWatcher
    /\ watcher' = [watcher EXCEPT ![f].pc = "wait", ![f].other = NoContents]

\* Variant: what the other watch saw last is used, and not the file.
CallbackReadCached(f) ==
    /\ watcher[f].pc = "read"
    /\ watcher' = [watcher EXCEPT ![f].pc = "update", ![f].other = watcher[Other(f)].seen]
    /\ UNCHANGED <<source, file, changes, boot, etcd, lock, parsed, lost>>

CallbackRead(f) ==
    /\ watcher[f].pc = "read"
    /\ watcher' = [watcher EXCEPT ![f].pc = "update", ![f].other = file[Other(f)]]
    /\ UNCHANGED <<source, file, changes, boot, etcd, lock, parsed, lost>>

\* Both are parsed, and the outcome is kept, even that of contents that do not
\* parse: no environments, or some of them.
CallbackUpdate(f) ==
    /\ watcher[f].pc = "update"
    /\ parsed' = [g \in Files |-> IF g = f THEN watcher[f].seen ELSE watcher[f].other]
    /\ lost' = FALSE
    /\ Return(f)
    /\ UNCHANGED <<source, file, changes, boot, etcd>>

\* The other file cannot be read: the callback gives up.
CallbackFails(f) ==
    /\ "read" \in Faults
    /\ watcher[f].pc = "read"
    /\ lost' = TRUE
    /\ Return(f)
    /\ UNCHANGED <<source, file, changes, boot, etcd, parsed>>

\* External: a file, or the key, is written.  Before its first event etcd's watcher
\* may miss it: it was not there yet, or was being renewed.
Change(f) ==
    /\ f \in Watched
    /\ changes < MaxChanges
    /\ changes' = changes + 1
    /\ \E c \in Contents \ {file[f]} :
         /\ Restores \/ c > file[f]
         /\ file' = [file EXCEPT ![f] = c]
         /\ \/ source = "file" /\ UNCHANGED <<events, lost>>
            \/ source = "etcd" /\ boot = "watching"
                 /\ events' = Append(events, c) /\ UNCHANGED lost
            \/ source = "etcd" /\ ~indexed /\ events = <<>>
                 /\ lost' = (boot # "environments") /\ UNCHANGED events
    /\ UNCHANGED <<source, boot, watcher, indexed, lock, parsed>>

Boot(f) == BootRead(f) \/ BootFails(f)

Watcher(f) ==
    \/ Tick(f) \/ Event(f)
    \/ CallbackLock(f) \/ CallbackRead(f) \/ CallbackFails(f) \/ CallbackUpdate(f)

Next == EventsLost \/ \E f \in Files : Boot(f) \/ Watcher(f) \/ Change(f)

Spec == Init /\ [][Next]_vars

\* The boot goes on, tickers tick, etcd reports what it keeps, and the lock is
\* granted in turn.
FairSpec ==
    /\ Spec
    /\ \A f \in Files : /\ WF_vars(Boot(f)) /\ WF_vars(Tick(f)) /\ WF_vars(Event(f))
                          /\ SF_vars(CallbackLock(f))
                          /\ WF_vars(CallbackRead(f) \/ CallbackFails(f))
                          /\ WF_vars(CallbackUpdate(f))

-----------------------------------------------------------------------------
(* Properties. *)

Current == \A f \in Watched : parsed[f] = file[f]

\* The environments follow the files, whichever of them changes: contents a
\* callback took before it waited for the other's are replaced in the end, and so
\* are those that a callback which gave up, or a watcher of etcd that missed a
\* change before its first event, left behind, by the next that succeeds.
EnvironmentsFollow == <>[](boot = "dead" \/ lost \/ Current)

\* When no callback is under way and what is watched was seen as it is, the
\* environments are those it holds, unless a callback gave up: what it lost is made
\* good by the next one that succeeds.
SeenIsParsed ==
    (\A f \in Watched : watcher[f].pc = "wait" /\ watcher[f].seen = file[f]) =>
        lost \/ Current

\* Why it is, where each goroutine is: watchers run once the boot is over, a callback
\* has what it saw and, from the files, what it read; the lock is held by who reads.
ShapeInv ==
    /\ source = "file" => events = <<>>
    /\ boot = "credentials" => source = "file" /\ parsed["environments"] \in Contents
    /\ lock # NoWatcher => watcher[lock].pc \in {"read", "update"}
    /\ \A f \in Files :
         /\ watcher[f].pc = "off" => watcher[f].seen = NoContents
         /\ watcher[f].pc # "off" => boot = "watching" /\ f \in Watched
         /\ watcher[f].pc \in {"call", "read", "update"} => watcher[f].seen \in Contents
         /\ watcher[f].pc \in {"read", "update"} => lock = f
         /\ watcher[f].pc = "read" => source = "file"
         /\ watcher[f].pc = "update" /\ source = "file" => watcher[f].other \in Contents

\* And in the order of the versions: nobody has a later one than the file, what was
\* parsed is at least what its watch saw, and what a callback read of the other file
\* is at least what the other's watch saw, unless that has a callback to come.
UpTo(v, w) == v # NoContents => v <= w

OrderInv ==
    /\ source = "file" => \A f \in Files :
         /\ UpTo(watcher[f].seen, file[f])
         /\ UpTo(parsed[f], file[f])
         /\ UpTo(watcher[f].other, file[Other(f)])
         /\ watcher[f].pc = "wait" /\ ~lost => UpTo(watcher[f].seen, parsed[f])
         /\ watcher[f].pc = "update" /\ watcher[Other(f)].pc = "wait" =>
                UpTo(watcher[Other(f)].seen, watcher[f].other)
    /\ source = "etcd" => \A f \in Files :
         watcher[f].pc = "wait" /\ watcher[f].seen # NoContents => parsed[f] = watcher[f].seen

\* The same as EnvironmentsFollow without its condition, which a failed read of the
\* other file breaks, and a change that etcd's watcher missed.
AlwaysFollow == <>[](boot = "dead" \/ Current)
=============================================================================
