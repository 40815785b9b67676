--------------------------- MODULE Clusters_proofs ---------------------------
(***************************************************************************)
(* Proofs about the clusters the carousel depends on.  First about         *)
(* ClusterHealth, for any number of services and of delivery environments. *)
(* The collector counts results, not services: the count is right because  *)
(* each service sends once and a result is either in the channel or        *)
(* collected, so that the channel is closed when all have sent.            *)
(*                                                                         *)
(* Then about ReadEnvironments, where the delivery environments come from, *)
(* for any contents and any number of changes.  What was parsed lies       *)
(* between what a watch saw and what its file holds, whichever of the two  *)
(* callbacks put it there.                                                 *)
(***************************************************************************)
EXTENDS ClusterHealth, ReadEnvironments, FiniteSetTheorems, TLAPS

Sent == {s \in Services : checker[s].pc = "done"}
Waiting == {s \in Services : channel # <<>> /\ Head(channel).service = s}
Collected == Sent \ Waiting

ChannelInv ==
    /\ Len(channel) <= 1
    /\ channel # <<>> => /\ Head(channel).service \in Sent
                         /\ Head(channel).failed <=> checker[Head(channel).service].failed

CountInv ==
    /\ collector.checked = Cardinality(Collected)
    /\ collector.unhealthy = {s \in Collected : checker[s].failed}
    /\ closed => Collected = Services

AnswerInv ==
    returned # "no" =>
        /\ closed
        /\ (returned = "unhealthy") <=> (collector.unhealthy # {})

IInv == CheckTypeOK /\ NoPanic /\ ChannelInv /\ CountInv /\ AnswerInv

(***************************************************************************)
(* What the invariant says of the services.                                *)
(***************************************************************************)

LEMMA CollectedFinite ==
    /\ IsFiniteSet(Services) /\ IsFiniteSet(Collected)
    /\ Cardinality(Collected) \in Nat
<1>1. IsFiniteSet(Services)
    BY ServicesAssumption
<1>2. Collected \subseteq Services
    BY DEF Collected, Sent
<1>3. IsFiniteSet(Collected)
    BY <1>1, <1>2, FS_Subset
<1> QED  BY <1>1, <1>3, FS_CardinalityType

\* Once the channel is closed, every service has sent and all was received.
LEMMA ClosedMeansSent ==
    ASSUME IInv, closed
    PROVE  Sent = Services /\ Waiting = {} /\ channel = <<>>
<1>1. Collected = Services
    BY DEF IInv, CountInv
<1>2. Sent = Services /\ Waiting = {}
    BY <1>1 DEF Collected, Sent, Waiting
<1>3. ASSUME channel # <<>> PROVE FALSE
    <2>1. Head(channel).service \in Services
        BY <1>3 DEF IInv, ChannelInv, Sent
    <2> QED  BY <1>2, <1>3, <2>1 DEF Waiting
<1> QED  BY <1>2, <1>3

LEMMA InvAnswers == IInv => AnswerIsComplete
<1> SUFFICES ASSUME IInv, returned # "no" PROVE AnswerIsComplete
    BY DEF AnswerIsComplete
<1>1. closed
    BY DEF IInv, AnswerInv
<1>2. Sent = Services /\ Collected = Services
    BY <1>1, ClosedMeansSent DEF IInv, CountInv
<1>3. collector.unhealthy = {s \in Services : checker[s].failed}
    BY <1>2 DEF IInv, CountInv
<1>4. (returned = "unhealthy") <=> (\E s \in Services : checker[s].failed)
    BY <1>3 DEF IInv, AnswerInv
<1>5. (returned = "unhealthy") \in BOOLEAN /\ (\E s \in Services : checker[s].failed) \in BOOLEAN
    OBVIOUS
<1>6. \A s \in Services : checker[s].pc = "done"
    BY <1>2 DEF Sent
<1> QED  BY <1>3, <1>4, <1>5, <1>6 DEF AnswerIsComplete

(***************************************************************************)
(* The steps.                                                              *)
(***************************************************************************)

LEMMA InitInv == CheckInit => IInv
<1> SUFFICES ASSUME CheckInit PROVE IInv
    OBVIOUS
<1>1. Collected = {} /\ Sent = {}
    BY DEF CheckInit, Collected, Sent
<1>2. Cardinality(Collected) = 0
    BY <1>1, FS_EmptySet
<1>3. CheckTypeOK
    <2> DEFINE names == UNION {Environments[t] : t \in Services}
    <2>1. \A s \in Services : Environments[s] \in SUBSET names
        OBVIOUS
    <2> HIDE DEF names
    <2>2. checker \in [Services -> [pc : {"check", "send", "done", "panic"},
                                    todo : SUBSET names, failed : BOOLEAN]]
        <3>1. \A s \in Services : [pc |-> "check", todo |-> Environments[s], failed |-> FALSE]
                  \in [pc : {"check", "send", "done", "panic"}, todo : SUBSET names,
                      failed : BOOLEAN]
            BY <2>1
        <3> QED  BY <3>1 DEF CheckInit
    <2>3. good \subseteq Endpoints /\ channel \in Seq(Result) /\ closed \in BOOLEAN
        <3>1. good \subseteq Endpoints
            BY DEF CheckInit
        <3>2. channel = <<>> /\ closed = FALSE
            BY DEF CheckInit
        <3>3. channel \in Seq(Result)
            BY <3>2
        <3> QED  BY <3>1, <3>2, <3>3
    <2>4. collector \in [pc : {"receive", "count", "done"}, checked : Nat,
                         unhealthy : SUBSET Services]
        BY DEF CheckInit
    <2> QED  BY <2>2, <2>3, <2>4 DEF CheckInit, CheckTypeOK, names
<1>4. NoPanic
    BY DEF CheckInit, NoPanic
<1>5. ChannelInv
    BY DEF CheckInit, ChannelInv
<1>6. CountInv
    BY <1>1, <1>2 DEF CheckInit, CountInv
<1>7. AnswerInv
    BY DEF CheckInit, AnswerInv
<1> QED  BY <1>3, <1>4, <1>5, <1>6, <1>7 DEF IInv

\* A goroutine that has yet to send changes nothing that was sent.
LEMMA CheckingInv ==
    ASSUME IInv, NEW s \in Services, checker[s].pc = "check",
           checker' \in [Services -> [pc : {"check", "send", "done", "panic"},
                                      todo : SUBSET UNION {Environments[t] : t \in Services},
                                      failed : BOOLEAN]],
           checker'[s].pc \in {"check", "send"},
           \A t \in Services \ {s} : checker'[t] = checker[t],
           UNCHANGED <<good, channel, closed, collector, returned>>
    PROVE  IInv'
<1>1. /\ checker'[s].pc \in {"check", "send"}
      /\ \A t \in Services \ {s} : checker'[t] = checker[t]
    OBVIOUS
<1>2. CheckTypeOK'
    BY DEF IInv, CheckTypeOK
<1>3. NoPanic'
    BY <1>1 DEF IInv, NoPanic
<1>4. Sent' = Sent /\ s \notin Sent
    BY <1>1 DEF Sent
<1>5. Waiting' = Waiting /\ Collected' = Collected
    BY <1>4 DEF Waiting, Collected
<1>6. \A t \in Sent : checker'[t] = checker[t]
    BY <1>1, <1>4 DEF Sent
<1>7. ChannelInv'
    BY <1>4, <1>6 DEF IInv, ChannelInv
<1>8. CountInv'
    <2>1. {t \in Collected : checker'[t].failed} = {t \in Collected : checker[t].failed}
        BY <1>6 DEF Collected
    <2> QED  BY <1>5, <2>1 DEF IInv, CountInv
<1>9. AnswerInv'
    BY DEF IInv, AnswerInv
<1> QED  BY <1>2, <1>3, <1>7, <1>8, <1>9 DEF IInv

\* The channel is open as long as one service has not sent.
LEMMA SendInv ==
    ASSUME IInv, NEW s \in Services, Send(s)
    PROVE  IInv'
<1>0. /\ checker \in [Services -> [pc : {"check", "send", "done", "panic"},
                                   todo : SUBSET UNION {Environments[t] : t \in Services},
                                   failed : BOOLEAN]]
      /\ channel \in Seq(Result) /\ checker[s].pc = "send"
    BY DEF IInv, CheckTypeOK, Send
<1>1. ~closed
    BY <1>0, ClosedMeansSent DEF Sent
<1> DEFINE r == [service |-> s, failed |-> checker[s].failed]
<1>2. r \in Result
    BY <1>0 DEF Result
<1>3. channel = <<>>
    BY <1>0, <1>1 DEF Send, Capacity
<1>4. /\ checker' = [checker EXCEPT ![s].pc = "done"] /\ channel' = <<r>>
      /\ UNCHANGED <<good, closed, collector, returned>>
    BY <1>1, <1>3 DEF Send
<1>5. /\ checker'[s].pc = "done" /\ checker'[s].failed = checker[s].failed
      /\ \A t \in Services \ {s} : checker'[t] = checker[t]
    BY <1>0, <1>4
<1>6. Head(channel') = r /\ channel' # <<>> /\ Len(channel') = 1 /\ channel' \in Seq(Result)
    BY <1>2, <1>4
<1>7. Sent' = Sent \union {s} /\ s \notin Sent
    BY <1>0, <1>5 DEF Sent
<1>8. Waiting = {} /\ Waiting' = {s}
    BY <1>3, <1>6 DEF Waiting
<1>9. Collected' = Collected
    BY <1>7, <1>8 DEF Collected
<1>10. CheckTypeOK'
    BY <1>0, <1>4, <1>6 DEF IInv, CheckTypeOK
<1>11. NoPanic'
    BY <1>5 DEF IInv, NoPanic
<1>12. ChannelInv'
    BY <1>5, <1>6, <1>7 DEF ChannelInv
<1>13. CountInv'
    <2>1. {t \in Collected : checker'[t].failed} = {t \in Collected : checker[t].failed}
        BY <1>5, <1>7 DEF Collected, Sent
    <2> QED  BY <1>4, <1>9, <2>1 DEF IInv, CountInv
<1>14. AnswerInv'
    BY <1>4 DEF IInv, AnswerInv
<1> QED  BY <1>10, <1>11, <1>12, <1>13, <1>14 DEF IInv

LEMMA ReceiveInv ==
    ASSUME IInv, Receive
    PROVE  IInv'
<1> DEFINE r == Head(channel)
<1>0. channel \in Seq(Result) /\ channel # <<>> /\ Len(channel) <= 1
      /\ collector \in [pc : {"receive", "count", "done"}, checked : Nat, unhealthy : SUBSET Services]
    BY DEF IInv, CheckTypeOK, ChannelInv, Receive
<1>1. /\ collector' = [pc |-> "count", checked |-> collector.checked + 1,
                       unhealthy |-> collector.unhealthy \union
                                         IF r.failed THEN {r.service} ELSE {}]
      /\ channel' = Tail(channel) /\ UNCHANGED <<good, checker, closed, returned>>
    BY DEF Receive
<1>2. channel' = <<>>
    BY <1>0, <1>1
<1>3. /\ r.service \in Sent /\ (r.failed <=> checker[r.service].failed)
      /\ r \in Result
    BY <1>0 DEF IInv, ChannelInv
<1>4. Waiting = {r.service} /\ Waiting' = {} /\ Sent' = Sent
    BY <1>0, <1>1, <1>2, <1>3 DEF Waiting, Sent
<1>5. Collected' = Collected \union {r.service} /\ r.service \notin Collected
    BY <1>3, <1>4 DEF Collected
<1>6. Cardinality(Collected') = Cardinality(Collected) + 1
    BY <1>5, CollectedFinite, FS_AddElement
<1>7. ~closed
    BY <1>0, ClosedMeansSent
<1>8. CheckTypeOK'
    BY <1>0, <1>1, <1>2, <1>3 DEF IInv, CheckTypeOK, Result
<1>9. NoPanic'
    BY <1>1 DEF IInv, NoPanic
<1>10. ChannelInv'
    BY <1>2 DEF ChannelInv
<1>11. CountInv'
    <2>1. collector.unhealthy = {t \in Collected : checker[t].failed}
        BY DEF IInv, CountInv
    <2>2. collector'.unhealthy = collector.unhealthy \union IF r.failed THEN {r.service} ELSE {}
        BY <1>1
    <2>3. collector'.unhealthy = {t \in Collected' : checker'[t].failed}
        BY <1>1, <1>3, <1>5, <2>1, <2>2
    <2> QED  BY <1>1, <1>6, <1>7, <2>3 DEF IInv, CountInv
<1>12. AnswerInv'
    BY <1>1, <1>7 DEF IInv, AnswerInv
<1> QED  BY <1>8, <1>9, <1>10, <1>11, <1>12 DEF IInv

\* As many results as services: every service is among those collected.
LEMMA CountStep ==
    ASSUME IInv, Count
    PROVE  IInv'
<1>1. /\ closed' = (closed \/ collector.checked = Cardinality(Services))
      /\ collector' = [collector EXCEPT !.pc = "receive"]
      /\ UNCHANGED <<good, checker, channel, returned>>
    BY DEF Count
<1>2. CheckTypeOK'
    BY <1>1 DEF IInv, CheckTypeOK
<1>3. Sent' = Sent /\ Waiting' = Waiting /\ Collected' = Collected
    BY <1>1 DEF Sent, Waiting, Collected
<1>4. collector'.checked = collector.checked /\ collector'.unhealthy = collector.unhealthy
    BY <1>1 DEF IInv, CheckTypeOK
<1>5. ASSUME collector.checked = Cardinality(Services) PROVE Collected = Services
    <2>1. Collected \subseteq Services /\ Cardinality(Collected) = Cardinality(Services)
        BY <1>5 DEF IInv, CountInv, Collected, Sent
    <2> QED  BY <2>1, CollectedFinite, FS_Subset
<1>6. closed' => Collected = Services
    BY <1>1, <1>5 DEF IInv, CountInv
<1>7. closed => closed'
    BY <1>1
<1>8. CountInv'
    BY <1>1, <1>3, <1>4, <1>6 DEF IInv, CountInv
<1>9. AnswerInv'
    BY <1>1, <1>4, <1>7 DEF IInv, AnswerInv
<1> QED
    BY <1>1, <1>2, <1>3, <1>8, <1>9 DEF IInv, NoPanic, ChannelInv

LEMMA AnswerStep ==
    ASSUME IInv, Answer
    PROVE  IInv'
<1>1. /\ closed
      /\ collector' = [collector EXCEPT !.pc = "done"]
      /\ returned' = IF collector.unhealthy = {} THEN "healthy" ELSE "unhealthy"
      /\ UNCHANGED <<good, checker, channel, closed>>
    BY DEF Answer
<1>2. CheckTypeOK'
    BY <1>1 DEF IInv, CheckTypeOK
<1>3. Sent' = Sent /\ Waiting' = Waiting /\ Collected' = Collected
    BY <1>1 DEF Sent, Waiting, Collected
<1>4. collector'.checked = collector.checked /\ collector'.unhealthy = collector.unhealthy
    BY <1>1 DEF IInv, CheckTypeOK
<1>5. CountInv'
    BY <1>1, <1>3, <1>4 DEF IInv, CountInv
<1>6. AnswerInv'
    BY <1>1, <1>4 DEF AnswerInv
<1> QED
    BY <1>1, <1>2, <1>3, <1>5, <1>6 DEF IInv, NoPanic, ChannelInv

LEMMA NextInv == IInv /\ [CheckNext]_checkVars => IInv'
<1> SUFFICES ASSUME IInv, [CheckNext]_checkVars PROVE IInv'
    OBVIOUS
<1>0. checker \in [Services -> [pc : {"check", "send", "done", "panic"},
                                todo : SUBSET UNION {Environments[t] : t \in Services},
                                failed : BOOLEAN]]
    BY DEF IInv, CheckTypeOK
<1>1. ASSUME NEW s \in Services, CheckEndpoint(s) PROVE IInv'
    <2>1. PICK e \in checker[s].todo :
            checker' = [checker EXCEPT ![s].todo = checker[s].todo \ {e},
                                       ![s].failed = checker[s].failed \/ <<s, e>> \notin good]
        BY <1>1 DEF CheckEndpoint
    <2> DEFINE failed == checker[s].failed \/ <<s, e>> \notin good
               todo == checker[s].todo \ {e}
    <2>2. failed \in BOOLEAN /\ todo \in SUBSET UNION {Environments[t] : t \in Services}
        BY <1>0
    <2>3. checker[s].pc = "check" /\ UNCHANGED <<good, channel, closed, collector, returned>>
        BY <1>1 DEF CheckEndpoint
    <2> HIDE DEF failed, todo
    <2>4. /\ checker' \in [Services -> [pc : {"check", "send", "done", "panic"},
                                        todo : SUBSET UNION {Environments[t] : t \in Services},
                                        failed : BOOLEAN]]
          /\ checker'[s].pc = "check"
          /\ \A t \in Services \ {s} : checker'[t] = checker[t]
        BY <1>0, <2>1, <2>2, <2>3 DEF failed, todo
    <2> QED  BY <2>3, <2>4, CheckingInv
<1>2. ASSUME NEW s \in Services, Checked(s) PROVE IInv'
    <2>1. /\ checker' = [checker EXCEPT ![s].pc = "send"] /\ checker[s].pc = "check"
          /\ UNCHANGED <<good, channel, closed, collector, returned>>
        BY <1>2 DEF Checked
    <2>2. /\ checker' \in [Services -> [pc : {"check", "send", "done", "panic"},
                                        todo : SUBSET UNION {Environments[t] : t \in Services},
                                        failed : BOOLEAN]]
          /\ checker'[s].pc = "send"
          /\ \A t \in Services \ {s} : checker'[t] = checker[t]
        BY <1>0, <2>1
    <2> QED  BY <2>1, <2>2, CheckingInv
<1>3. ASSUME NEW s \in Services, Send(s) PROVE IInv'
    BY <1>3, SendInv
<1>4. CASE Receive
    BY <1>4, ReceiveInv
<1>5. CASE Count
    BY <1>5, CountStep
<1>6. CASE Answer
    BY <1>6, AnswerStep
<1>7. ASSUME UNCHANGED <<checker, channel, closed, collector, returned>>, good' \subseteq Endpoints
      PROVE  IInv'
    BY <1>7 DEF IInv, CheckTypeOK, NoPanic, ChannelInv, CountInv, AnswerInv, Sent, Waiting, Collected
<1>8. ASSUME NEW p \in Endpoints, Flip(p) PROVE IInv'
    BY <1>7, <1>8 DEF Flip, IInv, CheckTypeOK
<1>9. CASE UNCHANGED checkVars
    BY <1>7, <1>9 DEF checkVars, IInv, CheckTypeOK
<1> QED
    BY <1>1, <1>2, <1>3, <1>4, <1>5, <1>6, <1>8, <1>9 DEF CheckNext, Checker, Collector

LEMMA Invariant == CheckSpec => []IInv
BY InitInv, NextInv, PTL DEF CheckSpec

(***************************************************************************)
(* The theorems.                                                           *)
(***************************************************************************)

\* The types of the check, its goroutines and its channel.
THEOREM CheckTyped == CheckSpec => []CheckTypeOK
<1>1. IInv => CheckTypeOK
    BY DEF IInv
<1> QED  BY <1>1, Invariant, PTL

\* No service answers so late that its result is sent to a closed channel, however
\* many services there are.
THEOREM NeverPanics == CheckSpec => []NoPanic
<1>1. IInv => NoPanic
    BY DEF IInv
<1> QED  BY <1>1, Invariant, PTL

\* The answer is the outcome of every service's check.
THEOREM AnswersForAll == CheckSpec => []AnswerIsComplete
BY InvAnswers, Invariant, PTL

\* Who counted the last result closes the channel before it receives again.
ClosingInv ==
    collector.pc = "receive" /\ collector.checked = Cardinality(Services) =>
        closed \/ Services = {}

LEMMA ClosingNext == IInv /\ ClosingInv /\ [CheckNext]_checkVars => ClosingInv'
<1> SUFFICES ASSUME IInv, ClosingInv, [CheckNext]_checkVars PROVE ClosingInv'
    OBVIOUS
<1> USE DEF ClosingInv
<1>1. CASE Count
    BY <1>1 DEF Count, IInv, CheckTypeOK
<1>2. CASE Receive \/ Answer
    BY <1>2 DEF Receive, Answer, IInv, CheckTypeOK
<1>3. CASE UNCHANGED <<closed, collector>>
    BY <1>3
<1> QED
    BY <1>1, <1>2, <1>3
    DEF CheckNext, Collector, Checker, CheckEndpoint, Checked, Send, Flip, checkVars

\* The goroutines of a check never all wait for one another, so that it can always be
\* answered, if there is a service to check; with none the collector of
\* unhealthyClusters would wait for ever.
THEOREM CheckGoesOn == Services # {} => (CheckSpec => []NeverStuck)
<1> SUFFICES ASSUME Services # {} PROVE CheckSpec => []NeverStuck
    OBVIOUS
<1>1. CheckInit => ClosingInv
    <2>1. Cardinality(Services) # 0
        BY ServicesAssumption, FS_EmptySet
    <2> QED
        BY <2>1 DEF CheckInit, ClosingInv
<1>2. IInv /\ ClosingInv => NeverStuck
    <2> SUFFICES ASSUME IInv, ClosingInv, \A s \in Services : Waits(s),
                        collector.pc = "receive", channel = <<>>, ~closed
                 PROVE  FALSE
        BY DEF NeverStuck
    <2>1. Sent = Services /\ Waiting = {}
        BY DEF Waits, Capacity, Sent, Waiting
    <2>2. collector.checked = Cardinality(Services)
        BY <2>1 DEF IInv, CountInv, Collected
    <2> QED
        BY <2>2 DEF ClosingInv
<1> QED
    BY <1>1, <1>2, ClosingNext, Invariant, PTL DEF CheckSpec

-----------------------------------------------------------------------------
(***************************************************************************)
(* The environments that are checked: ReadEnvironments.                    *)
(***************************************************************************)

\* There are two files.
LEMMA TwoFiles ==
    /\ Other("environments") = "credentials" /\ Other("credentials") = "environments"
    /\ \A f \in Files : Other(f) \in Files /\ Other(f) # f
    /\ \A f, g \in Files : g # f => g = Other(f)
BY DEF Other, Files

\* The boot keeps the types, and what each goroutine has.
LEMMA EnvBoot ==
    ASSUME TypeOK, ShapeInv, NEW f \in Files, Boot(f)
    PROVE  TypeOK' /\ ShapeInv'
<1> USE ContentsAssumption, NoWatcherAssumption
    DEF TypeOK, ShapeInv, Files, Watched, etcd
<1>1. CASE BootRead(f)
    BY <1>1 DEF BootRead
<1>2. CASE BootFails(f)
    BY <1>2 DEF BootFails
<1> QED
    BY <1>1, <1>2 DEF Boot

WatcherType == [pc : {"off", "wait", "call", "read", "update"},
                seen : Contents \union {NoContents}, other : Contents \union {NoContents}]

\* What the goroutine of a file has after a step, which the other does not take.
Now(f, pc, seen, other) ==
    /\ watcher' \in [Files -> WatcherType]
    /\ watcher'[f] = [pc |-> pc, seen |-> seen, other |-> other]
    /\ \A g \in Files \ {f} : watcher'[g] = watcher[g]

\* Setting some of the fields of a goroutine sets it to such a record.
LEMMA SetWatcher ==
    ASSUME TypeOK, NEW f \in Files, NEW r \in WatcherType,
           watcher' = [watcher EXCEPT ![f] = r]
    PROVE  Now(f, r.pc, r.seen, r.other)
BY DEF TypeOK, Now, WatcherType

LEMMA TickMoves ==
    ASSUME TypeOK, NEW f \in Files, Tick(f)
    PROVE  Now(f, "call", file[f], watcher[f].other)
<1> DEFINE r == [watcher[f] EXCEPT !.pc = "call", !.seen = file[f]]
<1>1. watcher[f] \in WatcherType /\ file[f] \in Contents
    BY DEF TypeOK, WatcherType
<1>2. r \in WatcherType /\ r.pc = "call" /\ r.seen = file[f] /\ r.other = watcher[f].other
    BY <1>1 DEF WatcherType
<1>3. watcher' = [watcher EXCEPT ![f] = r]
    BY DEF Tick
<1> HIDE DEF r
<1> QED
    BY <1>2, <1>3, SetWatcher

LEMMA EventMoves ==
    ASSUME TypeOK, NEW f \in Files, Event(f)
    PROVE  Now(f, "call", Head(events), watcher[f].other) /\ Head(events) \in Contents
<1> DEFINE r == [watcher[f] EXCEPT !.pc = "call", !.seen = Head(events)]
<1>1. watcher[f] \in WatcherType /\ Head(events) \in Contents
    BY DEF TypeOK, Event, WatcherType
<1>2. r \in WatcherType /\ r.pc = "call" /\ r.seen = Head(events) /\ r.other = watcher[f].other
    BY <1>1 DEF WatcherType
<1>3. watcher' = [watcher EXCEPT ![f] = r]
    BY DEF Event
<1> HIDE DEF r
<1> QED
    BY <1>1, <1>2, <1>3, SetWatcher

LEMMA LockMoves ==
    ASSUME TypeOK, NEW f \in Files, CallbackLock(f)
    PROVE  Now(f, IF source = "file" THEN "read" ELSE "update", watcher[f].seen, watcher[f].other)
<1> DEFINE r == [watcher[f] EXCEPT !.pc = IF source = "file" THEN "read" ELSE "update"]
<1>1. watcher[f] \in WatcherType
    BY DEF TypeOK, WatcherType
<1>2. /\ r \in WatcherType /\ r.pc = IF source = "file" THEN "read" ELSE "update"
      /\ r.seen = watcher[f].seen /\ r.other = watcher[f].other
    BY <1>1 DEF WatcherType
<1>3. watcher' = [watcher EXCEPT ![f] = r]
    BY DEF CallbackLock
<1> HIDE DEF r
<1> QED
    BY <1>2, <1>3, SetWatcher

LEMMA ReadMoves ==
    ASSUME TypeOK, NEW f \in Files, CallbackRead(f)
    PROVE  Now(f, "update", watcher[f].seen, file[Other(f)])
<1> DEFINE r == [watcher[f] EXCEPT !.pc = "update", !.other = file[Other(f)]]
<1>1. watcher[f] \in WatcherType /\ file[Other(f)] \in Contents
    BY TwoFiles DEF TypeOK, WatcherType
<1>2. r \in WatcherType /\ r.pc = "update" /\ r.seen = watcher[f].seen /\ r.other = file[Other(f)]
    BY <1>1 DEF WatcherType
<1>3. watcher' = [watcher EXCEPT ![f] = r]
    BY DEF CallbackRead
<1> HIDE DEF r
<1> QED
    BY <1>2, <1>3, SetWatcher

LEMMA ReturnMoves ==
    ASSUME TypeOK, NEW f \in Files, Return(f)
    PROVE  Now(f, "wait", watcher[f].seen, NoContents)
<1> DEFINE r == [watcher[f] EXCEPT !.pc = "wait", !.other = NoContents]
<1>1. watcher[f] \in WatcherType
    BY DEF TypeOK, WatcherType
<1>2. r \in WatcherType /\ r.pc = "wait" /\ r.seen = watcher[f].seen /\ r.other = NoContents
    BY <1>1 DEF WatcherType
<1>3. watcher' = [watcher EXCEPT ![f] = r]
    BY DEF Return
<1> HIDE DEF r
<1> QED
    BY <1>2, <1>3, SetWatcher

\* So do the watchers and their callbacks.
LEMMA EnvWatcher ==
    ASSUME TypeOK, ShapeInv, NEW f \in Files, Watcher(f)
    PROVE  TypeOK' /\ ShapeInv'
<1> USE TwoFiles, ContentsAssumption, NoWatcherAssumption
    DEF TypeOK, ShapeInv, Watched, etcd, Now, WatcherType
<1>1. CASE Tick(f)
    <2>1. /\ watcher[f].pc = "wait" /\ source = "file"
          /\ UNCHANGED <<source, file, changes, boot, events, indexed, lock, parsed, lost>>
        BY <1>1 DEF Tick
    <2>2. Now(f, "call", file[f], watcher[f].other)
        BY <1>1, TickMoves
    <2> QED
        BY <2>1, <2>2
<1>2. CASE Event(f)
    <2>1. /\ TypeOK /\ ShapeInv /\ watcher[f].pc = "wait" /\ source # "file"
          /\ UNCHANGED <<source, file, changes, boot, lock, parsed, lost>>
          /\ events' \in Seq(Contents) /\ indexed' = TRUE
        BY <1>2 DEF Event
    <2>2. Now(f, "call", Head(events), watcher[f].other) /\ Head(events) \in Contents
        BY <1>2, EventMoves
    <2> QED
        BY <2>1, <2>2
<1>3. CASE CallbackLock(f)
    <2>1. /\ watcher[f].pc = "call" /\ lock = NoWatcher /\ lock' = f
          /\ UNCHANGED <<source, file, changes, boot, events, indexed, parsed, lost>>
        BY <1>3 DEF CallbackLock
    <2>2. Now(f, IF source = "file" THEN "read" ELSE "update", watcher[f].seen, watcher[f].other)
        BY <1>3, LockMoves
    <2>3. lock' \in Files \union {NoWatcher}
        BY <2>1
    <2>4. watcher'[f].pc = IF source = "file" THEN "read" ELSE "update"
        BY <2>2
    <2>5. f \in Watched /\ boot = "watching" /\ watcher[f].seen \in Contents
        BY <2>1
    <2> QED
        BY <2>1, <2>2, <2>3, <2>4, <2>5
<1>4. CASE CallbackRead(f)
    <2>1. /\ watcher[f].pc = "read" /\ source = "file"
          /\ UNCHANGED <<source, file, changes, boot, events, indexed, lock, parsed, lost>>
        BY <1>4 DEF CallbackRead
    <2>2. Now(f, "update", watcher[f].seen, file[Other(f)])
        BY <1>4, ReadMoves
    <2> QED
        BY <2>1, <2>2
<1>5. CASE CallbackFails(f)
    <2>1. /\ watcher[f].pc = "read" /\ source = "file" /\ lock' = NoWatcher /\ lost' = TRUE
          /\ UNCHANGED <<source, file, changes, boot, events, indexed, parsed>>
        BY <1>5 DEF CallbackFails, Return
    <2>2. Now(f, "wait", watcher[f].seen, NoContents)
        BY <1>5, ReturnMoves DEF CallbackFails
    <2>3. lock = f /\ boot = "watching" /\ f \in Watched
        BY <2>1
    <2>4. TypeOK'
        BY <2>1, <2>2
    <2>5. \A g \in Files : watcher'[g].pc \notin {"read", "update"}
        BY <2>2, <2>3
    <2> QED
        BY <2>1, <2>2, <2>3, <2>4, <2>5
<1>6. CASE CallbackUpdate(f)
    <2>1. /\ watcher[f].pc = "update" /\ lock' = NoWatcher /\ lost' = FALSE
          /\ parsed' = [g \in Files |-> IF g = f THEN watcher[f].seen ELSE watcher[f].other]
          /\ UNCHANGED <<source, file, changes, boot, events, indexed>>
        BY <1>6 DEF CallbackUpdate, Return
    <2>2. Now(f, "wait", watcher[f].seen, NoContents)
        BY <1>6, ReturnMoves DEF CallbackUpdate
    <2>3. lock = f /\ boot = "watching" /\ f \in Watched /\ watcher[f].seen \in Contents
        BY <2>1
    <2>4. parsed' \in [Files -> Contents \union {NoContents}]
        BY <2>1, <2>3
    <2>5. \A g \in Watched : parsed'[g] \in Contents
        BY <2>1, <2>3 DEF Files
    <2>6. TypeOK'
        BY <2>1, <2>2, <2>4, <2>5
    <2>7. \A g \in Files : watcher'[g].pc \notin {"read", "update"}
        BY <2>2, <2>3
    <2>8. boot # "credentials"
        BY <2>3
    <2> QED
        BY <2>1, <2>2, <2>3, <2>6, <2>7, <2>8
<1> QED
    BY <1>1, <1>2, <1>3, <1>4, <1>5, <1>6 DEF Watcher

\* And so do changes, and what etcd loses of them.
LEMMA EnvChange ==
    ASSUME TypeOK, ShapeInv, EventsLost \/ \E f \in Files : Change(f)
    PROVE  TypeOK' /\ ShapeInv'
<1> USE ContentsAssumption, NoWatcherAssumption
    DEF TypeOK, ShapeInv, Watched, etcd
<1>1. CASE EventsLost
    BY <1>1 DEF EventsLost
<1>2. ASSUME NEW f \in Files, Change(f) PROVE TypeOK' /\ ShapeInv'
    <2>1. PICK c \in Contents :
               /\ file' = [file EXCEPT ![f] = c]
               /\ \/ UNCHANGED <<events, lost>>
                  \/ source # "file" /\ events' = Append(events, c) /\ UNCHANGED lost
                  \/ source # "file" /\ lost' = (boot # "environments") /\ UNCHANGED events
        BY <1>2 DEF Change
    <2>2. changes' = changes + 1 /\ changes < MaxChanges
        BY <1>2 DEF Change
    <2>3. /\ file' \in [Files -> Contents] /\ changes' \in 0..MaxChanges /\ lost' \in BOOLEAN
          /\ events' \in Seq(Contents) /\ (source = "file" => events' = events)
        <3>1. file' \in [Files -> Contents]
            BY <2>1
        <3>2. changes' \in 0..MaxChanges
            BY <2>2
        <3>3. source = "file" => events' = events
            BY <2>1
        <3>4. Append(events, c) \in Seq(Contents)
            OBVIOUS
        <3>5. events' \in Seq(Contents)
            BY <2>1, <3>4
        <3>6. lost' \in BOOLEAN
            BY <2>1, Zenon
        <3> QED
            BY <3>1, <3>2, <3>3, <3>5, <3>6
    <2>4. UNCHANGED <<source, boot, watcher, indexed, lock, parsed>>
        BY <1>2 DEF Change
    <2> QED
        BY <2>3, <2>4
<1> QED
    BY <1>1, <1>2

\* They hold at the start, and of whatever leaves the variables alone.
LEMMA EnvStarts ==
    ASSUME Init
    PROVE  TypeOK /\ ShapeInv /\ OrderInv
<1> USE DEF Init
<1>1. TypeOK
    <2>1. watcher \in [Files -> WatcherType]
        BY DEF WatcherType
    <2>2. changes \in 0..MaxChanges
        BY NoWatcherAssumption
    <2>3. events \in Seq(Contents)
        OBVIOUS
    <2> QED
        BY <2>1, <2>2, <2>3 DEF TypeOK, WatcherType
<1>2. ShapeInv
    BY DEF ShapeInv
<1>3. OrderInv
    BY TwoFiles DEF OrderInv, UpTo
<1> QED
    BY <1>1, <1>2, <1>3

LEMMA EnvStutters ==
    ASSUME UNCHANGED vars
    PROVE  /\ TypeOK => TypeOK'
           /\ ShapeInv => ShapeInv'
           /\ OrderInv => OrderInv'
BY DEF vars, etcd, TypeOK, ShapeInv, OrderInv, Watched

LEMMA EnvNext ==
    ASSUME TypeOK, ShapeInv, [Next]_vars
    PROVE  TypeOK' /\ ShapeInv'
BY EnvBoot, EnvWatcher, EnvChange, EnvStutters DEF Next

\* The variables have their types; a goroutine that waits or works was started by the
\* boot, and the lock is held by the one that reads or updates: newEnvironmentService
\* and the callbacks of its watchers.
THEOREM EnvironmentsTyped == Spec => [](TypeOK /\ ShapeInv)
<1>1. Init => TypeOK /\ ShapeInv
    BY EnvStarts
<1>2. TypeOK /\ ShapeInv /\ [Next]_vars => (TypeOK /\ ShapeInv)'
    BY EnvNext
<1> QED
    BY <1>1, <1>2, PTL DEF Spec

-----------------------------------------------------------------------------
\* A file never goes back to contents it had.  ReadEnvironmentsRestored shows that the
\* callbacks, which compare nothing but contents, need that.
VersionsGrow == Restores => "file" \notin Sources

LEMMA VersionsCompare ==
    /\ \A v \in Contents : v \in Nat /\ v # NoContents
    /\ \A v \in Contents : UpTo(v, v)
    /\ \A v, w, x \in Contents \union {NoContents} :
           UpTo(v, w) /\ w # NoContents /\ UpTo(w, x) => UpTo(v, x)
BY ContentsAssumption DEF UpTo

LEMMA BootOrdered ==
    ASSUME TypeOK, ShapeInv, OrderInv, NEW f \in Files, Boot(f)
    PROVE  OrderInv'
<1> USE VersionsCompare
    DEF TypeOK, ShapeInv, OrderInv, Files, Watched, UpTo
<1>1. CASE BootRead(f)
    <2>1. /\ UNCHANGED <<source, file, lost>>
          /\ parsed' = [parsed EXCEPT ![f] = file[f]]
        BY <1>1 DEF BootRead
    <2>2. \A g \in Files : watcher[g].pc = "off" /\ watcher[g].seen = NoContents
        BY <1>1 DEF BootRead
    <2>3. \A g \in Files : /\ watcher'[g].pc \in {"off", "wait"}
                           /\ watcher'[g].seen = NoContents
                           /\ watcher'[g].other = watcher[g].other
        BY <1>1, <2>2 DEF BootRead
    <2> QED
        BY <2>1, <2>2, <2>3, TwoFiles
<1>2. CASE BootFails(f)
    BY <1>2 DEF BootFails
<1> QED
    BY <1>1, <1>2 DEF Boot

LEMMA WatcherOrdered ==
    ASSUME TypeOK, ShapeInv, OrderInv, NEW f \in Files, Watcher(f)
    PROVE  OrderInv'
<1> USE TwoFiles, VersionsCompare
    DEF TypeOK, ShapeInv, OrderInv, Watched, Now
<1>1. CASE Tick(f)
    <2>1. source = "file" /\ UNCHANGED <<source, file, parsed, lost>>
        BY <1>1 DEF Tick
    <2>2. Now(f, "call", file[f], watcher[f].other)
        BY <1>1, TickMoves
    <2> QED
        BY <2>1, <2>2
<1>2. CASE Event(f)
    <2>1. source = "etcd" /\ UNCHANGED <<source, file, parsed, lost>>
        BY <1>2, ContentsAssumption DEF Event
    <2>2. Now(f, "call", Head(events), watcher[f].other)
        BY <1>2, EventMoves
    <2>3. \A g \in Files : watcher'[g].pc = "wait" =>
             watcher[g].pc = "wait" /\ watcher'[g].seen = watcher[g].seen
        BY <2>2
    <2> HIDE DEF Now
    <2> QED
        BY <2>1, <2>3
<1>3. CASE CallbackLock(f)
    <2>1. UNCHANGED <<source, file, parsed, lost>>
        BY <1>3 DEF CallbackLock
    <2>2. Now(f, IF source = "file" THEN "read" ELSE "update", watcher[f].seen, watcher[f].other)
        BY <1>3, LockMoves
    <2>3. \A g \in Files :
             /\ watcher'[g].seen = watcher[g].seen /\ watcher'[g].other = watcher[g].other
             /\ watcher'[g].pc = "wait" => watcher[g].pc = "wait"
             /\ source = "file" /\ watcher'[g].pc = "update" => watcher[g].pc = "update"
        <3>1. CASE source = "file"
            <4>1. Now(f, "read", watcher[f].seen, watcher[f].other)
                BY <2>2, <3>1
            <4> QED
                BY <4>1
        <3>2. CASE source # "file"
            <4>1. Now(f, "update", watcher[f].seen, watcher[f].other)
                BY <2>2, <3>2
            <4> QED
                BY <4>1, <3>2
        <3> QED
            BY <3>1, <3>2
    <2> HIDE DEF Now
    <2> QED
        BY <2>1, <2>3
<1>4. CASE CallbackRead(f)
    <2>1. source = "file" /\ UNCHANGED <<source, file, parsed, lost>>
        BY <1>4 DEF CallbackRead
    <2>2. Now(f, "update", watcher[f].seen, file[Other(f)])
        BY <1>4, ReadMoves
    <2> QED
        BY <2>1, <2>2
<1>5. CASE CallbackFails(f)
    <2>1. /\ watcher[f].pc = "read" /\ source = "file" /\ lost' = TRUE
          /\ UNCHANGED <<source, file, parsed>>
        BY <1>5 DEF CallbackFails
    <2>2. Now(f, "wait", watcher[f].seen, NoContents)
        BY <1>5, ReturnMoves DEF CallbackFails
    <2>3. \A g \in Files :
             /\ watcher'[g].pc # "update" /\ watcher'[g].seen = watcher[g].seen
             /\ watcher'[g].other \in {watcher[g].other, NoContents}
        BY <2>1, <2>2
    <2> HIDE DEF Now
    <2> QED
        BY <2>1, <2>3 DEF UpTo
<1>6. CASE CallbackUpdate(f)
    <2>1. /\ watcher[f].pc = "update" /\ UNCHANGED <<source, file>>
          /\ parsed' = [g \in Files |-> IF g = f THEN watcher[f].seen ELSE watcher[f].other]
        BY <1>6 DEF CallbackUpdate
    <2>2. Now(f, "wait", watcher[f].seen, NoContents)
        BY <1>6, ReturnMoves DEF CallbackUpdate
    <2>3. \A g \in Files : watcher'[g].pc # "update"
        BY <2>1, <2>2
    <2>4. parsed'[f] = watcher[f].seen /\ parsed'[Other(f)] = watcher[f].other
        BY <2>1
    <2>5. CASE source = "file"
        BY <2>1, <2>2, <2>3, <2>4, <2>5 DEF UpTo
    <2>6. CASE source = "etcd"
        <3>1. watcher'[Other(f)].pc = "off"
            BY <2>1, <2>2, <2>6
        <3> QED
            BY <2>1, <2>2, <2>4, <2>6, <3>1
    <2> QED
        BY <2>1, <2>5, <2>6
<1> QED
    BY <1>1, <1>2, <1>3, <1>4, <1>5, <1>6 DEF Watcher

LEMMA ChangeOrdered ==
    ASSUME VersionsGrow, TypeOK, ShapeInv, OrderInv,
           EventsLost \/ \E f \in Files : Change(f)
    PROVE  OrderInv'
<1> USE DEF OrderInv
<1>1. CASE EventsLost
    BY <1>1 DEF EventsLost, ShapeInv
<1>2. ASSUME NEW f \in Files, Change(f) PROVE OrderInv'
    <2>1. UNCHANGED <<source, watcher, parsed>>
        BY <1>2 DEF Change
    <2>2. CASE source = "file"
        <3>1. PICK c \in Contents : c > file[f] /\ file' = [file EXCEPT ![f] = c]
            BY <1>2, <2>2 DEF Change, TypeOK, VersionsGrow
        <3>2. UNCHANGED lost
            BY <1>2, <2>2 DEF Change
        <3>3. \A g \in Files : file[g] \in Nat /\ file'[g] \in Nat /\ file[g] <= file'[g]
            BY <3>1, VersionsCompare DEF TypeOK
        <3>4. \A v \in Contents \union {NoContents}, g \in Files :
                  UpTo(v, file[g]) => UpTo(v, file'[g])
            BY <3>3, VersionsCompare DEF UpTo
        <3> QED
            BY <2>1, <2>2, <3>2, <3>4, TwoFiles DEF TypeOK
    <2>3. CASE source = "etcd"
        BY <2>1, <2>3
    <2> QED
        BY <2>1, <2>2, <2>3
<1> QED
    BY <1>1, <1>2

\* Nobody has a later version than the file, and what was parsed of it is not older
\* than what its watch saw once the callback is over, though the callback of the other
\* file may have parsed it.
THEOREM VersionsOrdered == VersionsGrow => (Spec => []OrderInv)
<1> SUFFICES ASSUME VersionsGrow PROVE Spec => []OrderInv
    OBVIOUS
<1>1. Init => OrderInv
    BY EnvStarts
<1>2. TypeOK /\ ShapeInv /\ OrderInv /\ [Next]_vars => OrderInv'
    BY BootOrdered, WatcherOrdered, ChangeOrdered, EnvStutters DEF Next
<1> QED
    BY <1>1, <1>2, EnvironmentsTyped, PTL DEF Spec

\* When no callback is under way and every file was seen as it is, the environments
\* are what the files hold, unless the last callback gave up: with ~lost, what was
\* parsed lies between what the watch saw and the file, and those are the same.
THEOREM ParsedAsSeen == VersionsGrow => (Spec => []SeenIsParsed)
<1> SUFFICES ASSUME VersionsGrow PROVE Spec => []SeenIsParsed
    OBVIOUS
<1>1. ASSUME TypeOK, ShapeInv, OrderInv PROVE SeenIsParsed
    <2>1. SUFFICES ASSUME ~lost, NEW f \in Watched,
                          watcher[f].pc = "wait", watcher[f].seen = file[f]
                   PROVE  parsed[f] = file[f]
        BY DEF SeenIsParsed, Current
    <2>2. f \in Files /\ file[f] \in Contents /\ parsed[f] \in Contents
        BY <1>1, <2>1 DEF TypeOK, ShapeInv, Watched, Files
    <2>3. CASE source = "file"
        BY <1>1, <2>1, <2>2, <2>3, VersionsCompare DEF OrderInv, UpTo
    <2>4. CASE source = "etcd"
        BY <1>1, <2>1, <2>2, <2>4, VersionsCompare DEF OrderInv
    <2> QED
        BY <1>1, <2>3, <2>4, ContentsAssumption DEF TypeOK
<1> QED
    BY <1>1, EnvironmentsTyped, VersionsOrdered, PTL
=============================================================================
