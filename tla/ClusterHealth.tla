---------------------------- MODULE ClusterHealth ----------------------------
(***************************************************************************)
(* The cluster health check, one call of unhealthyClusters: a goroutine    *)
(* per service calls its good-to-go endpoint, or those of every delivery   *)
(* environment, and sends the outcome to a channel, from which another     *)
(* goroutine collects them before it closes it.  What the check then does  *)
(* to the scheduler is HealthCheck of the module Scheduler; the delivery   *)
(* environments come from ReadEnvironments, beside which the names of this *)
(* module can stand.                                                       *)
(***************************************************************************)
EXTENDS Naturals, FiniteSets, Sequences

CONSTANTS
    Services,       \* the services checked
    Environments    \* the endpoints each has

ASSUME ServicesAssumption == IsFiniteSet(Services)
ASSUME EnvironmentsAssumption ==
    /\ DOMAIN Environments = Services
    /\ \A s \in Services : IsFiniteSet(Environments[s])

Capacity == 1

VARIABLES
    good,       \* external: which endpoints answer that they are good to go
    checker,    \* the goroutine of each service
    channel,    \* the results sent and not received
    closed,     \* whether the channel is
    collector,  \* the goroutine that receives
    returned    \* whether the check was answered, and how

checkVars == <<good, checker, channel, closed, collector, returned>>

Endpoints == UNION {{<<s, e>> : e \in Environments[s]} : s \in Services}
Result == [service : Services, failed : BOOLEAN]

CheckTypeOK ==
    /\ good \subseteq Endpoints
    /\ checker \in [Services -> [pc : {"check", "send", "done", "panic"},
                                 todo : SUBSET UNION {Environments[s] : s \in Services},
                                 failed : BOOLEAN]]
    /\ channel \in Seq(Result)
    /\ closed \in BOOLEAN
    /\ collector \in [pc : {"receive", "count", "done"}, checked : Nat,
                      unhealthy : SUBSET Services]
    /\ returned \in {"no", "healthy", "unhealthy"}

CheckInit ==
    /\ good \in SUBSET Endpoints
    /\ checker = [s \in Services |-> [pc |-> "check", todo |-> Environments[s],
                                      failed |-> FALSE]]
    /\ channel = <<>>
    /\ closed = FALSE
    /\ collector = [pc |-> "receive", checked |-> 0, unhealthy |-> {}]
    /\ returned = "no"

-----------------------------------------------------------------------------
\* Check: one endpoint after the other, whatever became of those before it.
CheckEndpoint(s) ==
    /\ checker[s].pc = "check"
    /\ \E e \in checker[s].todo :
         checker' = [checker EXCEPT ![s].todo = @ \ {e},
                                    ![s].failed = @ \/ <<s, e>> \notin good]
    /\ UNCHANGED <<good, channel, closed, collector, returned>>

Checked(s) ==
    /\ checker[s].pc = "check"
    /\ checker[s].todo = {}
    /\ checker' = [checker EXCEPT ![s].pc = "send"]
    /\ UNCHANGED <<good, channel, closed, collector, returned>>

\* Sending to a closed channel would panic.
Send(s) ==
    /\ checker[s].pc = "send"
    /\ closed \/ Len(channel) < Capacity
    /\ checker' = [checker EXCEPT ![s].pc = IF closed THEN "panic" ELSE "done"]
    /\ channel' = IF closed THEN channel
                  ELSE Append(channel, [service |-> s, failed |-> checker[s].failed])
    /\ UNCHANGED <<good, closed, collector, returned>>

\* Variant: a result replaces those before it.
ReceiveLast ==
    /\ collector.pc = "receive"
    /\ channel # <<>>
    /\ collector' = [pc |-> "count", checked |-> collector.checked + 1,
                     unhealthy |-> IF Head(channel).failed
                                     THEN {Head(channel).service} ELSE {}]
    /\ channel' = Tail(channel)
    /\ UNCHANGED <<good, checker, closed, returned>>

Receive ==
    /\ collector.pc = "receive"
    /\ channel # <<>>
    /\ LET r == Head(channel)
       IN  collector' = [pc |-> "count", checked |-> collector.checked + 1,
                         unhealthy |-> collector.unhealthy \union
                                           IF r.failed THEN {r.service} ELSE {}]
    /\ channel' = Tail(channel)
    /\ UNCHANGED <<good, checker, closed, returned>>

\* Variants: the channel is closed one result too early, or too late.
CountShort ==
    /\ collector.pc = "count"
    /\ closed' = (closed \/ collector.checked = Cardinality(Services) - 1)
    /\ collector' = [collector EXCEPT !.pc = "receive"]
    /\ UNCHANGED <<good, checker, channel, returned>>

CountLong ==
    /\ collector.pc = "count"
    /\ closed' = (closed \/ collector.checked > Cardinality(Services))
    /\ collector' = [collector EXCEPT !.pc = "receive"]
    /\ UNCHANGED <<good, checker, channel, returned>>

\* The channel is closed once every service was heard of.
Count ==
    /\ collector.pc = "count"
    /\ closed' = (closed \/ collector.checked = Cardinality(Services))
    /\ collector' = [collector EXCEPT !.pc = "receive"]
    /\ UNCHANGED <<good, checker, channel, returned>>

\* The range over the channel ends, and the waiting handler goes on.
Answer ==
    /\ collector.pc = "receive"
    /\ closed /\ channel = <<>>
    /\ collector' = [collector EXCEPT !.pc = "done"]
    /\ returned' = IF collector.unhealthy = {} THEN "healthy" ELSE "unhealthy"
    /\ UNCHANGED <<good, checker, channel, closed>>

\* External: an endpoint fails or recovers while the check is under way.
Flip(p) ==
    /\ returned = "no"
    /\ good' = IF p \in good THEN good \ {p} ELSE good \union {p}
    /\ UNCHANGED <<checker, channel, closed, collector, returned>>

Checker(s) == CheckEndpoint(s) \/ Checked(s) \/ Send(s)
Collector == Receive \/ Count \/ Answer

CheckNext ==
    \/ \E s \in Services : Checker(s)
    \/ Collector
    \/ \E p \in Endpoints : Flip(p)

CheckSpec == CheckInit /\ [][CheckNext]_checkVars

\* The client's requests are answered or time out; goroutines are scheduled.
FairCheckSpec == CheckSpec /\ (\A s \in Services : WF_checkVars(Checker(s))) /\ WF_checkVars(Collector)

-----------------------------------------------------------------------------
(* Properties. *)

\* No service answers so late that its result is sent to a closed channel.
NoPanic == \A s \in Services : checker[s].pc # "panic"

\* The answer is the outcome of every service's check: the scheduler is shut down
\* if one of them failed, and none but the services that failed are named.
AnswerIsComplete ==
    returned # "no" =>
        /\ collector.unhealthy = {s \in Services : checker[s].failed}
        /\ (returned = "unhealthy") = (\E s \in Services : checker[s].failed)
        /\ \A s \in Services : checker[s].pc = "done"

\* The check is always answered, and leaves no goroutine behind.
CheckReturns == <>(returned # "no" /\ \A s \in Services : checker[s].pc = "done")

\* What it rests on: there is no moment before the answer at which every goroutine
\* waits for another, the senders for the channel to be emptied and the collector for
\* a result or for the channel to be closed.
Waits(s) == checker[s].pc = "done" \/ (checker[s].pc = "send" /\ ~closed /\ Len(channel) >= Capacity)

NeverStuck ==
    ~(/\ \A s \in Services : Waits(s)
      /\ collector.pc = "receive" /\ channel = <<>> /\ ~closed)
=============================================================================
