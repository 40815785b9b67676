----------------------------- MODULE MCCycleAdmin -----------------------------
\* Instances of CycleAdmin for TLC: the configurations, all of one cycle ID.
EXTENDS CycleAdmin, TLC

CONSTANT s

Throttled == [name |-> "n", type |-> "ThrottledWholeCollection", origin |-> "n",
              collection |-> "n", coolDown |-> "5m", throttle |-> "1s",
              timeWindow |-> "", minimumThrottle |-> "", maximumThrottle |-> ""]
Defaulted == [Throttled EXCEPT !.throttle = "", !.coolDown = "unparsable"]
Scaling   == [Throttled EXCEPT !.type = "ScalingWindow", !.throttle = "",
                               !.timeWindow = "1h", !.minimumThrottle = "1s",
                               !.maximumThrottle = "5m"]
Fixed     == [Scaling EXCEPT !.type = "FixedWindow"]

MCTimes  == {"0s", "1s", "5m", "1h"}
MCID     == <<"n", "n">>
MCFiles  == {<<Fixed, Defaulted, Scaling>>}
MCBodies == {Defaulted, Scaling, Fixed}

OneCaller == [x \in {s} |-> ControlNames]

Symmetry == Permutations(Objects) \union Permutations(Workers)
=============================================================================
