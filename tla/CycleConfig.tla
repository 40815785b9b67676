----------------------------- MODULE CycleConfig -----------------------------
(***************************************************************************)
(* What a cycle's configuration must say, the cycle that is made of it,     *)
(* the configuration that is made of a cycle, and which entries of a file   *)
(* become cycles.  A text is blank or one of Names, a duration parses or    *)
(* not, and two configurations with the same name and collection have the   *)
(* same ID.                                                                 *)
(***************************************************************************)
EXTENDS Integers

CONSTANTS
    Names,          \* the texts that are not blank
    Times,          \* the durations that parse
    ZeroTime,       \* what a string that does not parse counts as
    DefaultThrottle

ASSUME NamesAssumption == "blank" \notin Names
ASSUME TimesAssumption ==
    {ZeroTime, DefaultThrottle} \subseteq Times /\ {"", "unparsable"} \intersect Times = {}

Texts     == Names \union {"blank"}
Durations == Times \union {"", "unparsable"}
Types     == {"ThrottledWholeCollection", "ScalingWindow", "FixedWindow"}

Config == [name : Texts, type : Types, origin : Texts, collection : Texts,
           coolDown : Durations, throttle : Durations, timeWindow : Durations,
           minimumThrottle : Durations, maximumThrottle : Durations]

IsThrottled(c) == c.type = "ThrottledWholeCollection"
IsScaling(c)   == c.type = "ScalingWindow"

\* checkDurations takes the cycle's name, and then the durations.
CheckDurations(name, durations) == durations \subseteq Times

\* The cool down is passed as the name, and is not checked.
Validate(c) ==
    /\ "blank" \notin {c.name, c.collection, c.origin}
    /\ CheckDurations(c.coolDown, {})
    /\ \/ IsThrottled(c) /\ (c.throttle = "" \/ CheckDurations(c.name, {c.throttle}))
       \/ /\ IsScaling(c)
          /\ CheckDurations(c.name, {c.timeWindow, c.minimumThrottle, c.maximumThrottle})

\* time.ParseDuration, by a caller that drops its error
ParseDuration(d) == IF d \in Times THEN d ELSE ZeroTime

\* The fields of the cycle that is made of a valid configuration, in the shape of
\* a configuration: "" where a cycle of its type has no such field.
NewCycle(c) ==
    IF IsThrottled(c)
      THEN [c EXCEPT !.coolDown = ParseDuration(@),
                     !.throttle = IF @ = "" THEN DefaultThrottle ELSE ParseDuration(@),
                     !.timeWindow = "", !.minimumThrottle = "", !.maximumThrottle = ""]
      ELSE [c EXCEPT !.coolDown = ParseDuration(@), !.throttle = "",
                     !.timeWindow = ParseDuration(@),
                     !.minimumThrottle = ParseDuration(@),
                     !.maximumThrottle = ParseDuration(@)]

\* Variant: a throttled cycle leaves its origin out, as the scaling window's does.
TransformToConfigNoOrigin(cycle) == [cycle EXCEPT !.origin = "blank"]

\* The scaling window's leaves the origin out.
TransformToConfig(cycle) ==
    IF IsThrottled(cycle) THEN cycle ELSE [cycle EXCEPT !.origin = "blank"]

ID(c) == <<c.name, c.collection>>

\* LoadSchedulerFromFile adds the entries in order: one that is not valid, or whose
\* ID is taken, is skipped.
Entries(file, id) == {i \in DOMAIN file : Validate(file[i]) /\ ID(file[i]) = id}

\* The entry that becomes the cycle with the ID, if there is one.
Loaded(file, id) == {i \in Entries(file, id) : \A j \in Entries(file, id) : i <= j}
=============================================================================
