------------------------------ MODULE Lifecycle ------------------------------
(***************************************************************************)
(* What the scheduler promises of its mode when its calls do not overlap:  *)
(* the carousel runs only from stopped and is disabled only from stopped;  *)
(* whoever disabled it, the operator's toggle or the cluster's, is the one *)
(* whose toggle enables it again; one toggle is handled at a time.         *)
(***************************************************************************)

VARIABLES
    mode, last,     \* schedulerState: the current state and the one before
    toggle          \* whose toggle is being handled

vars == <<mode, last, toggle>>

Owners == {"operator", "cluster"}

Init == mode = "disabled" /\ last = "unknown" /\ toggle = "nobody"

Move(from, to) == mode = from /\ mode' = to /\ last' = from

StartUp  == Move("stopped", "running") /\ UNCHANGED toggle
ShutDown == Move("running", "stopped") /\ UNCHANGED toggle

Off(owner) == IF owner = "operator" THEN "disabled" ELSE "autoDisabled"

Take(owner) == toggle = "nobody" /\ toggle' = owner /\ UNCHANGED <<mode, last>>

\* A toggle takes effect, if it has one, as its handling ends.
Apply(owner) ==
    /\ toggle = owner
    /\ toggle' = "nobody"
    /\ \/ Move("stopped", Off(owner))
       \/ Move(Off(owner), "stopped")
       \/ UNCHANGED <<mode, last>>

Next ==
    \/ StartUp \/ ShutDown
    \/ \E owner \in Owners : Take(owner) \/ Apply(owner)

Spec == Init /\ [][Next]_vars
=============================================================================
