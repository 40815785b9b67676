----------------------------- MODULE MCScheduler -----------------------------
\* Instances of Scheduler for TLC: who the callers are, and what each calls.
EXTENDS Scheduler

CONSTANTS a, b, editor

Toggles == Offs \union Ons

\* One caller that switches the scheduler and reports, and a second that edits the map
\* and resumes and stops single cycles.
WithEditor  == [t \in {a, editor} |->
                  IF t = editor THEN OnCycle \union OnOne ELSE Calls \ (OnCycle \union OnOne)]

\* The overlaps of the disagreements with the documentation.
ShutdownAndEdit   == [t \in {a, editor} |->
                        IF t = editor THEN {"add"} ELSE {"manualOn", "start", "shutdown"}]
StartAndShutdown  == [t \in {a, b} |->
                        IF t = a THEN {"manualOn", "start"} ELSE {"shutdown"}]
ShutdownAndResume == [t \in {a, b} |->
                        IF t = a THEN {"manualOn", "start", "shutdown"} ELSE {"resume"}]
OffAndUnhealthy   == [t \in {a, b} |->
                        IF t = a THEN {"manualOn", "start", "manualOff"} ELSE {"unhealthy"}]
StartAndFailover  == [t \in {a, b} |->
                        IF t = a THEN {"manualOn", "autoOff"} ELSE {"start"}]
HealthyAndFailback == [t \in {a, b} |->
                        IF t = a THEN {"manualOn", "autoOff", "autoOn"} ELSE {"healthy"}]
ReportAndFailover  == [t \in {a, b} |->
                        IF t = a THEN {"manualOn", "autoOff"} ELSE {"failover"}]
=============================================================================
