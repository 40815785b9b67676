------------------------------ MODULE PublishTask ------------------------------
(***************************************************************************)
(* What is done with each UUID of a pass: the native document is read from *)
(* Mongo, checked, hashed, given a transaction ID of the carousel and sent *)
(* to the CMS notifier, by several cycles that go through one collection   *)
(* while its documents are edited, and what the metadata counts of it.     *)
(*                                                                         *)
(* The passes are those of ThrottledCycle, where a list may be short; here *)
(* each begins with a complete one.  Of a body the model keeps its version *)
(* and its publishReference.                                               *)
(***************************************************************************)
EXTENDS Integers

CONSTANTS
    NDocs,      \* the documents of the collection are 1..NDocs
    Cycles,     \* the goroutines that publish it
    Kinds,      \* the shapes a document takes: a subset of KindNames
    MaxEdits,   \* bound: how often a document is edited
    Stamps,     \* what the clock says, in the carousel's transaction IDs
    Faults      \* what may fail: a subset of FaultNames

\* article: with a publishReference; bare: without one; gone: deleted; empty: no
\* body; untyped: its type is not a string.
KindNames  == {"article", "bare", "image", "empty", "gone", "untyped"}
FaultNames == {"dial", "read", "notify", "reply"}

ASSUME DocsAssumption == NDocs \in Nat \ {0} /\ MaxEdits \in Nat
ASSUME ShapesAssumption == Kinds \subseteq KindNames /\ Faults \subseteq FaultNames
ASSUME StampsAssumption == {"stored", "none"} \intersect Stamps = {}

VARIABLES
    store,      \* the documents in Mongo
    sent,       \* what the notifier accepted last for each document
    dialled,    \* how many sessions were dialled
    session,    \* is MongoDB.session set?
    task,       \* what each cycle is doing
    meta,       \* each cycle's Completed, from where its pass began, and Errors
    answered,   \* not in the code: how many 2xx answers each pass was given
    saved,      \* where the last checkpoint resumes each cycle
    up          \* is the process up?

vars == <<store, sent, dialled, session, task, meta, answered, saved, up>>

Docs == 1..NDocs

Publishable == {"article", "bare"}

\* The publishReference of a body as it is stored.
Reference(doc) == IF doc.kind = "article" THEN "stored" ELSE "none"

References == Stamps \union {"stored", "none"}

Doc     == [version : 0..MaxEdits, kind : Kinds]
Body    == [version : 0..MaxEdits, ref : References]
NoBody  == [version |-> 0, ref |-> "none"]

\* The hash of a body is as good as the body.
Message == [body : Body, hash : Body]
Nothing == [sent |-> FALSE]

IdleTask == [pc |-> "next", next |-> 1, body |-> NoBody, failed |-> FALSE]
Task == [pc : {"next", "open", "read", "notify", "record"}, next : 1..(NDocs + 2),
         body : Body, failed : BOOLEAN]

TypeOK ==
    /\ store \in [Docs -> Doc]
    /\ sent \in [Docs -> Message \union {Nothing}]
    /\ dialled \in Nat
    /\ session \in BOOLEAN
    /\ task \in [Cycles -> Task]
    /\ meta \in [Cycles -> [completed : 0..(NDocs + 1), errors : 0..NDocs]]
    /\ answered \in [Cycles -> 0..NDocs]
    /\ saved \in [Cycles -> Docs]
    /\ up \in BOOLEAN

NewMeta == [completed |-> 0, errors |-> 0]

Init ==
    /\ store \in [Docs -> [version : {0}, kind : Kinds]]
    /\ sent = [d \in Docs |-> Nothing]
    /\ dialled = 0 /\ session = FALSE
    /\ task = [c \in Cycles |-> IdleTask]
    /\ meta = [c \in Cycles |-> NewMeta]
    /\ answered = [c \in Cycles |-> 0]
    /\ saved = [c \in Cycles |-> 1]
    /\ up = TRUE

At(c, pc) == up /\ task[c].pc = pc
Item(c)   == task[c].next
Goto(c, pc) == task' = [task EXCEPT ![c].pc = pc]

\* The attempt is over, with or without an error.
Ends(c, failed) == task' = [task EXCEPT ![c].pc = "record", ![c].failed = failed]

-----------------------------------------------------------------------------
(* An attempt: publishCollection, Prepare and Execute. *)

Begin(c) ==
    /\ At(c, "next") /\ Item(c) \in Docs
    /\ Goto(c, "open")
    /\ UNCHANGED <<store, sent, dialled, session, meta, answered, saved, up>>

\* MongoDB.Open dials once, under its lock, and copies the session.
Open(c) ==
    /\ At(c, "open")
    /\ \/ session /\ Goto(c, "read") /\ UNCHANGED <<dialled, session>>
       \/ ~session /\ Goto(c, "read") /\ dialled' = dialled + 1 /\ session' = TRUE
       \/ ~session /\ "dial" \in Faults /\ Ends(c, TRUE) /\ UNCHANGED <<dialled, session>>
    /\ UNCHANGED <<store, sent, meta, answered, saved, up>>

\* Get, and the rest of Prepare, of a document that is published.
Read(c) ==
    /\ At(c, "read")
    /\ store[Item(c)].kind \in Publishable
    /\ task' = [task EXCEPT ![c].pc = "notify",
                            ![c].body = [version |-> store[Item(c)].version,
                                         ref |-> Reference(store[Item(c)])]]
    /\ UNCHANGED <<store, sent, dialled, session, meta, answered, saved, up>>

\* Prepare returns an error: no document, no body, an image, or Mongo failed.
Skip(c) ==
    /\ At(c, "read")
    /\ store[Item(c)].kind \in {"gone", "empty", "image"} \/ "read" \in Faults
    /\ Ends(c, TRUE)
    /\ UNCHANGED <<store, sent, dialled, session, meta, answered, saved, up>>

\* The image filter asserts that the type is a string: the process dies.
Panic(c) ==
    /\ At(c, "read")
    /\ store[Item(c)].kind = "untyped"
    /\ up' = FALSE
    /\ UNCHANGED <<store, sent, dialled, session, task, meta, answered, saved>>

Hash(body) == body

Stamped(body, now) == [body EXCEPT !.ref = now]

\* Variant: the hash is taken after the publishReference was replaced.
ExecuteStamped(body, now) == [body |-> Stamped(body, now), hash |-> Hash(Stamped(body, now))]

\* Execute: the hash is the stored body's.
Execute(body, now) == [body |-> Stamped(body, now), hash |-> Hash(body)]

\* Variant: the status of the answer is not looked at.
NotifyUnchecked(c) ==
    /\ At(c, "notify")
    /\ \E now \in Stamps :
        \/ /\ sent' = [sent EXCEPT ![Item(c)] = Execute(task[c].body, now)]
           /\ answered' = [answered EXCEPT ![c] = @ + 1]
        \/ "notify" \in Faults /\ UNCHANGED <<sent, answered>>
    /\ Ends(c, FALSE)
    /\ UNCHANGED <<store, dialled, session, meta, saved, up>>

\* The notifier answers 2xx, or refuses; or it accepts, and the answer is lost.
Notify(c) ==
    /\ At(c, "notify")
    /\ \E now \in Stamps :
        \/ /\ sent' = [sent EXCEPT ![Item(c)] = Execute(task[c].body, now)]
           /\ answered' = [answered EXCEPT ![c] = @ + 1]
           /\ Ends(c, FALSE)
        \/ "notify" \in Faults /\ Ends(c, TRUE) /\ UNCHANGED <<sent, answered>>
        \/ /\ "reply" \in Faults
           /\ sent' = [sent EXCEPT ![Item(c)] = Execute(task[c].body, now)]
           /\ Ends(c, TRUE) /\ UNCHANGED answered
    /\ UNCHANGED <<store, dialled, session, meta, saved, up>>

\* Variant: an item that failed is tried again.
RecordRetries(c) ==
    /\ At(c, "record")
    /\ task' = [task EXCEPT ![c] = [IdleTask EXCEPT
                    !.next = IF task[c].failed THEN Item(c) ELSE Item(c) + 1]]
    /\ UNCHANGED <<store, sent, dialled, session, meta, answered, saved, up>>

\* updateProgress: an item that failed is counted, and the pass goes on.
Record(c) ==
    /\ At(c, "record")
    /\ meta' = [meta EXCEPT ![c].completed = @ + 1,
                            ![c].errors = IF task[c].failed THEN @ + 1 ELSE @]
    /\ task' = [task EXCEPT ![c] = [IdleTask EXCEPT !.next = Item(c) + 1]]
    /\ UNCHANGED <<store, sent, dialled, session, answered, saved, up>>

\* The end of the list counts as an item.
Finish(c) ==
    /\ At(c, "next") /\ Item(c) = NDocs + 1
    /\ meta' = [meta EXCEPT ![c].completed = @ + 1]
    /\ task' = [task EXCEPT ![c].next = NDocs + 2]
    /\ UNCHANGED <<store, sent, dialled, session, answered, saved, up>>

\* The next pass begins, with metadata of its own.
NextPass(c) ==
    /\ At(c, "next") /\ Item(c) = NDocs + 2
    /\ task' = [task EXCEPT ![c] = IdleTask]
    /\ meta' = [meta EXCEPT ![c] = NewMeta]
    /\ answered' = [answered EXCEPT ![c] = 0]
    /\ UNCHANGED <<store, sent, dialled, session, saved, up>>

Cycle(c) ==
    \/ Begin(c) \/ Open(c) \/ Read(c) \/ Skip(c) \/ Panic(c)
    \/ Notify(c) \/ Record(c) \/ Finish(c) \/ NextPass(c)

-----------------------------------------------------------------------------
(* The editors of the documents, the checkpoints and the restart. *)

Edit(d) ==
    /\ store[d].version < MaxEdits
    /\ \E k \in Kinds :
           store' = [store EXCEPT ![d] = [version |-> store[d].version + 1, kind |-> k]]
    /\ UNCHANGED <<sent, dialled, session, task, meta, answered, saved, up>>

\* A checkpoint: what it counts resumes the pass, or begins another at its end.
Save(c) ==
    /\ up
    /\ saved' = [saved EXCEPT ![c] = IF Item(c) \in Docs THEN Item(c) ELSE 1]
    /\ UNCHANGED <<store, sent, dialled, session, task, meta, answered, up>>

\* The process is started again, and each cycle resumed.
Restart ==
    /\ ~up /\ up' = TRUE
    /\ session' = FALSE /\ dialled' = 0
    /\ task' = [c \in Cycles |-> [IdleTask EXCEPT !.next = saved[c]]]
    /\ meta' = [c \in Cycles |-> NewMeta]
    /\ answered' = [c \in Cycles |-> 0]
    /\ UNCHANGED <<store, sent, saved>>

Next ==
    \/ \E c \in Cycles : Cycle(c) \/ Save(c)
    \/ \E d \in Docs : Edit(d)
    \/ Restart

Spec == Init /\ [][Next]_vars

\* Go schedules every goroutine, each call a cycle makes returns, with or without an
\* error, and a process that died is started again.
FairSpec == Spec /\ (\A c \in Cycles : WF_vars(Cycle(c))) /\ WF_vars(Restart)

-----------------------------------------------------------------------------
(* Properties. *)

\* What the notifier accepts is a body as it was stored, but for the carousel's
\* transaction ID, and carries the hash of the stored body: the hash of a version is
\* the same whenever, and by whichever cycle, it is published again.
SentAsStored ==
    \A d \in Docs : sent[d] # Nothing =>
        /\ sent[d].hash.version = sent[d].body.version
        /\ sent[d].hash.ref \in {"stored", "none"}
        /\ sent[d].body.ref \in Stamps

\* However many cycles ask first, Mongo is dialled once.
OneDial == dialled <= 1

\* Every item counted since a pass began, or was resumed, was answered 2xx or is
\* counted as an error, however it failed: but for the one that counts the end.
Counted(c) ==
    LET pending == IF task[c].pc = "record" /\ ~task[c].failed THEN 1 ELSE 0
        end     == IF Item(c) = NDocs + 2 THEN 1 ELSE 0
    IN  meta[c].completed + pending = meta[c].errors + answered[c] + end

ErrorsAreCounted == \A c \in Cycles : Counted(c)

\* Why the properties above hold: what is read is a stored body, the item in hand is
\* a document, no more is counted than the items before it, and the session is set
\* by the first dial.
InHand(c) ==
    /\ task[c].body.ref \in {"stored", "none"}
    /\ task[c].pc # "next" => Item(c) \in Docs
    /\ meta[c].completed < Item(c)

TaskInv ==
    /\ \A c \in Cycles : InHand(c)
    /\ dialled = IF session THEN 1 ELSE 0

\* A document whose stored version is not the one that was sent last does not stay
\* unnoticed: it is sent, or an error is counted for it, again and again, as long as
\* no document kills the process.  An editor, a slower cycle that sends an older
\* version and a lost answer only delay it.
SentOrReported ==
    \A d \in Docs :
        []<>(\/ sent[d] # Nothing /\ sent[d].body.version = store[d].version
             \/ \E c \in Cycles : At(c, "record") /\ Item(c) = d /\ task[c].failed
             \/ \E b \in Docs : store[b].kind = "untyped")

-----------------------------------------------------------------------------
(* What the documentation says, checked where the code disagrees. *)

\* README: a cycle is "continuously iterating over" the native content.  One
\* document whose type is not a string keeps it from those after it.
EveryDocumentIsTried ==
    \A d \in Docs, c \in Cycles : []<>(task[c].next = d)
=============================================================================
