--------------------------- MODULE PublishTask_proofs ---------------------------
(***************************************************************************)
(* Proofs about PublishTask, for every collection, every number of cycles, *)
(* every shape of document and whatever fails.  The inductive invariant    *)
(* adds to the properties what is in each cycle's hand (TaskInv).          *)
(***************************************************************************)
EXTENDS PublishTask, TLAPS

IInv == TypeOK /\ TaskInv /\ SentAsStored /\ ErrorsAreCounted

(***************************************************************************)
(* Operators.                                                              *)
(***************************************************************************)

\* A body read from a document is a body, with a reference the store gives it.
LEMMA StoredBody ==
    ASSUME NEW doc \in Doc
    PROVE  /\ [version |-> doc.version, ref |-> Reference(doc)] \in Body
           /\ Reference(doc) \in {"stored", "none"}
BY DEF Doc, Body, Reference, References

\* What Execute sends of a stored body is a message: the body under the carousel's
\* transaction ID, and the hash of the stored one.
LEMMA Sends ==
    ASSUME NEW body \in Body, NEW now \in Stamps
    PROVE  /\ Execute(body, now) \in Message
           /\ Execute(body, now).body = [version |-> body.version, ref |-> now]
           /\ Execute(body, now).hash = body
<1>1. Stamped(body, now) = [version |-> body.version, ref |-> now]
    BY DEF Stamped, Body
<1>2. Stamped(body, now) \in Body
    BY <1>1 DEF Body, References
<1> QED  BY <1>1, <1>2 DEF Execute, Hash, Message

\* A task that begins, at an item.
LEMMA IdleIsTask == IdleTask \in Task
<1>1. NoBody \in Body
    BY DocsAssumption DEF NoBody, Body, References
<1> QED  BY <1>1, DocsAssumption DEF IdleTask, Task

LEMMA Fresh ==
    ASSUME NEW n \in 1..(NDocs + 2)
    PROVE  LET t == [IdleTask EXCEPT !.next = n]
           IN  t \in Task /\ t.pc = "next" /\ t.next = n /\ t.body = NoBody
<1>1. [IdleTask EXCEPT !.next = n] \in Task
    BY IdleIsTask DEF Task
<1> QED  BY <1>1 DEF IdleTask

(***************************************************************************)
(* The invariant, cycle by cycle.                                          *)
(***************************************************************************)

\* A step of one cycle leaves what is said of the others alone.
LEMMA Frame ==
    ASSUME IInv, NEW c \in Cycles, InHand(c)', Counted(c)',
           SentAsStored', TypeOK', dialled' = (IF session' THEN 1 ELSE 0),
           \A k \in Cycles \ {c} :
               task'[k] = task[k] /\ meta'[k] = meta[k] /\ answered'[k] = answered[k]
    PROVE  IInv'
<1>1. ASSUME NEW k \in Cycles PROVE InHand(k)' /\ Counted(k)'
    <2>1. CASE k = c
        BY <2>1
    <2>2. CASE k # c
        <3>1. task'[k] = task[k] /\ meta'[k] = meta[k] /\ answered'[k] = answered[k]
            BY <2>2
        <3>2. InHand(k) /\ Counted(k)
            BY DEF IInv, TaskInv, ErrorsAreCounted
        <3> QED  BY <3>1, <3>2 DEF InHand, Counted, Item
    <2> QED  BY <2>1, <2>2
<1> QED  BY <1>1 DEF IInv, TaskInv, ErrorsAreCounted

\* A cycle's bounds: no more answers or errors than items counted.
LEMMA Bounds ==
    ASSUME IInv, NEW c \in Cycles
    PROVE  /\ task[c] \in Task /\ Item(c) \in 1..(NDocs + 2)
           /\ InHand(c) /\ Counted(c)
           /\ meta[c].completed \in Nat /\ meta[c].errors \in 0..NDocs
           /\ answered[c] \in 0..NDocs
           /\ task[c].pc = "next" \/ Item(c) \in 1..NDocs
BY DocsAssumption DEF IInv, TypeOK, TaskInv, ErrorsAreCounted, InHand, Item, Task, Docs

LEMMA InitInv == Init => IInv
<1> SUFFICES ASSUME Init PROVE IInv
    OBVIOUS
<1> USE DocsAssumption
<1>1. \A c \in Cycles : task[c] = [pc |-> "next", next |-> 1, body |-> NoBody, failed |-> FALSE]
    BY DEF Init, IdleTask
<1>2. task \in [Cycles -> Task]
    BY IdleIsTask DEF Init
<1>3. store \in [Docs -> Doc]
    BY DEF Init, Doc
<1>4. TypeOK
    <2>1. sent \in [Docs -> Message \union {Nothing}] /\ dialled \in Nat
        BY DEF Init
    <2>2. /\ meta \in [Cycles -> [completed : 0..(NDocs + 1), errors : 0..NDocs]]
          /\ answered \in [Cycles -> 0..NDocs] /\ saved \in [Cycles -> Docs]
        BY DEF Init, NewMeta, Docs
    <2>3. session \in BOOLEAN /\ up \in BOOLEAN
        BY Zenon DEF Init
    <2> QED  BY <1>2, <1>3, <2>1, <2>2, <2>3 DEF TypeOK
<1>5. TaskInv
    BY <1>1 DEF Init, TaskInv, InHand, Item, NoBody, NewMeta
<1>6. SentAsStored
    BY DEF Init, SentAsStored
<1>7. ErrorsAreCounted
    BY <1>1 DEF Init, ErrorsAreCounted, Counted, Item, NewMeta
<1> QED  BY <1>4, <1>5, <1>6, <1>7 DEF IInv

\* The steps of an attempt that send nothing and count nothing: whichever ends it,
\* does so with an error.
LEMMA QuietStep ==
    ASSUME IInv, NEW c \in Cycles,
           task[c].pc # "record",
           task' \in [Cycles -> Task],
           \A k \in Cycles \ {c} : task'[k] = task[k],
           task'[c].next = task[c].next,
           task'[c].pc = "record" => task'[c].failed,
           task'[c].pc # "next" => Item(c) \in Docs,
           task'[c].body.ref \in {"stored", "none"},
           UNCHANGED <<store, sent, meta, answered, saved, up>>,
           dialled' \in Nat, session' \in BOOLEAN,
           dialled' = (IF session' THEN 1 ELSE 0)
    PROVE  IInv'
<1>1. TypeOK'
    BY DEF IInv, TypeOK
<1>2. SentAsStored'
    BY DEF IInv, SentAsStored
<1>3. InHand(c)'
    BY Bounds DEF InHand, Item
<1>4. Counted(c)'
    BY Bounds DEF Counted, Item
<1> QED  BY <1>1, <1>2, <1>3, <1>4, Frame

LEMMA CycleInv ==
    ASSUME IInv, NEW c \in Cycles, Cycle(c)
    PROVE  IInv'
<1> USE DocsAssumption
<1>0. /\ task \in [Cycles -> Task] /\ task[c] \in Task /\ Item(c) \in 1..(NDocs + 2)
      /\ dialled \in Nat /\ session \in BOOLEAN /\ dialled = (IF session THEN 1 ELSE 0)
      /\ task[c].body \in Body /\ task[c].body.ref \in {"stored", "none"}
    BY Bounds DEF IInv, TypeOK, TaskInv, InHand, Task
<1>1. CASE Begin(c)
    BY <1>0, <1>1, QuietStep DEF Begin, At, Goto, Task, Item
<1>2. CASE Open(c)
    <2>1. Item(c) \in Docs /\ task[c].pc = "open"
        BY <1>2, Bounds DEF Open, At, Docs
    <2>2. /\ task' \in [Cycles -> Task]
          /\ \A k \in Cycles \ {c} : task'[k] = task[k]
          /\ task'[c].next = task[c].next /\ task'[c].body = task[c].body
          /\ task'[c].pc = "record" => task'[c].failed
        BY <1>0, <1>2 DEF Open, Goto, Ends, Task
    <2>3. dialled' \in Nat /\ session' \in BOOLEAN /\ dialled' = (IF session' THEN 1 ELSE 0)
        <3>1. CASE UNCHANGED <<dialled, session>>
            BY <1>0, <3>1
        <3>2. CASE ~session /\ dialled' = dialled + 1 /\ session' = TRUE
            BY <1>0, <3>2
        <3> QED  BY <1>2, <3>1, <3>2 DEF Open
    <2> QED  BY <1>0, <1>2, <2>1, <2>2, <2>3, QuietStep DEF Open
<1>3. CASE Read(c)
    <2>1. Item(c) \in Docs /\ task[c].pc = "read"
        BY <1>3, Bounds DEF Read, At, Docs
    <2>2. store[Item(c)] \in Doc
        BY <2>1 DEF IInv, TypeOK
    <2> DEFINE body == [version |-> store[Item(c)].version, ref |-> Reference(store[Item(c)])]
    <2>3. body \in Body /\ body.ref \in {"stored", "none"}
        BY <2>2, StoredBody
    <2>4. task' = [task EXCEPT ![c].pc = "notify", ![c].body = body]
        BY <1>3 DEF Read
    <2> HIDE DEF body
    <2>5. /\ task' \in [Cycles -> Task]
          /\ \A k \in Cycles \ {c} : task'[k] = task[k]
          /\ task'[c].next = task[c].next /\ task'[c].body = body /\ task'[c].pc = "notify"
        BY <1>0, <2>3, <2>4 DEF Task
    <2> QED  BY <1>0, <1>3, <2>1, <2>3, <2>5, QuietStep DEF Read
<1>4. CASE Skip(c)
    <2>1. Item(c) \in Docs /\ task[c].pc = "read"
        BY <1>4, Bounds DEF Skip, At, Docs
    <2>2. /\ task' \in [Cycles -> Task]
          /\ \A k \in Cycles \ {c} : task'[k] = task[k]
          /\ task'[c].next = task[c].next /\ task'[c].body = task[c].body
          /\ task'[c].failed
        BY <1>0, <1>4 DEF Skip, Ends, Task
    <2> QED  BY <1>0, <1>4, <2>1, <2>2, QuietStep DEF Skip
<1>5. CASE Panic(c)
    BY <1>5 DEF Panic, IInv, TypeOK, TaskInv, InHand, SentAsStored, ErrorsAreCounted, Counted, Item
<1>6. CASE Notify(c)
    <2>1. Item(c) \in 1..NDocs /\ task[c].pc = "notify"
        BY <1>6, Bounds DEF Notify, At
    <2>2. PICK now \in Stamps :
            /\ \/ sent' = [sent EXCEPT ![Item(c)] = Execute(task[c].body, now)]
               \/ sent' = sent
            /\ \/ /\ answered' = [answered EXCEPT ![c] = @ + 1]
                  /\ Ends(c, FALSE)
               \/ answered' = answered /\ Ends(c, TRUE)
        BY <1>6 DEF Notify
    <2>3. UNCHANGED <<store, dialled, session, meta, saved, up>>
        BY <1>6 DEF Notify
    <2>4. answered[c] < NDocs
        BY <2>1, Bounds DEF Counted, InHand, Item
    <2>5. /\ task' \in [Cycles -> Task]
          /\ \A k \in Cycles \ {c} : task'[k] = task[k] /\ answered'[k] = answered[k]
          /\ task'[c].next = task[c].next /\ task'[c].body = task[c].body
          /\ task'[c].pc = "record"
          /\ \/ answered'[c] = answered[c] + 1 /\ ~task'[c].failed
             \/ answered'[c] = answered[c] /\ task'[c].failed
        BY <1>0, <2>2 DEF Ends, Task, IInv, TypeOK
    <2>6. Execute(task[c].body, now) \in Message
        BY <1>0, Sends
    <2>7. sent' \in [Docs -> Message \union {Nothing}]
        <3>1. sent \in [Docs -> Message \union {Nothing}]
            BY DEF IInv, TypeOK
        <3> HIDE DEF Message, Nothing
        <3> QED  BY <2>2, <2>6, <3>1
    <2>8. answered' \in [Cycles -> 0..NDocs]
        <3>1. answered \in [Cycles -> 0..NDocs]
            BY DEF IInv, TypeOK
        <3>2. answered[c] + 1 \in 0..NDocs
            BY <2>4, <3>1
        <3>3. answered' = answered \/ answered' = [answered EXCEPT ![c] = @ + 1]
            BY <2>2
        <3> QED  BY <3>1, <3>2, <3>3
    <2>9. TypeOK'
        BY <2>3, <2>5, <2>7, <2>8 DEF IInv, TypeOK
    <2>10. SentAsStored'
        <3> SUFFICES ASSUME NEW d \in Docs, sent'[d] # Nothing
                     PROVE  /\ sent'[d].hash.version = sent'[d].body.version
                            /\ sent'[d].hash.ref \in {"stored", "none"}
                            /\ sent'[d].body.ref \in Stamps
            BY DEF SentAsStored
        <3>1. CASE sent'[d] = sent[d]
            BY <3>1 DEF IInv, SentAsStored
        <3>2. CASE sent'[d] = Execute(task[c].body, now)
            <4>1. /\ Execute(task[c].body, now).body = [version |-> task[c].body.version, ref |-> now]
                  /\ Execute(task[c].body, now).hash = task[c].body
                BY <1>0, Sends
            <4> QED  BY <3>2, <4>1, <1>0
        <3> QED  BY <2>2, <3>1, <3>2 DEF IInv, TypeOK
    <2>11. InHand(c)'
        BY <1>0, <2>1, <2>3, <2>5, Bounds DEF InHand, Item, Docs
    <2>12. Counted(c)'
        BY <2>1, <2>3, <2>5, Bounds DEF Counted, Item
    <2> QED  BY <1>0, <2>3, <2>5, <2>9, <2>10, <2>11, <2>12, Frame
<1>7. CASE Record(c)
    <2>1. Item(c) \in 1..NDocs /\ task[c].pc = "record"
        BY <1>7, Bounds DEF Record, At
    <2>2. UNCHANGED <<store, sent, dialled, session, answered, saved, up>>
        BY <1>7 DEF Record
    <2>3. /\ meta[c].completed < NDocs
          /\ task[c].failed => meta[c].errors < NDocs
        BY <2>1, Bounds DEF InHand, Counted, Item
    <2>4. /\ meta' \in [Cycles -> [completed : 0..(NDocs + 1), errors : 0..NDocs]]
          /\ \A k \in Cycles \ {c} : meta'[k] = meta[k]
          /\ meta'[c].completed = meta[c].completed + 1
          /\ meta'[c].errors = meta[c].errors + (IF task[c].failed THEN 1 ELSE 0)
        <3>1. /\ meta \in [Cycles -> [completed : 0..(NDocs + 1), errors : 0..NDocs]]
              /\ task[c].failed \in BOOLEAN
            BY <1>0 DEF IInv, TypeOK, Task
        <3>2. CASE task[c].failed
            <4>1. meta' = [meta EXCEPT ![c].completed = @ + 1, ![c].errors = @ + 1]
                BY <1>7, <3>2 DEF Record
            <4> QED  BY <2>3, <3>1, <3>2, <4>1
        <3>3. CASE ~task[c].failed
            <4>1. meta' = [meta EXCEPT ![c].completed = @ + 1, ![c].errors = @]
                BY <1>7, <3>3, Zenon DEF Record
            <4>2. meta[c].completed + 1 \in 0..(NDocs + 1) /\ meta[c].errors \in 0..NDocs
                BY <2>3, <3>1
            <4>3. meta' \in [Cycles -> [completed : 0..(NDocs + 1), errors : 0..NDocs]]
                BY <3>1, <4>1, <4>2
            <4>4. /\ \A k \in Cycles \ {c} : meta'[k] = meta[k]
                  /\ meta'[c].completed = meta[c].completed + 1
                  /\ meta'[c].errors = meta[c].errors
                BY <3>1, <4>1
            <4>5. meta[c].errors \in Nat
                BY <4>2
            <4> QED  BY <3>3, <4>3, <4>4, <4>5
        <3> QED  BY <3>1, <3>2, <3>3
    <2>5. Item(c) + 1 \in 1..(NDocs + 2)
        BY <2>1
    <2>6. [IdleTask EXCEPT !.next = Item(c) + 1] \in Task
        BY <2>5, Fresh
    <2>7. /\ task' \in [Cycles -> Task]
          /\ \A k \in Cycles \ {c} : task'[k] = task[k]
          /\ task'[c].pc = "next" /\ task'[c].next = task[c].next + 1
          /\ task'[c].body = NoBody
        <3>1. task' = [task EXCEPT ![c] = [IdleTask EXCEPT !.next = Item(c) + 1]]
            BY <1>7 DEF Record
        <3> QED  BY <1>0, <2>5, <2>6, <3>1, Fresh DEF Item
    <2>8. TypeOK'
        BY <2>2, <2>4, <2>7 DEF IInv, TypeOK
    <2>9. SentAsStored'
        BY <2>2 DEF IInv, SentAsStored
    <2>10. InHand(c)'
        BY <2>1, <2>4, <2>7, Bounds DEF InHand, Item, NoBody
    <2>11. Counted(c)'
        BY <2>1, <2>2, <2>4, <2>7, Bounds DEF Counted, Item
    <2> QED  BY <1>0, <2>2, <2>4, <2>7, <2>8, <2>9, <2>10, <2>11, Frame
<1>8. CASE Finish(c)
    <2>1. Item(c) = NDocs + 1 /\ task[c].pc = "next"
        BY <1>8 DEF Finish, At
    <2>2. UNCHANGED <<store, sent, dialled, session, answered, saved, up>>
        BY <1>8 DEF Finish
    <2>3. /\ meta' \in [Cycles -> [completed : 0..(NDocs + 1), errors : 0..NDocs]]
          /\ \A k \in Cycles \ {c} : meta'[k] = meta[k]
          /\ meta'[c].completed = meta[c].completed + 1
          /\ meta'[c].errors = meta[c].errors
        BY <1>8, <2>1, Bounds DEF Finish, IInv, TypeOK, InHand
    <2>4. /\ task' \in [Cycles -> Task]
          /\ \A k \in Cycles \ {c} : task'[k] = task[k]
          /\ task'[c].pc = "next" /\ task'[c].next = NDocs + 2
          /\ task'[c].body = task[c].body
        BY <1>0, <1>8, <2>1 DEF Finish, Task
    <2>5. TypeOK'
        BY <2>2, <2>3, <2>4 DEF IInv, TypeOK
    <2>6. SentAsStored'
        BY <2>2 DEF IInv, SentAsStored
    <2>7. InHand(c)'
        BY <1>0, <2>1, <2>3, <2>4, Bounds DEF InHand, Item
    <2>8. Counted(c)'
        BY <2>1, <2>2, <2>3, <2>4, Bounds DEF Counted, Item
    <2> QED  BY <1>0, <2>2, <2>3, <2>4, <2>5, <2>6, <2>7, <2>8, Frame
<1>9. CASE NextPass(c)
    <2>1. UNCHANGED <<store, sent, dialled, session, saved, up>>
        BY <1>9 DEF NextPass
    <2>2. IdleTask \in Task
        BY IdleIsTask
    <2>3. /\ task' \in [Cycles -> Task]
          /\ \A k \in Cycles \ {c} : task'[k] = task[k]
          /\ task'[c] = IdleTask
        BY <1>0, <1>9, <2>2 DEF NextPass
    <2>4. /\ meta' \in [Cycles -> [completed : 0..(NDocs + 1), errors : 0..NDocs]]
          /\ answered' \in [Cycles -> 0..NDocs]
          /\ \A k \in Cycles \ {c} : meta'[k] = meta[k] /\ answered'[k] = answered[k]
          /\ meta'[c] = NewMeta /\ answered'[c] = 0
        BY <1>9 DEF NextPass, IInv, TypeOK, NewMeta
    <2>5. TypeOK'
        BY <2>1, <2>3, <2>4 DEF IInv, TypeOK
    <2>6. SentAsStored'
        BY <2>1 DEF IInv, SentAsStored
    <2>7. InHand(c)' /\ Counted(c)'
        BY <2>3, <2>4 DEF InHand, Counted, Item, IdleTask, NoBody, NewMeta
    <2> QED  BY <1>0, <2>1, <2>3, <2>4, <2>5, <2>6, <2>7, Frame
<1> QED  BY <1>1, <1>2, <1>3, <1>4, <1>5, <1>6, <1>7, <1>8, <1>9 DEF Cycle

LEMMA NextInv == IInv /\ [Next]_vars => IInv'
<1> SUFFICES ASSUME IInv, [Next]_vars PROVE IInv'
    OBVIOUS
<1> USE DocsAssumption
<1>1. CASE UNCHANGED vars
    BY <1>1 DEF vars, IInv, TypeOK, TaskInv, InHand, SentAsStored, ErrorsAreCounted, Counted, Item
<1>2. ASSUME NEW c \in Cycles, Cycle(c) PROVE IInv'
    BY <1>2, CycleInv
<1>3. ASSUME NEW c \in Cycles, Save(c) PROVE IInv'
    <2>1. saved' \in [Cycles -> Docs]
        BY <1>3 DEF Save, IInv, TypeOK, Docs
    <2>2. UNCHANGED <<store, sent, dialled, session, task, meta, answered, up>>
        BY <1>3 DEF Save
    <2> QED  BY <2>1, <2>2
             DEF IInv, TypeOK, TaskInv, InHand, SentAsStored, ErrorsAreCounted, Counted, Item
<1>4. ASSUME NEW d \in Docs, Edit(d) PROVE IInv'
    <2>1. store' \in [Docs -> Doc]
        BY <1>4 DEF Edit, IInv, TypeOK, Doc
    <2>2. UNCHANGED <<sent, dialled, session, task, meta, answered, saved, up>>
        BY <1>4 DEF Edit
    <2> QED  BY <2>1, <2>2
             DEF IInv, TypeOK, TaskInv, InHand, SentAsStored, ErrorsAreCounted, Counted, Item
<1>5. CASE Restart
    <2>1. \A c \in Cycles : saved[c] \in 1..NDocs
        BY DEF IInv, TypeOK, Docs
    <2>2. \A c \in Cycles :
              /\ task'[c].pc = "next" /\ task'[c].next = saved[c] /\ task'[c].body = NoBody
              /\ task'[c] \in Task
        <3> TAKE c \in Cycles
        <3>1. saved[c] \in 1..(NDocs + 2)
            BY <2>1
        <3>2. task'[c] = [IdleTask EXCEPT !.next = saved[c]]
            BY <1>5 DEF Restart
        <3> QED  BY <3>1, <3>2, Fresh
    <2>3. task' \in [Cycles -> Task]
        BY <1>5, <2>2 DEF Restart
    <2>4. TypeOK'
        <3>1. /\ meta' \in [Cycles -> [completed : 0..(NDocs + 1), errors : 0..NDocs]]
              /\ answered' \in [Cycles -> 0..NDocs]
              /\ dialled' \in Nat
            BY <1>5 DEF Restart, NewMeta
        <3>2. session' \in BOOLEAN /\ up' \in BOOLEAN /\ UNCHANGED <<store, sent, saved>>
            BY <1>5, Zenon DEF Restart
        <3> QED  BY <2>3, <3>1, <3>2 DEF IInv, TypeOK
    <2>5. SentAsStored'
        BY <1>5 DEF Restart, IInv, SentAsStored
    <2>6. TaskInv'
        <3>1. \A c \in Cycles : meta'[c].completed = 0
            BY <1>5 DEF Restart, NewMeta
        <3>2. dialled' = 0 /\ session' = FALSE
            BY <1>5 DEF Restart
        <3>3. dialled' = (IF session' THEN 1 ELSE 0)
            BY <3>2
        <3> QED  BY <2>1, <2>2, <3>1, <3>3 DEF TaskInv, InHand, Item, NoBody
    <2>7. ErrorsAreCounted'
        <3>1. \A c \in Cycles : /\ meta'[c].completed = 0 /\ meta'[c].errors = 0
                                /\ answered'[c] = 0
            BY <1>5 DEF Restart, NewMeta
        <3> QED  BY <2>1, <2>2, <3>1 DEF ErrorsAreCounted, Counted, Item
    <2> QED  BY <2>4, <2>5, <2>6, <2>7 DEF IInv
<1> QED  BY <1>1, <1>2, <1>3, <1>4, <1>5 DEF Next

LEMMA Invariant == Spec => []IInv
BY InitInv, NextInv, PTL DEF Spec

(***************************************************************************)
(* What follows.                                                           *)
(***************************************************************************)

\* Every state of the tasks is well typed, whatever fails and however often the
\* process dies.
THEOREM TypeCorrect == Spec => []TypeOK
<1>1. IInv => TypeOK
    BY DEF IInv
<1> QED  BY <1>1, Invariant, PTL

\* Whoever sends a document, and whatever happens to it meanwhile, the notifier
\* gets the hash of the body as it was stored, under an ID of the carousel.
THEOREM HashIsStored == Spec => []SentAsStored
<1>1. IInv => SentAsStored
    BY DEF IInv
<1> QED  BY <1>1, Invariant, PTL

\* However many cycles read at once, each process dials Mongo once.
THEOREM DialledOnce == Spec => []OneDial
<1>1. IInv => OneDial
    BY DEF IInv, TaskInv, OneDial
<1> QED  BY <1>1, Invariant, PTL

\* No failure is lost: what was counted was answered, or is an error.
THEOREM NoErrorIsLost == Spec => []ErrorsAreCounted
<1>1. IInv => ErrorsAreCounted
    BY DEF IInv
<1> QED  BY <1>1, Invariant, PTL
=============================================================================
