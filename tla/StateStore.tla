------------------------------ MODULE StateStore ------------------------------
(***************************************************************************)
(* The S3 folders in which the carousel keeps what it must not forget: a   *)
(* cycle's metadata, written at every checkpoint and shutdown and restored *)
(* at boot, and the list of a collection's UUIDs, written by the cycles    *)
(* that load it and read by those that resume.  Nothing is updated in      *)
(* place: every write adds an object named for the second it began in, and *)
(* a reader takes the one S3 says was modified last.                       *)
(***************************************************************************)
EXTENDS Integers, FiniteSets

CONSTANTS
    Folders,    \* one per cycle, and one per collection
    Clients,    \* the goroutines that save and load
    PageLimit,  \* how many objects ListObjects returns at most
    Spaced,     \* whether two objects are never stored in the same second
    Faults,     \* a subset of {"s3", "purge"}: failing calls, expiring objects
    MaxTime     \* bound: the clock, in seconds, stops there

ASSUME FoldersAssumption == Folders # {}
ASSUME StoreAssumption == PageLimit \in Nat \ {0} /\ MaxTime \in Nat /\ Spaced \in BOOLEAN
ASSUME FaultsAssumption == Faults \subseteq {"s3", "purge"}

VARIABLES
    now,        \* the clock
    objects,    \* the objects of each folder
    stored,     \* how many were ever stored there
    client      \* what each client is doing

vars == <<now, objects, stored, client>>

\* key: the second the write began; modified: the second it was stored; nth: the
\* place of its content among all those stored in the folder.
Object == [key : 0..MaxTime, modified : 0..MaxTime, nth : Nat]

\* newest: how many objects had been stored when the load began; got: what it read.
IdleClient == [pc |-> "idle", folder |-> CHOOSE f \in Folders : TRUE, key |-> 0,
               newest |-> 0, got |-> 0]
ClientPC == {"idle", "put", "get", "loaded", "missing", "failed"}
Client == [pc : ClientPC, folder : Folders, key : 0..MaxTime, newest : Nat, got : Nat]

TypeOK ==
    /\ now \in 0..MaxTime
    /\ objects \in [Folders -> SUBSET Object]
    /\ stored \in [Folders -> Nat]
    /\ client \in [Clients -> Client]

Init ==
    /\ now = 0
    /\ objects = [f \in Folders |-> {}]
    /\ stored = [f \in Folders |-> 0]
    /\ client = [c \in Clients |-> IdleClient]

-----------------------------------------------------------------------------
At(c, pc) == client[c].pc = pc
Done(c, pc) == client' = [client EXCEPT ![c].pc = pc]

\* Variant: a key of a clock that is ahead.
WriteAhead(c, f) ==
    /\ At(c, "idle")
    /\ client' = [client EXCEPT ![c].pc = "put", ![c].folder = f, ![c].key = now + 1]
    /\ UNCHANGED <<now, objects, stored>>

\* WriteMetadata and persistInS3 take the key from the clock, then write.
Write(c, f) ==
    /\ At(c, "idle")
    /\ client' = [client EXCEPT ![c].pc = "put", ![c].folder = f, ![c].key = now]
    /\ UNCHANGED <<now, objects, stored>>

\* Variant: an object counts as modified when its write began.
PutObjectBegun(c) ==
    LET f == client[c].folder
        key == client[c].key
        others == {o \in objects[f] : o.key # key}
    IN  /\ At(c, "put")
        /\ Spaced => \A o \in others : o.modified # now
        /\ objects' = [objects EXCEPT ![f] =
               others \union {[key |-> key, modified |-> key, nth |-> stored[f] + 1]}]
        /\ stored' = [stored EXCEPT ![f] = @ + 1]
        /\ Done(c, "idle")
        /\ UNCHANGED now

PutObject(c) ==
    LET f == client[c].folder
        key == client[c].key
        others == {o \in objects[f] : o.key # key}
    IN  /\ At(c, "put")
        /\ Spaced => \A o \in others : o.modified # now
        /\ objects' = [objects EXCEPT ![f] =
               others \union {[key |-> key, modified |-> now, nth |-> stored[f] + 1]}]
        /\ stored' = [stored EXCEPT ![f] = @ + 1]
        /\ Done(c, "idle")
        /\ UNCHANGED now

\* The error is logged; nothing is written again before the next checkpoint.
PutFailed(c) ==
    /\ "s3" \in Faults
    /\ At(c, "put")
    /\ Done(c, "idle")
    /\ UNCHANGED <<now, objects, stored>>

\* What ListObjects returns: the first objects in the order of their keys.
Page(f) == {o \in objects[f] : Cardinality({p \in objects[f] : p.key < o.key}) < PageLimit}

\* Variant: the comparison is the other way round.
OldestKey(page) ==
    (CHOOSE o \in page :
        \A p \in page : \/ p.modified > o.modified
                        \/ p.modified = o.modified /\ p.key >= o.key).key

\* The loop keeps an object until it meets one that was modified later.
LatestKey(page) ==
    (CHOOSE o \in page :
        \A p \in page : \/ p.modified < o.modified
                        \/ p.modified = o.modified /\ p.key >= o.key).key

GetLatestKeyForID(c, f) ==
    /\ At(c, "idle")
    /\ client' = [client EXCEPT
           ![c].pc = IF objects[f] = {} THEN "missing" ELSE "get",
           ![c].key = IF objects[f] = {} THEN 0 ELSE LatestKey(Page(f)),
           ![c].folder = f, ![c].newest = stored[f], ![c].got = 0]
    /\ UNCHANGED <<now, objects, stored>>

\* The object may have been replaced, or have gone, since it was listed.
Read(c) ==
    LET found == {o \in objects[client[c].folder] : o.key = client[c].key}
    IN  /\ At(c, "get")
        /\ IF found = {}
             THEN Done(c, "missing")
             ELSE \E o \in found :
                    client' = [client EXCEPT ![c].pc = "loaded", ![c].got = o.nth]
        /\ UNCHANGED <<now, objects, stored>>

ReadFailed(c) ==
    /\ "s3" \in Faults
    /\ At(c, "get")
    /\ Done(c, "failed")
    /\ UNCHANGED <<now, objects, stored>>

\* The caller goes on: with what it read, or from the initial state.
LoadReturns(c) ==
    /\ client[c].pc \in {"loaded", "missing", "failed"}
    /\ client' = [client EXCEPT ![c] = IdleClient]
    /\ UNCHANGED <<now, objects, stored>>

\* External: an object expires, never the last one stored.
Purge(f) ==
    /\ "purge" \in Faults
    /\ \E o \in objects[f] :
         /\ o.nth # stored[f]
         /\ objects' = [objects EXCEPT ![f] = @ \ {o}]
    /\ UNCHANGED <<now, stored, client>>

Tick ==
    /\ now < MaxTime
    /\ now' = now + 1
    /\ UNCHANGED <<objects, stored, client>>

\* Bound: a folder is written once a second at most, to the last one.
Next ==
    \/ \E c \in Clients, f \in Folders :
         \/ stored[f] <= now /\ Write(c, f)
         \/ GetLatestKeyForID(c, f)
    \/ \E c \in Clients :
         PutObject(c) \/ PutFailed(c) \/ Read(c) \/ ReadFailed(c) \/ LoadReturns(c)
    \/ \E f \in Folders : Purge(f)
    \/ Tick

Spec == Init /\ [][Next]_vars

-----------------------------------------------------------------------------
(* Properties. *)

\* A load returns the state that was the last to be saved when it began, or one
\* saved since: a restart never takes a cycle back to an older checkpoint.
LoadIsFresh == \A c \in Clients : At(c, "loaded") => client[c].got >= client[c].newest

\* A load that finds no state, for the cycle to start from its initial one, though S3
\* answered, finds none because none was saved, or because what it listed has
\* expired, having been superseded.
MissingIsSuperseded ==
    \A c \in Clients : At(c, "missing") =>
        \/ client[c].newest = 0
        \/ "purge" \in Faults /\ stored[client[c].folder] > client[c].newest

\* Why they hold.  A folder has one object a key, and the object that is the last to
\* be modified is the last that was stored, which never expires.
FolderInv(f) ==
    /\ \A o \in objects[f] : o.modified <= now /\ o.nth \in 1..stored[f]
    /\ \A o, p \in objects[f] : o # p =>
           o.key # p.key /\ o.modified # p.modified /\ (o.modified < p.modified <=> o.nth < p.nth)
    /\ stored[f] > 0 => \E o \in objects[f] : o.nth = stored[f]

\* A load that has listed its folder reads what was the last state then, or what has
\* replaced it; it finds nothing if that has expired, superseded.
ClientInv(c) ==
    LET listed == {o \in objects[client[c].folder] : o.key = client[c].key}
    IN  /\ client[c].newest <= stored[client[c].folder]
        /\ At(c, "get") =>
             /\ \A o \in listed : o.nth >= client[c].newest
             /\ listed = {} => "purge" \in Faults /\ stored[client[c].folder] > client[c].newest

StoreInv == (\A f \in Folders : FolderInv(f)) /\ (\A c \in Clients : ClientInv(c))
=============================================================================
