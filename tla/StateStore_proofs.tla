--------------------------- MODULE StateStore_proofs ---------------------------
(***************************************************************************)
(* Proofs about StateStore, for any number of folders, of clients and of   *)
(* writes, whatever fails and whatever expires.  What a restart reads is   *)
(* proved fresh as long as no two objects of a folder are stored in one    *)
(* second and a folder fits one listing (FolderInv, ClientInv).            *)
(***************************************************************************)
EXTENDS StateStore, FiniteSetTheorems, TLAPS

IInv == TypeOK /\ StoreInv

LEMMA IdleIsClient == IdleClient \in Client
BY FoldersAssumption, StoreAssumption DEF IdleClient, Client, ClientPC

(***************************************************************************)
(* Types.                                                                  *)
(***************************************************************************)

LEMMA PutTyped ==
    ASSUME TypeOK, NEW c \in Clients, PutObject(c)
    PROVE  TypeOK'
<1> DEFINE f == client[c].folder
           new == [key |-> client[c].key, modified |-> now, nth |-> stored[f] + 1]
<1>1. client[c] \in Client /\ now \in 0..MaxTime
    BY DEF TypeOK
<1>2. f \in Folders /\ client[c].key \in 0..MaxTime
    BY <1>1 DEF Client
<1>3. stored[f] \in Nat /\ objects[f] \in SUBSET Object
    BY <1>2 DEF TypeOK
<1>4. new \in Object
    BY <1>1, <1>2, <1>3 DEF Object
<1>5. objects' = [objects EXCEPT ![f] = {o \in objects[f] : o.key # client[c].key} \union {new}]
    BY DEF PutObject
<1>6. objects' \in [Folders -> SUBSET Object]
    BY <1>2, <1>3, <1>4, <1>5 DEF TypeOK
<1>7. stored' \in [Folders -> Nat]
    BY <1>2, <1>3 DEF PutObject, TypeOK
<1>8. client' \in [Clients -> Client]
    BY DEF PutObject, Done, TypeOK, Client, ClientPC
<1> QED  BY <1>1, <1>6, <1>7, <1>8 DEF PutObject, TypeOK

(***************************************************************************)
(* The listing.                                                            *)
(***************************************************************************)

\* A folder that has one object a key has no more of them than the clock has had
\* seconds: one listing returns them all.
LEMMA PageIsWhole ==
    ASSUME TypeOK, NEW f \in Folders, FolderInv(f), PageLimit > MaxTime
    PROVE  Page(f) = objects[f]
<1> SUFFICES ASSUME NEW o \in objects[f]
             PROVE  Cardinality({p \in objects[f] : p.key < o.key}) < PageLimit
    BY DEF Page
<1> DEFINE before == {p \in objects[f] : p.key < o.key}
           keyOf == [p \in before |-> p.key]
<1>1. objects[f] \in SUBSET Object /\ o.key \in 0..MaxTime /\ MaxTime \in Nat /\ PageLimit \in Nat
    BY StoreAssumption DEF TypeOK, Object
<1>2. \A p \in before : p.key \in 0..(o.key - 1)
    BY <1>1 DEF Object
<1>3. keyOf \in [before -> 0..(o.key - 1)]
    BY <1>2
<1>4. \A p, q \in before : keyOf[p] = keyOf[q] => p = q
    BY DEF FolderInv
<1>5. keyOf \in Injection(before, 0..(o.key - 1))
    BY <1>3, <1>4 DEF Injection, IsInjective
<1>6. IsFiniteSet(0..(o.key - 1)) /\ Cardinality(0..(o.key - 1)) = o.key
    <2>1. 0 \in Int /\ o.key - 1 \in Int
        BY <1>1
    <2>2. /\ IsFiniteSet(0..(o.key - 1))
          /\ Cardinality(0..(o.key - 1)) = IF 0 > o.key - 1 THEN 0 ELSE (o.key - 1) - 0 + 1
        BY <2>1, FS_Interval
    <2> QED  BY <1>1, <2>2
<1>7. IsFiniteSet(before) /\ Cardinality(before) <= o.key
    <2>1. IsFiniteSet(before) /\ Cardinality(before) <= Cardinality(0..(o.key - 1))
        BY <1>5, <1>6, FS_Injection
    <2> QED  BY <1>6, <2>1
<1>8. Cardinality(before) \in Nat
    BY <1>7, FS_CardinalityType
<1> QED  BY <1>1, <1>7, <1>8

\* The latest object of a folder is the last that was stored.
LEMMA LatestIsLast ==
    ASSUME TypeOK, NEW f \in Folders, FolderInv(f), objects[f] # {}
    PROVE  \E l \in objects[f] : LatestKey(objects[f]) = l.key /\ l.nth = stored[f]
<1>1. objects[f] \in SUBSET Object /\ stored[f] \in Nat
    BY DEF TypeOK
<1>2. stored[f] > 0
    BY <1>1 DEF FolderInv
<1>3. PICK l \in objects[f] : l.nth = stored[f]
    BY <1>2 DEF FolderInv
<1>4. \A p \in objects[f] : \/ p.modified < l.modified
                            \/ p.modified = l.modified /\ p.key >= l.key
    <2> SUFFICES ASSUME NEW p \in objects[f], p # l PROVE p.modified < l.modified
        BY <1>1 DEF Object
    <2>1. p.nth <= l.nth /\ p.modified \in Nat /\ l.modified \in Nat /\ p.nth \in Nat
         /\ l.nth \in Nat
        BY <1>1, <1>3 DEF FolderInv, Object
    <2>2. p.modified # l.modified /\ (l.modified < p.modified <=> l.nth < p.nth)
        BY DEF FolderInv
    <2> QED  BY <2>1, <2>2
<1> DEFINE Latest(o) == \A p \in objects[f] : \/ p.modified < o.modified
                                              \/ p.modified = o.modified /\ p.key >= o.key
<1>5. \A o \in objects[f] : Latest(o) => o = l
    <2> SUFFICES ASSUME NEW o \in objects[f], Latest(o), o # l PROVE FALSE
        OBVIOUS
    <2>1. l.modified <= o.modified /\ o.modified <= l.modified
        BY <1>1, <1>4 DEF Object
    <2>2. o.modified # l.modified
        BY DEF FolderInv
    <2> QED  BY <1>1, <2>1, <2>2 DEF Object
<1>6. LatestKey(objects[f]) = (CHOOSE o \in objects[f] : Latest(o)).key
    BY DEF LatestKey
<1>7. Latest(l)
    BY <1>4
<1> HIDE DEF Latest
<1>8. (CHOOSE o \in objects[f] : Latest(o)) = l
    BY <1>5, <1>7
<1> QED  BY <1>3, <1>6, <1>8

(***************************************************************************)
(* The invariant.                                                          *)
(***************************************************************************)

\* Writing adds the object that is modified last, in place of the one that had its
\* key.
LEMMA PutFolder ==
    ASSUME IInv, Spaced, NEW c \in Clients, PutObject(c), NEW f \in Folders
    PROVE  FolderInv(f)'
<1> DEFINE new == [key |-> client[c].key, modified |-> now, nth |-> stored[f] + 1]
           kept == {o \in objects[f] : o.key # client[c].key}
<1>0. FolderInv(f) /\ now \in Nat /\ now' = now /\ stored[f] \in Nat
      /\ objects[f] \in SUBSET Object /\ client[c].folder \in Folders
    BY StoreAssumption DEF IInv, StoreInv, TypeOK, PutObject, Client
<1>1. CASE f # client[c].folder
    <2>1. objects'[f] = objects[f] /\ stored'[f] = stored[f]
        BY <1>0, <1>1 DEF PutObject, IInv, TypeOK
    <2> QED  BY <1>0, <2>1 DEF FolderInv
<1>2. CASE f = client[c].folder
    <2>1. objects'[f] = kept \union {new} /\ stored'[f] = stored[f] + 1
        BY <1>0, <1>2 DEF PutObject, IInv, TypeOK
    <2>2. \A o \in kept : o.modified # now
        BY <1>2 DEF PutObject
    <2>3. \A o \in kept : /\ o.key # new.key /\ o.modified < now /\ o.nth \in 1..stored[f]
                          /\ o.nth < new.nth
        BY <1>0, <2>2 DEF FolderInv, Object
    <2>4. new.modified = now /\ new.nth = stored[f] + 1
        OBVIOUS
    <2>5. kept \subseteq objects[f]
        OBVIOUS
    <2> HIDE DEF new, kept
    <2>6. \A o \in objects'[f] : o.modified <= now /\ o.nth \in 1..(stored[f] + 1)
        BY <1>0, <2>1, <2>3, <2>4, <2>5 DEF Object
    <2>7. ASSUME NEW o \in objects'[f], NEW p \in objects'[f], o # p
          PROVE  /\ o.key # p.key /\ o.modified # p.modified
                 /\ o.modified < p.modified <=> o.nth < p.nth
        <3>1. CASE o \in kept /\ p \in kept
            BY <1>0, <2>5, <2>7, <3>1 DEF FolderInv
        <3>2. CASE o \in kept /\ p = new
            BY <1>0, <2>3, <2>4, <2>5, <3>2 DEF Object
        <3>3. CASE o = new /\ p \in kept
            BY <1>0, <2>3, <2>4, <2>5, <3>3 DEF Object
        <3> QED  BY <2>1, <2>7, <3>1, <3>2, <3>3
    <2>8. \E o \in objects'[f] : o.nth = stored[f] + 1
        BY <2>1, <2>4
    <2> QED  BY <1>0, <2>1, <2>6, <2>7, <2>8 DEF FolderInv
<1> QED  BY <1>1, <1>2

\* The object that is put is newer than any that was listed.
LEMMA PutClient ==
    ASSUME IInv, NEW c \in Clients, PutObject(c), NEW k \in Clients
    PROVE  ClientInv(k)'
<1> DEFINE f == client[c].folder
           g == client[k].folder
           new == [key |-> client[c].key, modified |-> now, nth |-> stored[f] + 1]
<1>0. /\ f \in Folders /\ g \in Folders /\ ClientInv(k)
      /\ stored \in [Folders -> Nat] /\ objects \in [Folders -> SUBSET Object]
      /\ client[k] \in Client
    BY DEF IInv, StoreInv, TypeOK, Client
<1>1. client' = [client EXCEPT ![c].pc = "idle"]
    BY DEF PutObject, Done
<1>2. /\ client'[k].folder = g /\ client'[k].key = client[k].key
      /\ client'[k].newest = client[k].newest
      /\ client'[k].pc = "get" => client[k].pc = "get"
    BY <1>1 DEF IInv, TypeOK, Client
<1>3. /\ objects' = [objects EXCEPT ![f] = {o \in objects[f] : o.key # client[c].key} \union {new}]
      /\ stored' = [stored EXCEPT ![f] = stored[f] + 1]
    BY DEF PutObject
<1>4. stored'[g] \in Nat /\ stored[g] \in Nat /\ stored'[g] >= stored[g]
    BY <1>0, <1>3
<1>5. client[k].newest \in Nat /\ client[k].newest <= stored[g]
    BY <1>0 DEF Client, ClientInv
<1>6. client'[k].newest <= stored'[g]
    BY <1>2, <1>4, <1>5
<1>7. ASSUME client'[k].pc = "get"
      PROVE  /\ \A o \in objects'[g] : o.key = client[k].key => o.nth >= client[k].newest
             /\ (\A o \in objects'[g] : o.key # client[k].key) =>
                    "purge" \in Faults /\ stored'[g] > client[k].newest
    <2>1. client[k].pc = "get"
        BY <1>2, <1>7
    <2>2. /\ \A o \in objects[g] : o.key = client[k].key => o.nth >= client[k].newest
          /\ (\A o \in objects[g] : o.key # client[k].key) =>
                 "purge" \in Faults /\ stored[g] > client[k].newest
        BY <1>0, <2>1 DEF ClientInv, At
    <2>3. CASE g # f
        <3>1. objects'[g] = objects[g] /\ stored'[g] = stored[g]
            BY <1>0, <1>3, <2>3
        <3> QED  BY <2>2, <3>1
    <2>4. CASE g = f
        <3>1. objects'[g] = {o \in objects[g] : o.key # client[c].key} \union {new}
            BY <1>0, <1>3, <2>4
        <3>2. new.nth = stored[g] + 1 /\ new.key = client[c].key
            BY <2>4
        <3> HIDE DEF new
        <3>3. \A o \in objects'[g] : o.key = client[k].key => o.nth >= client[k].newest
            BY <1>4, <1>5, <2>2, <3>1, <3>2
        <3>4. (\A o \in objects'[g] : o.key # client[k].key) =>
                  \A o \in objects[g] : o.key # client[k].key
            BY <3>1, <3>2
        <3> QED  BY <1>4, <1>5, <2>2, <3>3, <3>4
    <2> QED  BY <2>3, <2>4
<1> QED  BY <1>2, <1>6, <1>7 DEF ClientInv, At

\* An object that expires was superseded.
LEMMA PurgeInv ==
    ASSUME IInv, NEW f \in Folders, Purge(f)
    PROVE  IInv'
<1>1. PICK o \in objects[f] : /\ o.nth # stored[f]
                              /\ objects' = [objects EXCEPT ![f] = objects[f] \ {o}]
    BY DEF Purge
<1>2. "purge" \in Faults /\ UNCHANGED <<now, stored, client>>
    BY DEF Purge
<1>3. objects \in [Folders -> SUBSET Object] /\ stored \in [Folders -> Nat]
      /\ client \in [Clients -> Client]
    BY DEF IInv, TypeOK
<1>4. /\ objects' \in [Folders -> SUBSET Object]
      /\ \A g \in Folders : objects'[g] \subseteq objects[g]
      /\ \A g \in Folders : \A p \in objects[g] : p \in objects'[g] \/ (g = f /\ p = o)
    BY <1>1, <1>3
<1>5. TypeOK'
    BY <1>2, <1>4 DEF IInv, TypeOK
<1>6. ASSUME NEW g \in Folders PROVE FolderInv(g)'
    <2>1. FolderInv(g)
        BY DEF IInv, StoreInv
    <2>2. stored[g] > 0 => \E p \in objects'[g] : p.nth = stored[g]
        BY <1>1, <1>4, <2>1 DEF FolderInv
    <2> QED  BY <1>2, <1>4, <2>1, <2>2 DEF FolderInv
<1>7. ASSUME NEW c \in Clients PROVE ClientInv(c)'
    <2> DEFINE g == client[c].folder
    <2>1. ClientInv(c) /\ client[c] \in Client /\ g \in Folders
        BY <1>3 DEF IInv, StoreInv, Client
    <2>2. client[c].newest <= stored[g] /\ stored[g] \in Nat /\ client[c].newest \in Nat
        BY <1>3, <2>1 DEF ClientInv, Client
    <2>3. ASSUME At(c, "get")
          PROVE  /\ \A p \in objects'[g] : p.key = client[c].key => p.nth >= client[c].newest
                 /\ (\A p \in objects'[g] : p.key # client[c].key) => stored[g] > client[c].newest
        <3>1. \A p \in objects[g] : p.key = client[c].key => p.nth >= client[c].newest
            BY <2>1, <2>3 DEF ClientInv
        <3>2. ASSUME \A p \in objects'[g] : p.key # client[c].key
              PROVE  stored[g] > client[c].newest
            <4>1. CASE \A p \in objects[g] : p.key # client[c].key
                BY <2>1, <2>3, <4>1 DEF ClientInv
            <4>2. CASE \E p \in objects[g] : p.key = client[c].key
                <5>1. g = f /\ o.key = client[c].key
                    BY <1>4, <2>1, <3>2, <4>2
                <5>2. o.nth >= client[c].newest /\ o.nth \in 1..stored[g] /\ o.nth # stored[g]
                    BY <1>1, <2>1, <3>1, <5>1 DEF IInv, StoreInv, FolderInv
                <5> QED  BY <2>2, <5>2
            <4> QED  BY <4>1, <4>2
        <3> QED  BY <1>4, <2>1, <3>1, <3>2
    <2> QED  BY <1>2, <2>1, <2>2, <2>3 DEF ClientInv, At
<1> QED  BY <1>5, <1>6, <1>7 DEF IInv, StoreInv

\* A load lists its folder: the latest object there is the last that was stored.
LEMMA ListInv ==
    ASSUME IInv, PageLimit > MaxTime, NEW c \in Clients, NEW f \in Folders,
           GetLatestKeyForID(c, f)
    PROVE  IInv'
<1>0. TypeOK /\ FolderInv(f) /\ client \in [Clients -> Client] /\ stored[f] \in Nat
      /\ objects[f] \in SUBSET Object /\ 0 \in 0..MaxTime
    BY StoreAssumption DEF IInv, StoreInv, TypeOK
<1> DEFINE key == IF objects[f] = {} THEN 0 ELSE LatestKey(Page(f))
           pc == IF objects[f] = {} THEN "missing" ELSE "get"
<1>1. client' = [client EXCEPT ![c].pc = pc, ![c].key = key, ![c].folder = f,
                               ![c].newest = stored[f], ![c].got = 0]
      /\ UNCHANGED <<now, objects, stored>>
    BY DEF GetLatestKeyForID
<1>2. ASSUME objects[f] # {}
      PROVE  \E l \in objects[f] : key = l.key /\ l.nth = stored[f]
    BY <1>0, <1>2, PageIsWhole, LatestIsLast
<1>3. key \in 0..MaxTime
    <2>1. CASE objects[f] = {}
        BY <1>0, <2>1
    <2>2. CASE objects[f] # {}
        BY <1>0, <1>2, <2>2 DEF Object
    <2> QED  BY <2>1, <2>2
<1>4. pc \in ClientPC
    BY DEF ClientPC
<1>5. pc = "get" => objects[f] # {}
    OBVIOUS
<1> HIDE DEF key, pc
<1>6. /\ client' \in [Clients -> Client]
      /\ client'[c].pc = pc /\ client'[c].key = key /\ client'[c].folder = f
      /\ client'[c].newest = stored[f]
      /\ \A k \in Clients \ {c} : client'[k] = client[k]
    BY <1>0, <1>1, <1>3, <1>4 DEF Client
<1>7. TypeOK'
    BY <1>1, <1>6 DEF IInv, TypeOK
<1>8. ASSUME NEW g \in Folders PROVE FolderInv(g)'
    BY <1>1 DEF IInv, StoreInv, FolderInv
<1>9. ASSUME NEW k \in Clients PROVE ClientInv(k)'
    <2>1. CASE k # c
        BY <1>1, <1>6, <2>1 DEF IInv, StoreInv, ClientInv, At
    <2>2. CASE k = c
        <3>1. ASSUME pc = "get"
              PROVE  /\ \A o \in objects[f] : o.key = key => o.nth >= stored[f]
                     /\ \E o \in objects[f] : o.key = key
            <4>1. PICK l \in objects[f] : key = l.key /\ l.nth = stored[f]
                BY <1>2, <1>5, <3>1
            <4>2. \A o \in objects[f] : o.key = key => o = l
                BY <1>0, <4>1 DEF FolderInv
            <4> QED  BY <1>0, <4>1, <4>2
        <3> QED  BY <1>0, <1>1, <1>6, <2>2, <3>1 DEF ClientInv, At
    <2> QED  BY <2>1, <2>2
<1> QED  BY <1>7, <1>8, <1>9 DEF IInv, StoreInv

\* A client's step that leaves the folders alone, and lists nothing.
LEMMA ClientStep ==
    ASSUME IInv, UNCHANGED <<now, objects, stored>>, client' \in [Clients -> Client],
           \A c \in Clients : /\ client'[c].pc # "get" \/ client'[c] = client[c]
                              /\ client'[c].newest <= stored[client'[c].folder]
    PROVE  IInv'
<1>1. TypeOK'
    BY DEF IInv, TypeOK
<1>2. ASSUME NEW f \in Folders PROVE FolderInv(f)'
    BY DEF IInv, StoreInv, FolderInv
<1>3. ASSUME NEW c \in Clients PROVE ClientInv(c)'
    <2>1. CASE client'[c].pc # "get"
        BY <2>1 DEF ClientInv, At
    <2>2. CASE client'[c] = client[c]
        BY <2>2 DEF IInv, StoreInv, ClientInv, At
    <2> QED  BY <2>1, <2>2
<1> QED  BY <1>1, <1>2, <1>3 DEF IInv, StoreInv

LEMMA InitInv == Init => IInv
<1> SUFFICES ASSUME Init PROVE IInv
    OBVIOUS
<1>1. TypeOK
    BY IdleIsClient, StoreAssumption DEF Init, TypeOK
<1>2. ASSUME NEW f \in Folders PROVE FolderInv(f)
    BY DEF Init, FolderInv
<1>3. ASSUME NEW c \in Clients PROVE ClientInv(c)
    <2>1. client[c] = IdleClient /\ client[c].folder \in Folders
        BY IdleIsClient DEF Init, Client
    <2>2. client[c].pc = "idle" /\ client[c].newest = 0 /\ stored[client[c].folder] = 0
        BY <2>1 DEF Init, IdleClient
    <2> QED  BY <2>2 DEF ClientInv, At
<1> QED  BY <1>1, <1>2, <1>3 DEF IInv, StoreInv

LEMMA NextInv ==
    ASSUME Spaced, PageLimit > MaxTime
    PROVE  IInv /\ [Next]_vars => IInv'
<1> SUFFICES ASSUME IInv, [Next]_vars PROVE IInv'
    OBVIOUS
<1>0. /\ client \in [Clients -> Client] /\ now \in 0..MaxTime /\ stored \in [Folders -> Nat]
      /\ \A c \in Clients : client[c].newest <= stored[client[c].folder]
    BY DEF IInv, TypeOK, StoreInv, ClientInv
<1>1. CASE UNCHANGED vars
    BY <1>0, <1>1, ClientStep DEF vars
<1>2. ASSUME NEW c \in Clients, NEW f \in Folders, Write(c, f) PROVE IInv'
    <2>1. client' = [client EXCEPT ![c].pc = "put", ![c].folder = f, ![c].key = now]
          /\ UNCHANGED <<now, objects, stored>>
        BY <1>2 DEF Write
    <2>2. client' \in [Clients -> Client]
        BY <1>0, <2>1 DEF Client, ClientPC
    <2> QED  BY <1>0, <1>2, <2>1, <2>2, ClientStep DEF Client
<1>3. ASSUME NEW c \in Clients, NEW f \in Folders, GetLatestKeyForID(c, f) PROVE IInv'
    BY <1>3, ListInv
<1>4. ASSUME NEW c \in Clients, PutObject(c) PROVE IInv'
    BY <1>4, PutTyped, PutFolder, PutClient DEF IInv, StoreInv
<1>5. ASSUME NEW c \in Clients, NEW pc \in ClientPC \ {"get"},
             client' = [client EXCEPT ![c].pc = pc], UNCHANGED <<now, objects, stored>>
      PROVE  IInv'
    <2>1. client' \in [Clients -> Client]
        BY <1>0, <1>5 DEF Client
    <2>2. \A k \in Clients : /\ client'[k].pc # "get" \/ client'[k] = client[k]
                             /\ client'[k].newest <= stored[client'[k].folder]
        BY <1>0, <1>5 DEF Client
    <2> QED  BY <1>5, <2>1, <2>2, ClientStep
<1>6. ASSUME NEW c \in Clients, PutFailed(c) \/ ReadFailed(c) PROVE IInv'
    BY <1>5, <1>6 DEF PutFailed, ReadFailed, Done, ClientPC
<1>7. ASSUME NEW c \in Clients, Read(c) PROVE IInv'
    <2> DEFINE found == {o \in objects[client[c].folder] : o.key = client[c].key}
    <2>1. CASE found = {}
        BY <1>5, <1>7, <2>1 DEF Read, Done, ClientPC
    <2>2. CASE found # {}
        <3>1. PICK o \in found : client' = [client EXCEPT ![c].pc = "loaded", ![c].got = o.nth]
            BY <1>7, <2>2 DEF Read
        <3>2. o.nth \in Nat
            BY <1>0, <3>1 DEF IInv, TypeOK, Object, Client
        <3>3. client' \in [Clients -> Client]
            BY <1>0, <3>1, <3>2 DEF Client, ClientPC
        <3>4. \A k \in Clients : /\ client'[k].pc # "get" \/ client'[k] = client[k]
                                 /\ client'[k].newest <= stored[client'[k].folder]
            BY <1>0, <3>1 DEF Client
        <3> QED  BY <1>7, <3>3, <3>4, ClientStep DEF Read
    <2> QED  BY <2>1, <2>2
<1>8. ASSUME NEW c \in Clients, LoadReturns(c) PROVE IInv'
    <2>1. client' = [client EXCEPT ![c] = IdleClient] /\ UNCHANGED <<now, objects, stored>>
        BY <1>8 DEF LoadReturns
    <2>2. client' \in [Clients -> Client]
        BY <1>0, <2>1, IdleIsClient
    <2>3. IdleClient.folder \in Folders /\ IdleClient.newest = 0 /\ IdleClient.pc = "idle"
        BY IdleIsClient DEF Client, IdleClient
    <2>4. \A k \in Clients : /\ client'[k].pc # "get" \/ client'[k] = client[k]
                             /\ client'[k].newest <= stored[client'[k].folder]
        BY <1>0, <2>1, <2>3
    <2> QED  BY <2>1, <2>2, <2>4, ClientStep
<1>9. ASSUME NEW f \in Folders, Purge(f) PROVE IInv'
    BY <1>9, PurgeInv
<1>10. CASE Tick
    <2>1. now' = now + 1 /\ now' \in 0..MaxTime /\ UNCHANGED <<objects, stored, client>>
        BY <1>0, <1>10, StoreAssumption DEF Tick
    <2>2. TypeOK'
        BY <2>1 DEF IInv, TypeOK
    <2>3. ASSUME NEW f \in Folders PROVE FolderInv(f)'
        BY <1>0, <2>1 DEF IInv, TypeOK, StoreInv, FolderInv, Object
    <2>4. ASSUME NEW c \in Clients PROVE ClientInv(c)'
        BY <2>1 DEF IInv, StoreInv, ClientInv, At
    <2> QED  BY <2>2, <2>3, <2>4 DEF IInv, StoreInv
<1> QED  BY <1>1, <1>2, <1>3, <1>4, <1>6, <1>7, <1>8, <1>9, <1>10 DEF Next

LEMMA Invariant ==
    ASSUME Spaced, PageLimit > MaxTime
    PROVE  Spec => []IInv
BY InitInv, NextInv, PTL DEF Spec

(***************************************************************************)
(* What a load returns.                                                    *)
(***************************************************************************)

\* No step forgets that an object was stored.
LEMMA StoredGrows ==
    ASSUME IInv, [Next]_vars, NEW f \in Folders
    PROVE  stored[f] \in Nat /\ stored'[f] \in Nat /\ stored'[f] >= stored[f]
<1>0. stored \in [Folders -> Nat] /\ stored[f] \in Nat
    BY DEF IInv, TypeOK
<1>1. CASE stored' = stored
    BY <1>0, <1>1
<1>2. ASSUME NEW c \in Clients, PutObject(c)
      PROVE  stored'[f] \in Nat /\ stored'[f] >= stored[f]
    <2>1. stored' = [stored EXCEPT ![client[c].folder] = stored[client[c].folder] + 1]
        BY <1>2 DEF PutObject
    <2> QED  BY <1>0, <2>1
<1> QED
    BY <1>0, <1>1, <1>2
       DEF Next, vars, Write, PutFailed, GetLatestKeyForID, Read, ReadFailed, LoadReturns,
           Purge, Tick

Loaded(c) ==
    /\ At(c, "loaded") => client[c].got >= client[c].newest
    /\ At(c, "missing") =>
         \/ client[c].newest = 0
         \/ "purge" \in Faults /\ stored[client[c].folder] > client[c].newest

\* A client that does nothing keeps what it has loaded.
LEMMA LoadedStays ==
    ASSUME IInv, [Next]_vars, NEW c \in Clients, Loaded(c), client'[c] = client[c]
    PROVE  Loaded(c)'
<1>1. client[c].folder \in Folders /\ client[c].newest \in Nat
    BY DEF IInv, TypeOK, Client
<1>2. /\ stored[client[c].folder] \in Nat /\ stored'[client[c].folder] \in Nat
      /\ stored'[client[c].folder] >= stored[client[c].folder]
    BY <1>1, StoredGrows
<1> QED  BY <1>1, <1>2 DEF Loaded, At

LEMMA LoadedNext ==
    ASSUME IInv, [Next]_vars, NEW k \in Clients, Loaded(k)
    PROVE  Loaded(k)'
<1>0. /\ client \in [Clients -> Client] /\ client[k].folder \in Folders
      /\ client[k].newest \in Nat /\ stored \in [Folders -> Nat]
      /\ objects \in [Folders -> SUBSET Object]
    BY DEF IInv, TypeOK, Client
<1>1. CASE client'[k] = client[k]
    BY <1>1, LoadedStays
<1>2. CASE client'[k].pc \notin {"loaded", "missing"}
    BY <1>2 DEF Loaded, At
<1>3. ASSUME NEW f \in Folders, GetLatestKeyForID(k, f) PROVE Loaded(k)'
    <2>1. CASE objects[f] = {}
        <3>1. stored[f] = 0
            BY <1>0, <2>1 DEF IInv, StoreInv, FolderInv
        <3>2. client'[k].newest = stored[f] /\ client'[k].pc = "missing"
            BY <1>0, <1>3, <2>1 DEF GetLatestKeyForID, Client
        <3> QED  BY <3>1, <3>2 DEF Loaded, At
    <2>2. CASE objects[f] # {}
        <3>1. client'[k].pc = "get"
            BY <1>0, <1>3, <2>2 DEF GetLatestKeyForID, Client
        <3> QED  BY <3>1 DEF Loaded, At
    <2> QED  BY <2>1, <2>2
<1>4. CASE Read(k)
    <2> DEFINE found == {o \in objects[client[k].folder] : o.key = client[k].key}
    <2>1. /\ \A o \in found : o.nth >= client[k].newest
          /\ found = {} => "purge" \in Faults /\ stored[client[k].folder] > client[k].newest
        BY <1>4 DEF Read, IInv, StoreInv, ClientInv
    <2>2. CASE found = {}
        <3>1. client' = [client EXCEPT ![k].pc = "missing"] /\ stored' = stored
            BY <1>4, <2>2 DEF Read, Done
        <3>2. /\ client'[k].pc = "missing" /\ client'[k].newest = client[k].newest
              /\ client'[k].folder = client[k].folder
            BY <1>0, <3>1 DEF Client
        <3> QED  BY <2>1, <2>2, <3>1, <3>2 DEF Loaded, At
    <2>3. CASE found # {}
        <3>1. PICK o \in found : client' = [client EXCEPT ![k].pc = "loaded", ![k].got = o.nth]
            BY <1>4, <2>3 DEF Read
        <3>2. /\ client'[k].pc = "loaded" /\ client'[k].newest = client[k].newest
              /\ client'[k].got = o.nth
            BY <1>0, <3>1 DEF Client
        <3> QED  BY <2>1, <3>1, <3>2 DEF Loaded, At
    <2> QED  BY <2>2, <2>3
<1>5. ASSUME NEW f \in Folders, Write(k, f) PROVE client'[k].pc = "put"
    BY <1>0, <1>5 DEF Write, Client
<1>6. CASE PutObject(k) \/ PutFailed(k)
    <2>1. client'[k].pc = "idle"
        BY <1>0, <1>6 DEF PutObject, PutFailed, Done, Client
    <2> QED  BY <1>2, <2>1
<1>7. CASE ReadFailed(k)
    <2>1. client'[k].pc = "failed"
        BY <1>0, <1>7 DEF ReadFailed, Done, Client
    <2> QED  BY <1>2, <2>1
<1>8. CASE LoadReturns(k)
    <2>1. client'[k].pc = "idle"
        BY <1>0, <1>8 DEF LoadReturns, IdleClient
    <2> QED  BY <1>2, <2>1
<1>9. ASSUME NEW c \in Clients \ {k}, NEW f \in Folders,
             \/ Write(c, f) \/ GetLatestKeyForID(c, f) \/ PutObject(c) \/ PutFailed(c)
             \/ Read(c) \/ ReadFailed(c) \/ LoadReturns(c)
      PROVE  client'[k] = client[k]
    BY <1>0, <1>9
       DEF Write, GetLatestKeyForID, PutObject, PutFailed, Read, ReadFailed, LoadReturns, Done
<1>10. CASE UNCHANGED vars \/ Tick \/ \E f \in Folders : Purge(f)
    BY <1>1, <1>10 DEF vars, Tick, Purge
<1>11. PICK f0 \in Folders : TRUE
    BY FoldersAssumption
<1> QED
    BY <1>1, <1>2, <1>3, <1>4, <1>5, <1>6, <1>7, <1>8, <1>9, <1>10, <1>11 DEF Next

LEMMA LoadInv ==
    ASSUME Spaced, PageLimit > MaxTime
    PROVE  Spec => [](IInv /\ \A c \in Clients : Loaded(c))
<1>1. Init => IInv /\ \A c \in Clients : Loaded(c)
    BY InitInv DEF Init, Loaded, At, IdleClient
<1>2. IInv /\ (\A c \in Clients : Loaded(c)) /\ [Next]_vars
          => (IInv /\ \A c \in Clients : Loaded(c))'
    <2> SUFFICES ASSUME IInv, \A c \in Clients : Loaded(c), [Next]_vars
                 PROVE  (IInv /\ \A c \in Clients : Loaded(c))'
        OBVIOUS
    <2>1. IInv'
        BY NextInv
    <2>2. ASSUME NEW c \in Clients PROVE Loaded(c)'
        BY LoadedNext
    <2> QED  BY <2>1, <2>2
<1> QED  BY <1>1, <1>2, PTL DEF Spec

(***************************************************************************)
(* The theorems.                                                           *)
(***************************************************************************)

\* The types of the store and of its clients.
THEOREM TypeCorrect ==
    ASSUME Spaced, PageLimit > MaxTime
    PROVE  Spec => []TypeOK
<1>1. IInv => TypeOK
    BY DEF IInv
<1> QED  BY <1>1, Invariant, PTL

\* A load returns the state that was the last to be saved when it began, or one saved
\* since, whatever else saves, fails or expires meanwhile.
THEOREM LoadsAreFresh ==
    ASSUME Spaced, PageLimit > MaxTime
    PROVE  Spec => []LoadIsFresh
<1>1. (\A c \in Clients : Loaded(c)) => LoadIsFresh
    BY DEF Loaded, LoadIsFresh
<1> QED  BY <1>1, LoadInv, PTL

\* A load that finds nothing hides no state: none was saved, or what the load had
\* listed has expired and been superseded.
THEOREM MissingWasSuperseded ==
    ASSUME Spaced, PageLimit > MaxTime
    PROVE  Spec => []MissingIsSuperseded
<1>1. (\A c \in Clients : Loaded(c)) => MissingIsSuperseded
    BY DEF Loaded, MissingIsSuperseded
<1> QED  BY <1>1, LoadInv, PTL
=============================================================================
