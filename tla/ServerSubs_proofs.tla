------------------------- MODULE ServerSubs_proofs -------------------------
(***************************************************************************)
(* Proofs about the subscription table and the lifetime of sessions, for   *)
(* any sets of sessions, topics, tags and publishing threads.              *)
(***************************************************************************)
EXTENDS ServerSubs, TLAPS

-----------------------------------------------------------------------------
(* The table.  What its two operations do to the relation between sessions *)
(* and (topic, tag) pairs that it represents, whatever the topics, tags and*)
(* sessions.                                                               *)
TagMaps == UNION {[G -> SUBSET Sessions] : G \in SUBSET Tags}

LEMMA TagMapType ==
    ASSUME NEW m
    PROVE  m \in TagMaps <=> \E G \in SUBSET Tags : m \in [G -> SUBSET Sessions]
BY DEF TagMaps

LEMMA RegistryType ==
    ASSUME NEW R
    PROVE  R \in Registry <=> \E T \in SUBSET Topics : R \in [T -> TagMaps]
BY DEF Registry, TagMaps

LEMMA PutType ==
    ASSUME NEW K, NEW V, NEW D \in SUBSET K, NEW f \in [D -> V], NEW k \in K, NEW v \in V
    PROVE  Put(f, k, v) \in [D \cup {k} -> V]
BY DEF Put

LEMMA EraseType ==
    ASSUME NEW K, NEW V, NEW D \in SUBSET K, NEW f \in [D -> V], NEW k
    PROVE  Erase(f, k) \in [D \ {k} -> V]
BY DEF Erase

(* The map of a topic after add_subscribe, and after remove_subscribe.     *)
TagConn(R, t) == IF t \in DOMAIN R THEN R[t] ELSE [g \in {} |-> {}]

Added(m, G, s) ==
    [g \in DOMAIN m \cup G |->
        (IF g \in DOMAIN m THEN m[g] ELSE {}) \cup (IF g \in G THEN {s} ELSE {})]

Removed(m, g, s) ==
    IF m[g] \ {s} # {} THEN Put(m, g, m[g] \ {s}) ELSE Erase(m, g)

LEMMA AddIsPut ==
    ASSUME NEW R, NEW t, NEW G, NEW s
    PROVE  AddSubscribe(R, t, G, s) = Put(R, t, Added(TagConn(R, t), G, s))
BY DEF AddSubscribe, Added, TagConn

LEMMA RemoveIsPutOrErase ==
    ASSUME NEW R, NEW t \in DOMAIN R, NEW g \in DOMAIN R[t], NEW s
    PROVE  RemoveSubscribe(R, t, g, s) =
               IF DOMAIN Removed(R[t], g, s) # {}
               THEN Put(R, t, Removed(R[t], g, s))
               ELSE Erase(R, t)
BY DEF RemoveSubscribe, Removed

LEMMA AddedType ==
    ASSUME NEW m \in TagMaps, NEW G \in SUBSET Tags, NEW s \in Sessions
    PROVE  Added(m, G, s) \in TagMaps
<1> PICK D \in SUBSET Tags : m \in [D -> SUBSET Sessions]
  BY TagMapType
<1>1. Added(m, G, s) \in [D \cup G -> SUBSET Sessions]
  BY DEF Added
<1> QED
  BY <1>1, TagMapType

LEMMA RemovedType ==
    ASSUME NEW m \in TagMaps, NEW g \in DOMAIN m, NEW s
    PROVE  Removed(m, g, s) \in TagMaps
<1> PICK D \in SUBSET Tags : m \in [D -> SUBSET Sessions]
  BY TagMapType
<1>1. Put(m, g, m[g] \ {s}) \in [D -> SUBSET Sessions]
  BY DEF Put
<1>2. Erase(m, g) \in [D \ {g} -> SUBSET Sessions]
  BY DEF Erase
<1> QED
  BY <1>1, <1>2, TagMapType DEF Removed

LEMMA TagConnType ==
    ASSUME NEW R \in Registry, NEW t
    PROVE  TagConn(R, t) \in TagMaps
<1> PICK T \in SUBSET Topics : R \in [T -> TagMaps]
  BY RegistryType
<1>1. [g \in {} |-> {}] \in [{} -> SUBSET Sessions]
  OBVIOUS
<1>2. [g \in {} |-> {}] \in TagMaps
  BY <1>1, TagMapType
<1> QED
  BY <1>2 DEF TagConn

(* Both operations yield a table again.                                    *)
LEMMA AddType ==
    ASSUME NEW R \in Registry, NEW t \in Topics, NEW G \in SUBSET Tags, NEW s \in Sessions
    PROVE  AddSubscribe(R, t, G, s) \in Registry
<1> PICK T \in SUBSET Topics : R \in [T -> TagMaps]
  BY RegistryType
<1>1. Put(R, t, Added(TagConn(R, t), G, s)) \in [T \cup {t} -> TagMaps]
  BY TagConnType, AddedType, PutType
<1> QED
  BY <1>1, AddIsPut, RegistryType

LEMMA RemoveType ==
    ASSUME NEW R \in Registry, NEW t \in Topics, NEW g \in Tags, NEW s \in Sessions
    PROVE  RemoveSubscribe(R, t, g, s) \in Registry
<1> PICK T \in SUBSET Topics : R \in [T -> TagMaps]
  BY RegistryType
<1>1. CASE t \in DOMAIN R /\ g \in DOMAIN R[t]
  <2>1. Removed(R[t], g, s) \in TagMaps
    BY <1>1, RemovedType
  <2>2. Put(R, t, Removed(R[t], g, s)) \in [T \cup {t} -> TagMaps]
    BY <2>1, PutType
  <2>3. Erase(R, t) \in [T \ {t} -> TagMaps]
    BY EraseType
  <2> QED
    BY <1>1, <2>2, <2>3, RemoveIsPutOrErase, RegistryType
<1>2. CASE ~(t \in DOMAIN R /\ g \in DOMAIN R[t])
  BY <1>2 DEF RemoveSubscribe
<1> QED
  BY <1>1, <1>2

(* After add_subscribe the table holds what it held and, under the topic,  *)
(* the session under each of the tags.                                     *)
THEOREM AddHolds ==
    ASSUME NEW R \in Registry, NEW t, NEW G, NEW s, NEW u, NEW g, NEW r
    PROVE  Holds(AddSubscribe(R, t, G, s), u, g, r) <=>
               Holds(R, u, g, r) \/ (u = t /\ g \in G /\ r = s)
<1> DEFINE m == TagConn(R, t)
<1>1. Holds(R, t, g, r) <=> g \in DOMAIN m /\ r \in m[g]
  BY DEF Holds, TagConn
<1>2. Put(R, t, Added(m, G, s))[t] = Added(m, G, s)
  BY DEF Put
<1>3. Holds(Put(R, t, Added(m, G, s)), t, g, r) <=>
          g \in DOMAIN m \cup G /\ r \in Added(m, G, s)[g]
  BY <1>2 DEF Holds, Put, Added
<1>4. CASE u = t
  BY <1>1, <1>3, <1>4, AddIsPut DEF Added
<1>5. CASE u # t
  BY <1>5, AddIsPut DEF Holds, Put
<1> QED
  BY <1>4, <1>5

(* After remove_subscribe the table holds what it held but for the session *)
(* under the topic and the tag, although whole sets and maps may go.       *)
THEOREM RemoveHolds ==
    ASSUME NEW R \in Registry, NEW t, NEW g, NEW s, NEW u, NEW h, NEW r
    PROVE  Holds(RemoveSubscribe(R, t, g, s), u, h, r) <=>
               Holds(R, u, h, r) /\ ~(u = t /\ h = g /\ r = s)
<1>1. CASE t \in DOMAIN R /\ g \in DOMAIN R[t]
  <2> DEFINE m == Removed(R[t], g, s)
  <2>1. h \in DOMAIN m /\ r \in m[h] <=>
            h \in DOMAIN R[t] /\ r \in R[t][h] /\ ~(h = g /\ r = s)
    BY <1>1 DEF Removed, Put, Erase
  <2>2. DOMAIN m = {} => ~(h \in DOMAIN m)
    OBVIOUS
  <2>3. Holds(Put(R, t, m), u, h, r) <=>
            IF u = t THEN h \in DOMAIN m /\ r \in m[h] ELSE Holds(R, u, h, r)
    BY <1>1 DEF Holds, Put
  <2>4. Holds(Erase(R, t), u, h, r) <=> u # t /\ Holds(R, u, h, r)
    BY DEF Holds, Erase
  <2>5. u = t => (Holds(R, u, h, r) <=> h \in DOMAIN R[t] /\ r \in R[t][h])
    BY <1>1 DEF Holds
  <2> HIDE DEF m
  <2>6. RemoveSubscribe(R, t, g, s) = IF DOMAIN m # {} THEN Put(R, t, m) ELSE Erase(R, t)
    BY <1>1, RemoveIsPutOrErase DEF m
  <2> QED
    BY <2>1, <2>2, <2>3, <2>4, <2>5, <2>6
<1>2. CASE ~(t \in DOMAIN R /\ g \in DOMAIN R[t])
  BY <1>2 DEF RemoveSubscribe, Holds
<1> QED
  BY <1>1, <1>2

(* add_subscribe with at least one tag leaves no empty map or set.         *)
THEOREM AddCompact ==
    ASSUME NEW R \in Registry, NEW t, NEW G, NEW s, G # {}, Compact(R)
    PROVE  Compact(AddSubscribe(R, t, G, s))
<1> DEFINE m == TagConn(R, t)
<1>1. \A g \in DOMAIN m : m[g] # {}
  BY DEF Compact, TagConn
<1>2. DOMAIN Added(m, G, s) # {} /\ \A g \in DOMAIN Added(m, G, s) : Added(m, G, s)[g] # {}
  BY <1>1 DEF Added
<1> QED
  BY <1>2, AddIsPut DEF Compact, Put

(* remove_subscribe erases the set, then the map, that it has emptied.     *)
THEOREM RemoveCompact ==
    ASSUME NEW R \in Registry, NEW t, NEW g, NEW s, Compact(R)
    PROVE  Compact(RemoveSubscribe(R, t, g, s))
<1>1. CASE t \in DOMAIN R /\ g \in DOMAIN R[t]
  <2> DEFINE m == Removed(R[t], g, s)
  <2>1. \A h \in DOMAIN m : m[h] # {}
    BY <1>1 DEF Removed, Put, Erase, Compact
  <2> HIDE DEF m
  <2>2. Compact(Erase(R, t))
    BY DEF Compact, Erase
  <2>3. DOMAIN m # {} => Compact(Put(R, t, m))
    BY <2>1 DEF Compact, Put
  <2> QED
    BY <1>1, <2>2, <2>3, RemoveIsPutOrErase DEF m
<1>2. CASE ~(t \in DOMAIN R /\ g \in DOMAIN R[t])
  BY <1>2 DEF RemoveSubscribe
<1> QED
  BY <1>1, <1>2

-----------------------------------------------------------------------------
(* The sessions.                                                           *)

Freeing(s) == io[s] \in {"free_reader", "free_kicker"}

(* What the table must hold of session s, computed from the state of its io*)
(* thread: deal() and free_rc() first change the table, pair by pair, and  *)
(* the session's own record of it at the end.                              *)
Held(s) ==
    IF Freeing(s) THEN todo[s]
    ELSE IF io[s] = "cancelling" THEN keys[s] \ (job[s] \ todo[s])
    ELSE keys[s] \cup job[s]

TableIsHeld ==
    \A s \in Sessions : \A t \in Topics : \A g \in Tags :
        Holds(sub_conn, t, g, s) <=> <<t, g>> \in Held(s)

(* Once its read coroutine is over, or before it runs, a session has       *)
(* noted nothing and is not in deal(); the coroutine that frees is alive.  *)
LifeCycle ==
    \A s \in Sessions :
        /\ io[s] \in {"idle", "adding"} => todo[s] = {}
        /\ io[s] \notin {"adding", "cancelling"} => job[s] = {}
        /\ io[s] = "cancelling" => todo[s] \subseteq job[s]
        /\ reader[s] # "up" => keys[s] = {} /\ io[s] \in {"idle", "free_kicker"}
        /\ io[s] = "free_kicker" => kicker[s] = "up"

(* A publisher with sessions to reach holds the mutex, and they are        *)
(* sessions that the table holds under the topic and tag it is at.         *)
PublisherHolds ==
    \A p \in Publishers :
        /\ round[p] # "out" => mtx = p /\ about[p] \in Pairs
        /\ round[p] = "out" => targets[p] = {}
        /\ \A s \in targets[p] : Holds(sub_conn, Wanted(p)[1], Wanted(p)[2], s)

IInv == TypeOK /\ TableIsHeld /\ LifeCycle /\ PublisherHolds

LEMMA InitIInv == Init => IInv
<1> SUFFICES ASSUME Init PROVE IInv
  OBVIOUS
<1>1. sub_conn \in Registry
  <2>1. EmptyRegistry \in [{} -> TagMaps]
    BY DEF EmptyRegistry
  <2> QED
    BY <2>1, RegistryType DEF Init
<1>2. TypeOK
  BY <1>1 DEF Init, TypeOK, Pairs
<1>3. TableIsHeld
  BY DEF Init, TableIsHeld, Held, Freeing, Holds, EmptyRegistry
<1>4. LifeCycle
  BY DEF Init, LifeCycle
<1>5. PublisherHolds
  BY DEF Init, PublisherHolds
<1> QED
  BY <1>2, <1>3, <1>4, <1>5 DEF IInv

(* Types, one lemma for the steps of sessions and one for publishers.      *)
LEMMA SessionTyping ==
    ASSUME TypeOK, NEW s \in Sessions,
           \/ Go(s) \/ Receive(s)
           \/ \E t \in Topics, G \in Messages : DealSub(s, t, G) \/ DealCancel(s, t, G)
           \/ DealSubEnd(s) \/ DealCancelEnd(s)
           \/ \E t \in Topics, g \in Tags : Remove(s, t, g)
           \/ DealOther(s) \/ ReadFail(s) \/ Kick(s) \/ FreeRcEnd(s)
           \/ KickerExit(s) \/ CloseSocket(s) \/ ChainEnd(s)
    PROVE  TypeOK'
<1>1. CASE Go(s)
  BY <1>1 DEF TypeOK, Go, publisherVars
<1>8. CASE Receive(s) \/ DealOther(s)
  BY <1>8, ZenonT(60) DEF TypeOK, Receive, DealOther, Dealing, publisherVars
<1>9. CASE KickerExit(s) \/ CloseSocket(s)
  BY <1>9, ZenonT(60) DEF TypeOK, KickerExit, CloseSocket, publisherVars
<1>2. ASSUME NEW t \in Topics, NEW G \in Messages, DealSub(s, t, G)
      PROVE  TypeOK'
  <2>1. AddSubscribe(sub_conn, t, G, s) \in Registry
    BY AddType DEF TypeOK, Messages
  <2>2. {t} \X G \in SUBSET Pairs
    BY DEF Messages, Pairs
  <2> QED
    BY <1>2, <2>1, <2>2 DEF TypeOK, DealSub, Dealing, publisherVars
<1>3. ASSUME NEW t \in Topics, NEW G \in Messages, DealCancel(s, t, G)
      PROVE  TypeOK'
  <2>1. {t} \X G \in SUBSET Pairs
    BY DEF Messages, Pairs
  <2> QED
    BY <1>3, <2>1 DEF TypeOK, DealCancel, Dealing, publisherVars
<1>4. ASSUME NEW t \in Topics, NEW g \in Tags, Remove(s, t, g)
      PROVE  TypeOK'
  <2>1. RemoveSubscribe(sub_conn, t, g, s) \in Registry
    BY RemoveType DEF TypeOK
  <2> QED
    BY <1>4, <2>1 DEF TypeOK, Remove, publisherVars
<1>5. CASE DealSubEnd(s) \/ DealCancelEnd(s) \/ FreeRcEnd(s)
  BY <1>5 DEF TypeOK, DealSubEnd, Record, DealCancelEnd, FreeRcEnd, publisherVars
<1>6. ASSUME NEW by \in {"free_reader", "free_kicker"}, FreeRc(s, by)
      PROVE  TypeOK'
  BY <1>6 DEF TypeOK, FreeRc, ToFree, publisherVars
<1>7. CASE ChainEnd(s)
  <2>1. CASE chain' = [chain EXCEPT ![s] = "empty"] /\ UNCHANGED open
    BY <1>7, <2>1 DEF TypeOK, ChainEnd, publisherVars
  <2>2. CASE chain' = [chain EXCEPT ![s] = "stuck"] /\ open' = [open EXCEPT ![s] = FALSE]
    BY <1>7, <2>2 DEF TypeOK, ChainEnd, publisherVars
  <2> QED
    BY <1>7, <2>1, <2>2 DEF ChainEnd
<1> QED
  BY <1>1, <1>2, <1>3, <1>4, <1>5, <1>6, <1>7, <1>8, <1>9 DEF ReadFail, Kick

LEMMA PublisherTyping ==
    ASSUME TypeOK, NEW p \in Publishers,
           \/ \E t \in Topics, g \in Tags : Publish(p, t, g)
           \/ \E s \in Sessions : PublishTo(p, s)
           \/ PublishTag(p) \/ PublishEnd(p)
    PROVE  TypeOK'
<1>0. \A t, g : Conns(sub_conn, t, g) \in SUBSET Sessions
  BY DEF Conns
<1>1. ASSUME NEW t \in Topics, NEW g \in Tags, Publish(p, t, g)
      PROVE  TypeOK'
  BY <1>0, <1>1 DEF TypeOK, Publish, Pairs, sessionVars
<1>2. ASSUME NEW s \in Sessions, PublishTo(p, s)
      PROVE  TypeOK'
  BY <1>2 DEF TypeOK, PublishTo
<1>3. CASE PublishTag(p)
  BY <1>0, <1>3 DEF TypeOK, PublishTag, sessionVars
<1>4. CASE PublishEnd(p)
  BY <1>4 DEF TypeOK, PublishEnd, sessionVars
<1> QED
  BY <1>1, <1>2, <1>3, <1>4

(* A step of a session that leaves the table and the publishers alone must *)
(* not change what the table has to hold.                                  *)
LEMMA TableUntouched ==
    ASSUME IInv, TypeOK', sub_conn' = sub_conn, UNCHANGED publisherVars,
           \A s \in Sessions : Held(s)' = Held(s), LifeCycle'
    PROVE  IInv'
<1>1. TableIsHeld'
  BY DEF IInv, TableIsHeld
<1>2. PublisherHolds'
  BY DEF IInv, PublisherHolds, publisherVars, Wanted
<1> QED
  BY <1>1, <1>2 DEF IInv

(* While the mutex is free no publisher has a session to reach.            *)
LEMMA FreeMeansOut ==
    ASSUME IInv, MtxFree, NEW p \in Publishers
    PROVE  round[p] = "out" /\ targets[p] = {}
BY SubsAssumption DEF IInv, TypeOK, PublisherHolds, MtxFree

LEMMA TableChanged ==
    ASSUME IInv, MtxFree, TypeOK', UNCHANGED publisherVars, TableIsHeld', LifeCycle'
    PROVE  IInv'
<1>1. PublisherHolds'
  BY FreeMeansOut DEF PublisherHolds, publisherVars
<1> QED
  BY <1>1 DEF IInv

LEMMA DealSubStep ==
    ASSUME IInv, NEW s \in Sessions, NEW t \in Topics, NEW G \in Messages, DealSub(s, t, G)
    PROVE  IInv'
<1>1. TypeOK'
  BY SessionTyping DEF IInv
<1>2. LifeCycle'
  BY DEF IInv, TypeOK, LifeCycle, DealSub, Dealing
<1>3. \A r \in Sessions : Held(r)' = IF r = s THEN Held(r) \cup ({t} \X G) ELSE Held(r)
  <2>1. io[s] = "idle" /\ job[s] = {}
    BY DEF IInv, LifeCycle, DealSub, Dealing
  <2>2. io'[s] = "adding" /\ job'[s] = {t} \X G /\ keys' = keys /\ todo' = todo
    BY DEF IInv, TypeOK, DealSub
  <2>3. \A r \in Sessions \ {s} : io'[r] = io[r] /\ job'[r] = job[r]
    BY DEF IInv, TypeOK, DealSub
  <2> QED
    BY <2>1, <2>2, <2>3 DEF Held, Freeing
<1>4. sub_conn \in Registry /\ sub_conn' = AddSubscribe(sub_conn, t, G, s)
  BY DEF IInv, TypeOK, DealSub
<1>5. TableIsHeld'
  <2> SUFFICES ASSUME NEW r \in Sessions, NEW u \in Topics, NEW g \in Tags
               PROVE  Holds(sub_conn', u, g, r) <=> <<u, g>> \in Held(r)'
    BY DEF TableIsHeld
  <2>1. Holds(sub_conn', u, g, r) <=> Holds(sub_conn, u, g, r) \/ (u = t /\ g \in G /\ r = s)
    BY <1>4, AddHolds
  <2>2. Holds(sub_conn, u, g, r) <=> <<u, g>> \in Held(r)
    BY DEF IInv, TableIsHeld
  <2>3. <<u, g>> \in {t} \X G <=> u = t /\ g \in G
    OBVIOUS
  <2> QED
    BY <1>3, <2>1, <2>2, <2>3
<1> QED
  BY <1>1, <1>2, <1>5, TableChanged DEF DealSub

LEMMA RemoveStep ==
    ASSUME IInv, NEW s \in Sessions, NEW t \in Topics, NEW g \in Tags, Remove(s, t, g)
    PROVE  IInv'
<1>1. TypeOK'
  BY SessionTyping DEF IInv
<1>2. LifeCycle'
  BY DEF IInv, TypeOK, LifeCycle, Remove
<1>3. io[s] \in {"cancelling", "free_reader", "free_kicker"}
  BY DEF IInv, TypeOK, LifeCycle, Remove
<1>4. io[s] = "cancelling" => <<t, g>> \in job[s]
  BY DEF IInv, LifeCycle, Remove
<1>5. \A r \in Sessions : Held(r)' = IF r = s THEN Held(r) \ {<<t, g>>} ELSE Held(r)
  BY <1>3, <1>4, ZenonT(60) DEF IInv, TypeOK, Remove, Held, Freeing
<1>6. sub_conn \in Registry /\ sub_conn' = RemoveSubscribe(sub_conn, t, g, s)
  BY DEF IInv, TypeOK, Remove
<1>7. TableIsHeld'
  <2> SUFFICES ASSUME NEW r \in Sessions, NEW u \in Topics, NEW h \in Tags
               PROVE  Holds(sub_conn', u, h, r) <=> <<u, h>> \in Held(r)'
    BY DEF TableIsHeld
  <2>1. Holds(sub_conn', u, h, r) <=> Holds(sub_conn, u, h, r) /\ ~(u = t /\ h = g /\ r = s)
    BY <1>6, RemoveHolds
  <2>2. Holds(sub_conn, u, h, r) <=> <<u, h>> \in Held(r)
    BY DEF IInv, TableIsHeld
  <2> QED
    BY <1>5, <2>1, <2>2
<1> QED
  BY <1>1, <1>2, <1>7, TableChanged DEF Remove

(* The other steps of a session.                                           *)
LEMMA BeginStep ==
    ASSUME IInv, NEW s \in Sessions, Go(s) \/ Receive(s) \/ DealOther(s)
    PROVE  IInv'
<1>1. TypeOK'
  BY SessionTyping DEF IInv
<1>2. UNCHANGED <<sub_conn, publisherVars, keys, io, job, todo>>
  BY DEF Go, Receive, DealOther, publisherVars
<1>3. \A r \in Sessions : Held(r)' = Held(r)
  BY <1>2 DEF Held, Freeing
<1>4. \A r \in Sessions :
          /\ kicker[r] = "up" => kicker'[r] = "up"
          /\ reader'[r] # "up" => reader[r] # "up"
  BY DEF IInv, TypeOK, Go, Receive, DealOther, Dealing
<1>5. LifeCycle'
  BY <1>2, <1>4 DEF IInv, LifeCycle
<1> QED
  BY <1>1, <1>2, <1>3, <1>5, TableUntouched

LEMMA DealSubEndStep ==
    ASSUME IInv, NEW s \in Sessions, DealSubEnd(s)
    PROVE  IInv'
<1>1. TypeOK'
  BY SessionTyping DEF IInv
<1>2. /\ io[s] = "adding" /\ io'[s] = "idle"
      /\ keys'[s] = keys[s] \cup job[s] /\ job'[s] = {}
      /\ \A r \in Sessions \ {s} : io'[r] = io[r] /\ keys'[r] = keys[r] /\ job'[r] = job[r]
      /\ UNCHANGED <<sub_conn, publisherVars, reader, kicker, todo>>
  BY DEF IInv, TypeOK, DealSubEnd, Record, publisherVars
<1>3. \A r \in Sessions : Held(r)' = Held(r)
  BY <1>2 DEF Held, Freeing
<1>4. LifeCycle'
  BY <1>2 DEF IInv, LifeCycle
<1> QED
  BY <1>1, <1>2, <1>3, <1>4, TableUntouched

LEMMA DealCancelStep ==
    ASSUME IInv, NEW s \in Sessions, NEW t \in Topics, NEW G \in Messages, DealCancel(s, t, G)
    PROVE  IInv'
<1>1. TypeOK'
  BY SessionTyping DEF IInv
<1>2. /\ reader[s] = "up" /\ io[s] = "idle" /\ io'[s] = "cancelling" /\ job'[s] = todo'[s]
      /\ \A r \in Sessions \ {s} : io'[r] = io[r] /\ todo'[r] = todo[r] /\ job'[r] = job[r]
      /\ UNCHANGED <<sub_conn, publisherVars, reader, kicker, keys>>
  BY DEF IInv, TypeOK, DealCancel, Dealing, publisherVars
<1>3. job[s] = {}
  BY <1>2 DEF IInv, LifeCycle
<1>4. \A r \in Sessions : Held(r)' = Held(r)
  BY <1>2, <1>3 DEF Held, Freeing
<1>5. LifeCycle'
  BY <1>2 DEF IInv, LifeCycle
<1> QED
  BY <1>1, <1>2, <1>4, <1>5, TableUntouched

LEMMA DealCancelEndStep ==
    ASSUME IInv, NEW s \in Sessions, DealCancelEnd(s)
    PROVE  IInv'
<1>1. TypeOK'
  BY SessionTyping DEF IInv
<1>2. /\ io[s] = "cancelling" /\ todo[s] = {} /\ io'[s] = "idle"
      /\ keys'[s] = keys[s] \ job[s] /\ job'[s] = {}
      /\ \A r \in Sessions \ {s} : io'[r] = io[r] /\ keys'[r] = keys[r] /\ job'[r] = job[r]
      /\ UNCHANGED <<sub_conn, publisherVars, reader, kicker, todo>>
  BY DEF IInv, TypeOK, DealCancelEnd, publisherVars
<1>3. \A r \in Sessions : Held(r)' = Held(r)
  BY <1>2 DEF Held, Freeing
<1>4. LifeCycle'
  BY <1>2 DEF IInv, LifeCycle
<1> QED
  BY <1>1, <1>2, <1>3, <1>4, TableUntouched

LEMMA FreeRcStep ==
    ASSUME IInv, NEW s \in Sessions, ReadFail(s) \/ Kick(s)
    PROVE  IInv'
<1>1. TypeOK'
  BY SessionTyping DEF IInv
<1>2. /\ io[s] = "idle" /\ todo'[s] = keys[s]
      /\ \/ reader[s] = "up" /\ io'[s] = "free_reader"
         \/ kicker[s] = "up" /\ io'[s] = "free_kicker"
      /\ \A r \in Sessions \ {s} : io'[r] = io[r] /\ todo'[r] = todo[r]
      /\ UNCHANGED <<sub_conn, publisherVars, reader, kicker, keys, job>>
  BY DEF IInv, TypeOK, ReadFail, Kick, FreeRc, ToFree, publisherVars
<1>3. job[s] = {}
  BY <1>2 DEF IInv, LifeCycle
<1>4. \A r \in Sessions : Held(r)' = Held(r)
  BY <1>2, <1>3 DEF Held, Freeing
<1>5. LifeCycle'
  BY <1>2, <1>3 DEF IInv, LifeCycle
<1> QED
  BY <1>1, <1>2, <1>4, <1>5, TableUntouched

LEMMA FreeRcEndStep ==
    ASSUME IInv, NEW s \in Sessions, FreeRcEnd(s)
    PROVE  IInv'
<1>1. TypeOK'
  BY SessionTyping DEF IInv
<1>2. /\ Freeing(s) /\ todo[s] = {} /\ io'[s] = "idle" /\ keys'[s] = {}
      /\ \A r \in Sessions \ {s} :
             /\ io'[r] = io[r] /\ keys'[r] = keys[r]
             /\ reader'[r] = reader[r] /\ kicker'[r] = kicker[r]
      /\ UNCHANGED <<sub_conn, publisherVars, job, todo>>
  BY DEF IInv, TypeOK, FreeRcEnd, Freeing, publisherVars
<1>3. job[s] = {}
  BY <1>2 DEF IInv, LifeCycle, Freeing
<1>4. \A r \in Sessions : Held(r)' = Held(r)
  BY <1>2, <1>3 DEF Held, Freeing
<1>5. LifeCycle'
  BY <1>2, <1>3 DEF IInv, LifeCycle
<1> QED
  BY <1>1, <1>2, <1>4, <1>5, TableUntouched

LEMMA SocketStep ==
    ASSUME IInv, NEW s \in Sessions, KickerExit(s) \/ CloseSocket(s) \/ ChainEnd(s)
    PROVE  IInv'
<1>1. TypeOK'
  BY SessionTyping DEF IInv
<1>2. UNCHANGED <<sub_conn, publisherVars, keys, io, job, todo, reader>>
  BY DEF KickerExit, CloseSocket, ChainEnd, publisherVars
<1>3. \A r \in Sessions : Held(r)' = Held(r)
  BY <1>2 DEF Held, Freeing
<1>4. \A r \in Sessions : kicker'[r] = kicker[r] \/ io[r] = "idle"
  BY DEF IInv, TypeOK, KickerExit, CloseSocket, ChainEnd
<1>5. LifeCycle'
  BY <1>2, <1>4 DEF IInv, LifeCycle
<1> QED
  BY <1>1, <1>2, <1>3, <1>5, TableUntouched

(* A publisher changes what sessions it has to reach, and nothing else that*)
(* the invariant is about.                                                 *)
LEMMA PublishStep ==
    ASSUME IInv, NEW p \in Publishers,
           \/ \E t \in Topics, g \in Tags : Publish(p, t, g)
           \/ \E s \in Sessions : PublishTo(p, s)
           \/ PublishTag(p) \/ PublishEnd(p)
    PROVE  IInv'
<1>1. TypeOK'
  BY PublisherTyping DEF IInv
<1>2. UNCHANGED <<sub_conn, keys, reader, kicker, io, job, todo>>
  BY DEF Publish, PublishTo, PublishTag, PublishEnd, sessionVars
<1>3. TableIsHeld' /\ LifeCycle'
  BY <1>2 DEF IInv, TableIsHeld, LifeCycle, Held, Freeing
<1>4. mtx = Free \/ mtx = p
  BY DEF IInv, PublisherHolds, MtxFree, Publish, PublishTo, PublishTag, PublishEnd
<1>5. \A q \in Publishers \ {p} :
          /\ round[q] = "out" /\ targets[q] = {}
          /\ round'[q] = "out" /\ targets'[q] = {}
  <2>1. \A q \in Publishers \ {p} : round[q] = "out" /\ targets[q] = {}
    BY <1>4, SubsAssumption DEF IInv, PublisherHolds
  <2> QED
    BY <2>1 DEF IInv, TypeOK, Publish, PublishTo, PublishTag, PublishEnd
<1> DEFINE Now ==
               /\ round'[p] # "out" => mtx' = p /\ about'[p] \in Pairs
               /\ round'[p] = "out" => targets'[p] = {}
               /\ \A s \in targets'[p] : Holds(sub_conn, Wanted(p)[1]', Wanted(p)[2]', s)
<1>6. Now
  <2>1. ASSUME NEW t \in Topics, NEW g \in Tags, Publish(p, t, g)
        PROVE  Now
    <3>1. /\ round'[p] = "star" /\ mtx' = p /\ about'[p] = <<t, g>>
          /\ targets'[p] = Conns(sub_conn, t, Star)
      BY <2>1 DEF IInv, TypeOK, Publish
    <3> QED
      BY <3>1 DEF Wanted, Conns, Pairs
  <2>2. ASSUME NEW s \in Sessions, PublishTo(p, s)
        PROVE  Now
    <3>1. /\ targets'[p] \subseteq targets[p] /\ targets[p] # {}
          /\ UNCHANGED <<round, about, mtx>>
      BY <2>2 DEF IInv, TypeOK, PublishTo
    <3> QED
      BY <3>1 DEF IInv, PublisherHolds, Wanted
  <2>3. CASE PublishTag(p)
    <3>1. /\ round[p] # "out" /\ round'[p] = "tag" /\ UNCHANGED <<about, mtx>>
          /\ targets'[p] = Conns(sub_conn, about[p][1], about[p][2])
      BY <2>3 DEF IInv, TypeOK, PublishTag
    <3> QED
      BY <3>1 DEF IInv, PublisherHolds, Wanted, Conns
  <2>4. CASE PublishEnd(p)
    BY <2>4 DEF IInv, TypeOK, PublishEnd
  <2> QED
    BY <2>1, <2>2, <2>3, <2>4
<1>7. PublisherHolds'
  BY <1>2, <1>5, <1>6 DEF PublisherHolds
<1> QED
  BY <1>1, <1>3, <1>7 DEF IInv

LEMMA NextIInv == IInv /\ [Next]_vars => IInv'
<1> SUFFICES ASSUME IInv, [Next]_vars PROVE IInv'
  OBVIOUS
<1>1. CASE UNCHANGED vars
  <2>1. TypeOK'
    BY <1>1 DEF IInv, TypeOK, vars, sessionVars, publisherVars
  <2>2. (\A s \in Sessions : Held(s)' = Held(s)) /\ LifeCycle'
    BY <1>1 DEF IInv, Held, Freeing, LifeCycle, vars, sessionVars
  <2> QED
    BY <1>1, <2>1, <2>2, TableUntouched DEF vars
<1>2. CASE Next
  BY <1>2, DealSubStep, RemoveStep, BeginStep, DealSubEndStep, DealCancelStep,
     DealCancelEndStep, FreeRcStep, FreeRcEndStep, SocketStep, PublishStep
  DEF Next
<1> QED
  BY <1>1, <1>2

(* The table always holds exactly what the state of each session's io      *)
(* thread says, and only the holder of the mutex has sessions to reach.    *)
THEOREM Invariance == Spec => []IInv
BY InitIInv, NextIInv, PTL DEF Spec

(* The variables keep their types.                                         *)
THEOREM TypeCorrect == Spec => []TypeOK
BY Invariance, PTL DEF IInv

LEMMA DestroyedIsForgotten == IInv => NoDangling
<1> SUFFICES ASSUME IInv, NEW s \in Sessions, Destroyed(s)
             PROVE  /\ Subscribed(s) = {}
                    /\ \A p \in Publishers : s \notin targets[p]
  BY DEF NoDangling
<1>1. Held(s) = {}
  BY DEF IInv, LifeCycle, Held, Freeing, Destroyed
<1>2. \A t \in Topics, g \in Tags : ~Holds(sub_conn, t, g, s)
  BY <1>1 DEF IInv, TableIsHeld
<1>3. Subscribed(s) = {}
  BY <1>2 DEF Subscribed, Pairs
<1>4. \A p \in Publishers : s \notin targets[p]
  BY <1>2, SubsAssumption DEF IInv, PublisherHolds, Wanted, Pairs
<1> QED
  BY <1>3, <1>4

(* A destroyed session is in no set of the table and no publisher is about *)
(* to use its address, for any number of sessions and publishers.          *)
THEOREM NoDanglingSession == Spec => []NoDangling
BY DestroyedIsForgotten, Invariance, PTL

(* Between messages a session's own record and the table agree.            *)
THEOREM RecordIsTable == Spec => []RegistryMatchesKeys
<1>1. IInv => RegistryMatchesKeys
  <2> SUFFICES ASSUME IInv, NEW s \in Sessions, io[s] = "idle"
               PROVE  keys[s] = Subscribed(s)
    BY DEF RegistryMatchesKeys
  <2>1. Held(s) = keys[s] /\ keys[s] \subseteq Topics \X Tags
    BY DEF IInv, TypeOK, LifeCycle, Held, Freeing, Pairs
  <2> QED
    BY <2>1 DEF IInv, TableIsHeld, Subscribed, Pairs
<1> QED
  BY <1>1, Invariance, PTL

(* What a publisher still has to reach is subscribed, cancellations and    *)
(* departures in between notwithstanding.                                  *)
THEOREM CancelledIsNotReached == Spec => []NoPublishAfterCancel
<1>1. IInv => NoPublishAfterCancel
  <2> SUFFICES ASSUME IInv, NEW p \in Publishers, NEW s \in targets[p], io[s] = "idle"
               PROVE  Wanted(p) \in keys[s]
    BY DEF NoPublishAfterCancel
  <2>1. s \in Sessions /\ about[p] \in Pairs
    BY DEF IInv, TypeOK, PublisherHolds
  <2>2. Held(s) = keys[s]
    BY <2>1 DEF IInv, LifeCycle, Held, Freeing
  <2>3. Wanted(p)[1] \in Topics /\ Wanted(p)[2] \in Tags
    BY <2>1, SubsAssumption DEF Wanted, Pairs
  <2>4. Wanted(p) = <<Wanted(p)[1], Wanted(p)[2]>>
    BY DEF Wanted
  <2> QED
    BY <2>1, <2>2, <2>3, <2>4 DEF IInv, TableIsHeld, PublisherHolds
<1> QED
  BY <1>1, Invariance, PTL

(* No empty map or set stays in the table, for any topics and tags.        *)
THEOREM TableStaysCompact == Spec => []RegistryCompact
<1>1. Init => RegistryCompact
  BY DEF Init, RegistryCompact, Compact, EmptyRegistry
<1>2. IInv /\ RegistryCompact /\ [Next]_vars => RegistryCompact'
  <2> SUFFICES ASSUME IInv, RegistryCompact, [Next]_vars PROVE RegistryCompact'
    OBVIOUS
  <2>0. sub_conn \in Registry
    BY DEF IInv, TypeOK
  <2>1. ASSUME NEW s \in Sessions, NEW t \in Topics, NEW G \in Messages, DealSub(s, t, G)
        PROVE  RegistryCompact'
    BY <2>0, <2>1, AddCompact DEF RegistryCompact, DealSub, Messages
  <2>2. ASSUME NEW s \in Sessions, NEW t \in Topics, NEW g \in Tags, Remove(s, t, g)
        PROVE  RegistryCompact'
    BY <2>0, <2>2, RemoveCompact DEF RegistryCompact, Remove
  <2>3. CASE UNCHANGED sub_conn
    BY <2>3 DEF RegistryCompact
  <2> QED
    BY <2>1, <2>2, <2>3
    DEF Next, vars, Go, Receive, DealSubEnd, DealCancel, DealCancelEnd, DealOther, ReadFail,
        Kick, FreeRc, FreeRcEnd, KickerExit, CloseSocket, ChainEnd, Publish, PublishTo,
        PublishTag, PublishEnd
<1> QED
  BY <1>1, <1>2, Invariance, PTL DEF Spec

-----------------------------------------------------------------------------
Subs == [s \in Sessions |-> Subscribed(s)]

Dead == {s \in Sessions : Destroyed(s)}

LEMMA Frame ==
    ASSUME UNCHANGED <<sub_conn, targets>>, Dead' = Dead
    PROVE  UNCHANGED Table!vars
BY DEF Table!vars, Dead, Subscribed

(* What steps of sessions are in PubSub.                                   *)
LEMMA SubscribeMaps ==
    ASSUME IInv, NEW s \in Sessions, NEW t \in Topics, NEW G \in Messages, DealSub(s, t, G)
    PROVE  Table!Subscribe(s)
<1>1. sub_conn \in Registry /\ sub_conn' = AddSubscribe(sub_conn, t, G, s)
  BY DEF IInv, TypeOK, DealSub
<1>2. \A r \in Sessions : Subscribed(r)' = IF r = s THEN Subscribed(r) \cup ({t} \X G)
                                                    ELSE Subscribed(r)
  <2> SUFFICES ASSUME NEW r \in Sessions, NEW u \in Topics, NEW g \in Tags
               PROVE  Holds(sub_conn', u, g, r) <=>
                          Holds(sub_conn, u, g, r) \/ (r = s /\ <<u, g>> \in {t} \X G)
    BY DEF Subscribed, Pairs, Messages
  <2> QED
    BY <1>1, AddHolds
<1>3. Subs' = [Subs EXCEPT ![s] = @ \cup ({t} \X G)]
  BY <1>2 DEF Subs
<1>4. s \notin Dead /\ Dead' = Dead
  BY DEF Dead, Destroyed, DealSub, Dealing
<1>5. {t} \X G \in SUBSET (Topics \X Tags) /\ targets' = targets
  BY DEF Messages, DealSub, publisherVars
<1> QED
  BY <1>3, <1>4, <1>5 DEF Table!Subscribe, Table!Pairs, Subs, Dead

LEMMA UnsubscribeMaps ==
    ASSUME IInv, NEW s \in Sessions, NEW t \in Topics, NEW g \in Tags, Remove(s, t, g)
    PROVE  Table!Unsubscribe(s)
<1>1. sub_conn \in Registry /\ sub_conn' = RemoveSubscribe(sub_conn, t, g, s)
  BY DEF IInv, TypeOK, Remove
<1>2. \A r \in Sessions : Subscribed(r)' = IF r = s THEN Subscribed(r) \ {<<t, g>>}
                                                    ELSE Subscribed(r)
  <2> SUFFICES ASSUME NEW r \in Sessions, NEW u \in Topics, NEW h \in Tags
               PROVE  Holds(sub_conn', u, h, r) <=>
                          Holds(sub_conn, u, h, r) /\ ~(r = s /\ <<u, h>> = <<t, g>>)
    BY DEF Subscribed, Pairs
  <2> QED
    BY <1>1, RemoveHolds
<1>3. Subs' = [Subs EXCEPT ![s] = @ \ {<<t, g>>}]
  BY <1>2 DEF Subs
<1>4. Dead' = Dead
  BY DEF Dead, Destroyed, Remove
<1>5. targets' = targets /\ \A p \in Publishers : targets[p] = {}
  BY FreeMeansOut DEF Remove, publisherVars
<1>6. <<t, g>> \in Table!Pairs
  BY DEF Table!Pairs
<1>7. /\ \A p \in Publishers : targets[p] = {}
      /\ [r \in Sessions |-> Subscribed(r)]' =
            [[r \in Sessions |-> Subscribed(r)] EXCEPT ![s] = @ \ {<<t, g>>}]
      /\ {r \in Sessions : Destroyed(r)}' = {r \in Sessions : Destroyed(r)}
      /\ targets' = targets
  BY <1>3, <1>4, <1>5 DEF Subs, Dead
<1> QED
  BY <1>6, <1>7 DEF Table!Unsubscribe

LEMMA EndMaps ==
    ASSUME IInv, IInv', NEW s \in Sessions, FreeRcEnd(s) \/ KickerExit(s) \/ ChainEnd(s)
    PROVE  Table!Destroy(s) \/ UNCHANGED Table!vars
<1>1. UNCHANGED <<sub_conn, targets>>
  BY DEF FreeRcEnd, KickerExit, ChainEnd, publisherVars
<1>2. \A r \in Sessions \ {s} : Destroyed(r)' <=> Destroyed(r)
  BY DEF IInv, TypeOK, FreeRcEnd, KickerExit, ChainEnd, Destroyed
<1>3. Destroyed(s) => Destroyed(s)'
  BY DEF IInv, TypeOK, LifeCycle, FreeRcEnd, KickerExit, ChainEnd, Destroyed
<1>4. CASE Destroyed(s)' <=> Destroyed(s)
  BY <1>1, <1>2, <1>4, Frame DEF Dead
<1>5. CASE Destroyed(s)'
  <2>1. Subs[s] = {}
    <3>1. NoDangling'
      BY DestroyedIsForgotten, PTL
    <3> QED
      BY <1>1, <1>5, <3>1 DEF NoDangling, Subs, Subscribed
  <2>2. Dead' = Dead \cup {s}
    BY <1>2, <1>5 DEF Dead
  <2> QED
    BY <1>1, <2>1, <2>2 DEF Table!Destroy, Subs, Dead, Subscribed
<1> QED
  BY <1>3, <1>4, <1>5

LEMMA OtherStepMaps ==
    ASSUME IInv, NEW s \in Sessions,
           \/ Go(s) \/ Receive(s) \/ DealSubEnd(s) \/ DealCancelEnd(s) \/ DealOther(s)
           \/ \E t \in Topics, G \in Messages : DealCancel(s, t, G)
           \/ ReadFail(s) \/ Kick(s) \/ CloseSocket(s)
    PROVE  UNCHANGED Table!vars
<1>1. UNCHANGED <<sub_conn, targets>>
  BY DEF Go, Receive, DealSubEnd, DealCancelEnd, DealOther, DealCancel, ReadFail, Kick,
         FreeRc, CloseSocket, publisherVars
<1>2. CASE Go(s)
  BY <1>1, <1>2, Frame DEF IInv, TypeOK, Go, Dead, Destroyed
<1>3. CASE ~Go(s)
  BY <1>1, <1>3, Frame
  DEF Receive, DealSubEnd, DealCancelEnd, DealOther, DealCancel, ReadFail, Kick, FreeRc,
      CloseSocket, Dead, Destroyed
<1> QED
  BY <1>2, <1>3

(* What steps of publishers are in PubSub.                                 *)
LEMMA PublishMaps ==
    ASSUME IInv, NEW p \in Publishers,
           \/ \E t \in Topics, g \in Tags : Publish(p, t, g)
           \/ \E s \in Sessions : PublishTo(p, s)
           \/ PublishTag(p) \/ PublishEnd(p)
    PROVE  Table!PickUp(p) \/ Table!Reach(p) \/ UNCHANGED Table!vars
<1>1. \A t \in Topics, g \in Tags :
          Conns(sub_conn, t, g) = {s \in Sessions : <<t, g>> \in Subs[s]}
  BY DEF Conns, Subs, Subscribed, Pairs
<1>2. ASSUME NEW t \in Topics, NEW g \in Tags, Publish(p, t, g)
      PROVE  Table!PickUp(p)
  <2>1. targets[p] = {} /\ targets' = [targets EXCEPT ![p] = Conns(sub_conn, t, Star)]
    BY <1>2 DEF IInv, PublisherHolds, Publish
  <2>2. Subs' = Subs /\ Dead' = Dead
    BY <1>2 DEF Publish, sessionVars, Subs, Subscribed, Dead, Destroyed
  <2>3. <<t, Star>> \in Topics \X Tags
    BY SubsAssumption
  <2> QED
    BY <1>1, <2>1, <2>2, <2>3, SubsAssumption DEF Table!PickUp, Table!Pairs, Subs, Dead
<1>3. ASSUME NEW s \in Sessions, PublishTo(p, s)
      PROVE  Table!Reach(p)
  <2>1. ~Destroyed(s)
    BY <1>3, DestroyedIsForgotten DEF NoDangling, PublishTo
  <2>2. \A r \in Sessions : Destroyed(r)' <=> Destroyed(r)
    BY <1>3, <2>1 DEF IInv, TypeOK, PublishTo, Destroyed
  <2>3. Subs' = Subs /\ Dead' = Dead
    BY <1>3, <2>2 DEF PublishTo, Subs, Subscribed, Dead
  <2> QED
    BY <1>3, <2>3 DEF PublishTo, Table!Reach, Subs, Dead
<1>4. ASSUME PublishTag(p)
      PROVE  Table!PickUp(p)
  <2>1. about[p] \in Topics \X Tags
    BY <1>4 DEF IInv, PublisherHolds, PublishTag, Pairs
  <2>2. PICK t \in Topics, g \in Tags : about[p] = <<t, g>>
    BY <2>1
  <2>3. targets[p] = {} /\ targets' = [targets EXCEPT ![p] = Conns(sub_conn, t, g)]
    BY <1>4, <2>2 DEF PublishTag
  <2>4. Subs' = Subs /\ Dead' = Dead
    BY <1>4 DEF PublishTag, sessionVars, Subs, Subscribed, Dead, Destroyed
  <2> QED
    BY <1>1, <2>1, <2>2, <2>3, <2>4 DEF Table!PickUp, Table!Pairs, Subs, Dead
<1>5. ASSUME PublishEnd(p)
      PROVE  UNCHANGED Table!vars
  BY <1>5, Frame DEF PublishEnd, sessionVars, Dead, Destroyed
<1> QED
  BY <1>2, <1>3, <1>4, <1>5

(* The server implements PubSub: every step on the table, the mutex and    *)
(* the sessions is a step of PubSub or changes nothing of it.              *)
THEOREM ImplementsPubSub == Spec => TableIsPubSub
<1>1. Init => Table!Init
  BY DEF Init, Table!Init, Subscribed, Holds, EmptyRegistry, Destroyed
<1>2. IInv /\ IInv' /\ [Next]_vars => [Table!Next]_(Table!vars)
  <2> SUFFICES ASSUME IInv, IInv', [Next]_vars
               PROVE  Table!Next \/ UNCHANGED Table!vars
    OBVIOUS
  <2>1. CASE UNCHANGED vars
    BY <2>1, Frame DEF vars, sessionVars, publisherVars, Dead, Destroyed
  <2>2. CASE Next
    BY <2>2, SubscribeMaps, UnsubscribeMaps, EndMaps, OtherStepMaps, PublishMaps
    DEF Next, Table!Next
  <2> QED
    BY <2>1, <2>2
<1> QED
  BY <1>1, <1>2, Invariance, PTL DEF Spec, TableIsPubSub, Table!Spec
=============================================================================
