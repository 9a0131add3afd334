----------------------- MODULE ClientApiTransit_proofs ----------------------
(***************************************************************************)
(* Proofs about what is in transit: where a request or its reply can be,   *)
(* that it is nowhere twice and lost only with a connection; and what the  *)
(* messages on their way make of the subscriptions of the session.         *)
(***************************************************************************)
EXTENDS ClientApi_proofs

(* The ids of the requests and replies in every place.                     *)
IdOf(p) == IF p.type = "req_res" THEN {p.id} ELSE {}

Hand(t) == IF At(t, "write") THEN IdOf(Head(todo[t]).packet) ELSE {}
Hands == UNION {Hand(t) : t \in AllThreads}
Queued == Ids(send_queue)
InWriting == IF writing THEN IdOf(Head(send_queue)) ELSE {}
Arrived == Ids(inbox)
Working == {r.id : r \in running}
Returned == Ids(outbox)
Sent == Arrived \cup Working \cup Returned

(* No id is twice in a list.                                               *)
Distinct(q) ==
    \A i, j \in DOMAIN q :
        q[i].type = "req_res" /\ q[j].type = "req_res" /\ q[i].id = q[j].id => i = j

Once ==
    /\ Distinct(send_queue) /\ Distinct(inbox) /\ Distinct(outbox)
    /\ \A r \in running : r.type = "req_res"
    /\ \A r, s \in running : r.id = s.id => r = s

(* A step that writes is the next one of its thread.                       *)
WritesFirst ==
    \A t \in AllThreads : todo[t] # <<>> =>
        \A s \in ElementsOf(Tail(todo[t])) : s.do # "write"

(* A request is in one place only, but for the one that is being written.  *)
OnePlace ==
    /\ \A t, u \in AllThreads : t # u => Hand(t) \cap Hand(u) = {}
    /\ Hands \cap (Queued \cup Sent) = {}
    /\ (Queued \ InWriting) \cap Sent = {}
    /\ Arrived \cap Working = {} /\ Arrived \cap Returned = {} /\ Working \cap Returned = {}

(* Nothing reaches a session over a broken connection; what is being       *)
(* written over a whole one has reached it, unless it has been answered.   *)
Awaiting(id) == id \in DOMAIN req_cb /\ req_cb[id] \notin Unanswered

Delivered ==
    /\ ~up => inbox = <<>> /\ running = {}
    /\ up => \A id \in InWriting : Awaiting(id) => id \in Sent

LostOnce ==
    /\ gone \subseteq 1 .. message_id - 1
    /\ \A id \in DOMAIN req_cb : Awaiting(id) => ((id \in gone) # (id \in Hands \cup Queued \cup Sent))

NInv == Once /\ WritesFirst /\ OnePlace /\ Delivered /\ LostOnce

-----------------------------------------------------------------------------
(* Lists of packets.                                                       *)
LEMMA IdsEmpty == Ids(<<>>) = {} /\ Distinct(<<>>)
<1>1. DOMAIN <<>> = {}
  OBVIOUS
<1> QED
  BY <1>1 DEF Ids, Distinct

LEMMA IdsOne ==
    ASSUME NEW p
    PROVE  Ids(<<p>>) = IdOf(p) /\ Distinct(<<p>>)
<1>1. DOMAIN <<p>> = {1} /\ <<p>>[1] = p
  OBVIOUS
<1>2. Distinct(<<p>>)
  BY <1>1 DEF Distinct
<1>3. \A q : DOMAIN q = {1} /\ q[1] = p => Ids(q) = IdOf(p)
  BY DEF Ids, IdOf
<1> QED
  BY <1>1, <1>2, <1>3

LEMMA IdsAppend ==
    ASSUME NEW q, List(q), NEW p
    PROVE  /\ Ids(Append(q, p)) = Ids(q) \cup IdOf(p)
           /\ Distinct(q) /\ IdOf(p) \cap Ids(q) = {} => Distinct(Append(q, p))
           /\ q # <<>> => Head(Append(q, p)) = Head(q)
<1> DEFINE r == Append(q, p)
<1>1. /\ Len(q) \in Nat /\ DOMAIN q = 1 .. Len(q) /\ DOMAIN r = 1 .. Len(q) + 1
      /\ \A i \in DOMAIN q : r[i] = q[i]
      /\ r[Len(q) + 1] = p /\ List(r) /\ r # <<>>
  BY ListAppendAt, ListAppend
<1>2. q # <<>> => Head(r) = Head(q)
  <2>1. q # <<>> => 1 \in DOMAIN q /\ Head(q) = q[1]
    BY <1>1, EmptySeq, HeadTailProperties DEF List
  <2>2. Head(r) = r[1]
    BY <1>1, HeadTailProperties DEF List
  <2> QED
    BY <1>1, <2>1, <2>2
<1> HIDE DEF r
<1>3. \A i \in DOMAIN r : i \in DOMAIN q \/ i = Len(q) + 1
  BY <1>1
<1>4. Ids(r) = Ids(q) \cup IdOf(p)
  BY <1>1, <1>3 DEF Ids, IdOf
<1>5. Distinct(q) /\ IdOf(p) \cap Ids(q) = {} => Distinct(r)
  BY <1>1, <1>3 DEF Distinct, Ids, IdOf
<1> QED
  BY <1>2, <1>4, <1>5 DEF r

LEMMA IdsTail ==
    ASSUME NEW q, List(q), q # <<>>
    PROVE  /\ Ids(q) = IdOf(Head(q)) \cup Ids(Tail(q))
           /\ Distinct(q) => Distinct(Tail(q)) /\ IdOf(Head(q)) \cap Ids(Tail(q)) = {}
<1>1. PICK h, r, n : h = Head(q) /\ r = Tail(q) /\ n = Len(q)
  OBVIOUS
<1>2. /\ n \in Nat \ {0} /\ DOMAIN q = 1 .. n /\ h = q[1]
      /\ DOMAIN r = 1 .. n - 1 /\ \A i \in 1 .. n - 1 : r[i] = q[i + 1]
  BY <1>1, EmptySeq, LenProperties, HeadTailProperties DEF List
<1>3. \A i \in DOMAIN q : i = 1 \/ (i - 1 \in DOMAIN r /\ q[i] = r[i - 1])
  BY <1>2
<1>4. 1 \in DOMAIN q /\ \A i \in DOMAIN r : i + 1 \in DOMAIN q /\ r[i] = q[i + 1] /\ i + 1 # 1
  BY <1>2
<1>5. Ids(q) = IdOf(h) \cup Ids(r)
  <2>1. \A id : id \in Ids(q) => id \in IdOf(h) \/ id \in Ids(r)
    BY <1>2, <1>3 DEF Ids, IdOf
  <2>2. \A id : id \in IdOf(h) \/ id \in Ids(r) => id \in Ids(q)
    BY <1>2, <1>4 DEF Ids, IdOf
  <2> QED
    BY <2>1, <2>2
<1>6. ASSUME Distinct(q)
      PROVE  Distinct(r) /\ IdOf(h) \cap Ids(r) = {}
  <2>1. \A i, j \in DOMAIN r :
          r[i].type = "req_res" /\ r[j].type = "req_res" /\ r[i].id = r[j].id => i + 1 = j + 1
    BY <1>4, <1>6 DEF Distinct
  <2>2. Distinct(r)
    BY <1>2, <2>1 DEF Distinct
  <2>3. IdOf(h) \cap Ids(r) = {}
    BY <1>2, <1>4, <1>6 DEF Distinct, Ids, IdOf
  <2> QED
    BY <2>2, <2>3
<1> QED
  BY <1>1, <1>5, <1>6

-----------------------------------------------------------------------------
(* What threads have in hand.                                              *)
Silently(q) == \A s \in ElementsOf(q) : s.do # "write"

LEMMA HandsSet ==
    ASSUME Lists, WritesFirst, NEW t \in AllThreads,
           NEW q, todo' = [todo EXCEPT ![t] = q], q # <<>> => Silently(Tail(q))
    PROVE  /\ WritesFirst'
           /\ \A u \in AllThreads \ {t} : Hand(u)' = Hand(u)
           /\ Hand(t)' = IF q # <<>> /\ Head(q).do = "write" THEN IdOf(Head(q).packet) ELSE {}
<1>1. todo'[t] = q /\ \A u \in AllThreads \ {t} : todo'[u] = todo[u]
  BY DEF Lists
<1>2. WritesFirst'
  <2> SUFFICES ASSUME NEW u \in AllThreads, todo'[u] # <<>>
               PROVE  \A s \in ElementsOf(Tail(todo'[u])) : s.do # "write"
    BY DEF WritesFirst
  <2>1. CASE u = t
    BY <1>1, <2>1 DEF Silently
  <2>2. CASE u # t
    BY <1>1, <2>2 DEF WritesFirst
  <2> QED
    BY <2>1, <2>2
<1>3. \A u \in AllThreads \ {t} : Hand(u)' = Hand(u)
  BY <1>1 DEF Hand, At
<1>4. Hand(t)' = IF q # <<>> /\ Head(q).do = "write" THEN IdOf(Head(q).packet) ELSE {}
  BY <1>1 DEF Hand, At
<1> QED
  BY <1>2, <1>3, <1>4

LEMMA HandsQuiet ==
    ASSUME Lists, WritesFirst, NEW t \in AllThreads,
           NEW q, todo' = [todo EXCEPT ![t] = q], List(q), Silently(q)
    PROVE  WritesFirst' /\ Hand(t)' = {} /\ \A u \in AllThreads \ {t} : Hand(u)' = Hand(u)
<1>1. q # <<>> => Silently(Tail(q)) /\ Head(q).do # "write"
  BY ListTail DEF Silently
<1> QED
  BY <1>1, HandsSet

LEMMA GoesQuiet ==
    ASSUME Lists, WritesFirst, NEW t \in AllThreads, todo[t] # <<>>,
           NEW steps, Goes(t, steps), List(steps), Silently(steps)
    PROVE  WritesFirst' /\ Hand(t)' = {} /\ \A u \in AllThreads \ {t} : Hand(u)' = Hand(u)
<1>1. PICK q : q = steps \o Tail(todo[t])
  OBVIOUS
<1>2. todo' = [todo EXCEPT ![t] = q]
  BY <1>1 DEF Goes
<1>3. List(Tail(todo[t])) /\ Silently(Tail(todo[t]))
  BY ListTail DEF Lists, WritesFirst, Silently
<1>4. List(q) /\ ElementsOf(q) \subseteq ElementsOf(steps) \cup ElementsOf(Tail(todo[t]))
  BY <1>1, <1>3, ListConcat
<1>5. Silently(q)
  BY <1>3, <1>4 DEF Silently
<1> QED
  BY <1>2, <1>4, <1>5, HandsQuiet

LEMMA GoesOneQuiet ==
    ASSUME Lists, WritesFirst, NEW t \in AllThreads, todo[t] # <<>>,
           NEW s, Goes(t, <<s>>), s.do # "write"
    PROVE  WritesFirst' /\ Hand(t)' = {} /\ \A u \in AllThreads \ {t} : Hand(u)' = Hand(u)
<1>1. List(<<s>>) /\ Silently(<<s>>)
  BY OneElement DEF Silently
<1> QED
  BY <1>1, GoesQuiet

LEMMA GoesAwayQuiet ==
    ASSUME Lists, WritesFirst, NEW t \in AllThreads, todo[t] # <<>>, Goes(t, <<>>)
    PROVE  WritesFirst' /\ Hand(t)' = {} /\ \A u \in AllThreads \ {t} : Hand(u)' = Hand(u)
<1>1. List(<<>>) /\ Silently(<<>>)
  BY EmptyList DEF Silently
<1> QED
  BY <1>1, GoesQuiet

LEMMA GoesWrite ==
    ASSUME Lists, WritesFirst, NEW t \in AllThreads, todo[t] # <<>>,
           NEW p, Goes(t, <<Write(p)>>)
    PROVE  WritesFirst' /\ Hand(t)' = IdOf(p) /\ \A u \in AllThreads \ {t} : Hand(u)' = Hand(u)
<1>1. PICK s, r, q : s = Write(p) /\ r = Tail(todo[t]) /\ q = <<s>> \o r
  OBVIOUS
<1>2. todo' = [todo EXCEPT ![t] = q]
  BY <1>1 DEF Goes
<1>3. List(r) /\ Silently(r)
  BY <1>1, ListTail DEF Lists, WritesFirst, Silently
<1>4. q # <<>> /\ Head(q) = s /\ Tail(q) = r
  <2>1. r \in Seq(ElementsOf(r) \cup {s}) /\ <<s>> \in Seq(ElementsOf(r) \cup {s})
    BY <1>3, SeqMonotonic DEF List
  <2> QED
    BY <1>1, <2>1
<1>5. s.do = "write" /\ s.packet = p
  BY <1>1 DEF Write
<1> QED
  BY <1>2, <1>3, <1>4, <1>5, HandsSet

(* A thread without steps gets those of a handler.                         *)
LEMMA HandlerQuiet ==
    ASSUME Lists, WritesFirst, NEW h \in Seq(ApiStep),
           NEW q, q = Append(h, Unlock), todo' = [todo EXCEPT ![Io] = q]
    PROVE  WritesFirst' /\ Hand(Io)' = {} /\ \A u \in AllThreads \ {Io} : Hand(u)' = Hand(u)
<1>1. List(h) /\ ElementsOf(h) \subseteq ApiStep
  BY ListOf
<1>2. PICK u : u = Unlock
  OBVIOUS
<1>3. List(q) /\ ElementsOf(q) \subseteq ElementsOf(h) \cup {u}
  BY <1>1, <1>2, ListAppend
<1>4. \A s \in ApiStep \cup {u} : s.do # "write"
  BY <1>2 DEF ApiStep, Unlock
<1>5. Silently(q) /\ Io \in AllThreads
  BY <1>1, <1>3, <1>4 DEF Silently, AllThreads
<1> QED
  BY <1>3, <1>5, HandsQuiet

(* Ids in any place have been given out.                                   *)
LEMMA Known ==
    ASSUME IInv, NInv
    PROVE  /\ \A t \in AllThreads : Hand(t) \subseteq 1 .. message_id - 1
           /\ Hands \cup Queued \cup Sent \subseteq 1 .. message_id - 1
<1>1. ASSUME NEW q, \A p \in ElementsOf(q) : PacketOK(p)
      PROVE  Ids(q) \subseteq 1 .. message_id - 1
  BY <1>1 DEF Ids, ElementsOf, PacketOK, Owned
<1>2. Queued \cup Arrived \cup Returned \subseteq 1 .. message_id - 1
  BY <1>1 DEF Queued, Arrived, Returned, IInv, PacketsOK, Packets
<1>3. Working \subseteq 1 .. message_id - 1
  BY DEF Working, NInv, Once, IInv, PacketsOK, Packets, PacketOK, Owned
<1>4. ASSUME NEW t \in AllThreads
      PROVE  Hand(t) \subseteq 1 .. message_id - 1
  <2>1. todo[t] # <<>> => StepOK(Head(todo[t]))
    BY HeadStep
  <2> QED
    BY <2>1 DEF Hand, At, IdOf, StepOK, Owned
<1> QED
  BY <1>2, <1>3, <1>4 DEF Hands, Sent

-----------------------------------------------------------------------------
(* Steps that move no request and no reply.                                *)
LEMMA Unmoved ==
    ASSUME NInv, WritesFirst', \A t \in AllThreads : Hand(t)' = Hand(t),
           Queued' = Queued, InWriting' = InWriting, Returned' = Returned,
           Distinct(send_queue'), Distinct(outbox'),
           UNCHANGED <<inbox, running, up, req_cb, gone, message_id>>
    PROVE  NInv'
<1>1. Hands' = Hands /\ Arrived' = Arrived /\ Working' = Working /\ Sent' = Sent
  BY DEF Hands, Arrived, Working, Sent
<1>2. Once'
  BY DEF NInv, Once
<1>3. OnePlace'
  BY <1>1 DEF NInv, OnePlace
<1>4. Delivered'
  BY <1>1 DEF NInv, Delivered, Awaiting
<1>5. LostOnce'
  BY <1>1 DEF NInv, LostOnce, Awaiting
<1> QED
  BY <1>2, <1>3, <1>4, <1>5 DEF NInv

(* write() appends to the queue.                                           *)
LEMMA Pushed ==
    ASSUME IInv, NInv, NEW p, IdOf(p) \cap Queued = {},
           send_queue' = Append(send_queue, p), writing' = writing
    PROVE  /\ Queued' = Queued \cup IdOf(p) /\ InWriting' = InWriting
           /\ Distinct(send_queue')
<1>1. List(send_queue) /\ (writing => send_queue # <<>>) /\ Distinct(send_queue)
  BY DEF IInv, Lists, NInv, Once
<1>2. /\ Ids(send_queue') = Ids(send_queue) \cup IdOf(p) /\ Distinct(send_queue')
      /\ writing => Head(send_queue') = Head(send_queue)
  BY <1>1, IdsAppend DEF Queued
<1> QED
  BY <1>2 DEF Queued, InWriting

LEMMA KeepsSetCallback ==
    ASSUME IInv, NInv, NEW t \in AllThreads, SetCallback(t)
    PROVE  NInv'
<1>1. todo[t] # <<>> /\ Head(todo[t]).do = "subscribe" /\ Lists /\ WritesFirst
  BY DEF SetCallback, At, IInv, NInv
<1>2. PICK s, p : s = Head(todo[t]) /\ p = Sub(s.topic, s.tags)
  OBVIOUS
<1>3. WritesFirst' /\ Hand(t)' = {} /\ \A u \in AllThreads \ {t} : Hand(u)' = Hand(u)
  <2>1. CASE Len(s.left) > 1
    <3>1. PICK e : e = Subscribing(s.topic, s.tags, Tail(s.left))
      OBVIOUS
    <3>2. Goes(t, <<e>>) /\ e.do # "write"
      BY <1>2, <2>1, <3>1 DEF SetCallback, Subscribing
    <3> QED
      BY <1>1, <3>2, GoesOneQuiet
  <2>2. CASE ~(Len(s.left) > 1)
    <3>1. Goes(t, <<Write(p)>>) /\ IdOf(p) = {}
      BY <1>2, <2>2 DEF SetCallback, Sub, IdOf
    <3> QED
      BY <1>1, <3>1, GoesWrite
  <2> QED
    BY <2>1, <2>2
<1>4. Hand(t) = {}
  BY <1>1 DEF Hand, At
<1>5. UNCHANGED <<send_queue, writing, up, inbox, running, outbox, req_cb, gone, message_id>>
  BY DEF SetCallback, linkVars, serverVars, ghosts
<1>6. Queued' = Queued /\ InWriting' = InWriting /\ Returned' = Returned
  BY <1>5 DEF Queued, InWriting, Returned
<1>7. Distinct(send_queue') /\ Distinct(outbox')
  BY <1>5 DEF NInv, Once
<1> QED
  BY <1>3, <1>4, <1>5, <1>6, <1>7, Unmoved

LEMMA KeepsCancelSubscribe ==
    ASSUME IInv, NInv, NEW t \in AllThreads, CancelSubscribe(t)
    PROVE  NInv'
<1>1. todo[t] # <<>> /\ Head(todo[t]).do = "cancel" /\ Goes(t, <<>>) /\ Lists /\ WritesFirst
  BY DEF CancelSubscribe, At, IInv, NInv
<1>2. PICK p : p = CancelSub(Head(todo[t]).topic, Head(todo[t]).tags)
  OBVIOUS
<1>3. WritesFirst' /\ Hand(t)' = {} /\ \A u \in AllThreads \ {t} : Hand(u)' = Hand(u)
  BY <1>1, GoesAwayQuiet
<1>4. Hand(t) = {}
  BY <1>1 DEF Hand, At
<1>5. UNCHANGED <<writing, up, inbox, running, outbox, req_cb, gone, message_id>>
  BY DEF CancelSubscribe, serverVars
<1>6. Queued' = Queued /\ InWriting' = InWriting /\ Distinct(send_queue')
  <2>1. CASE UNCHANGED send_queue
    BY <1>5, <2>1 DEF Queued, InWriting, NInv, Once
  <2>2. CASE send_queue' = Append(send_queue, p)
    <3>1. IdOf(p) = {}
      BY <1>2 DEF IdOf, CancelSub
    <3> QED
      BY <1>5, <2>2, <3>1, Pushed
  <2> QED
    BY <1>2, <2>1, <2>2 DEF CancelSubscribe
<1>7. Returned' = Returned /\ Distinct(outbox')
  BY <1>5 DEF Returned, NInv, Once
<1> QED
  BY <1>3, <1>4, <1>5, <1>6, <1>7, Unmoved

LEMMA KeepsIoStep ==
    ASSUME IInv, NInv, IoStep
    PROVE  NInv'
<1>1. Io \in AllThreads /\ Lists /\ WritesFirst
  BY DEF AllThreads, IInv, NInv
<1>2. /\ UNCHANGED <<writing, up, inbox, running, outbox, req_cb, gone, message_id>>
      /\ todo[Io] # <<>> /\ Head(todo[Io]).do \in {"lock", "resubscribe", "unlock"}
  BY DEF IoStep, LockSubs, ReSubscribeTopic, ReSubscribeSend, Release, At,
         linkVars, serverVars, ghosts
<1>3. Hand(Io) = {}
  BY <1>2 DEF Hand, At
<1>4. WritesFirst' /\ Hand(Io)' = {} /\ \A u \in AllThreads \ {Io} : Hand(u)' = Hand(u)
  <2>1. CASE LockSubs
    <3>1. PICK d, e : d = ReSubscribing(TopicsOf(sub_cb)) /\ e = Unlock
      OBVIOUS
    <3>2. Goes(Io, <<d, e>>) /\ d.do # "write" /\ e.do # "write"
      BY <2>1, <3>1 DEF LockSubs, ReSubscribing, Unlock
    <3>3. List(<<d, e>>) /\ Silently(<<d, e>>)
      BY <3>2, TwoElements DEF Silently
    <3> QED
      BY <1>1, <1>2, <3>2, <3>3, GoesQuiet
  <2>2. CASE ReSubscribeTopic
    <3>1. PICK topic, d : d = ReSubscribing(Head(todo[Io]).topics \ {topic}) /\ Goes(Io, <<d>>)
      BY <2>2 DEF ReSubscribeTopic
    <3>2. d.do # "write"
      BY <3>1 DEF ReSubscribing
    <3> QED
      BY <1>1, <1>2, <3>1, <3>2, GoesOneQuiet
  <2>3. CASE ReSubscribeSend \/ Release
    BY <1>1, <1>2, <2>3, GoesAwayQuiet DEF ReSubscribeSend, Release
  <2> QED
    BY <2>1, <2>2, <2>3 DEF IoStep
<1>5. Queued' = Queued /\ InWriting' = InWriting /\ Distinct(send_queue')
  <2>1. CASE UNCHANGED send_queue
    BY <1>2, <2>1 DEF Queued, InWriting, NInv, Once
  <2>2. CASE ReSubscribeTopic
    <3>1. PICK topic, list : send_queue' = Append(send_queue, Sub(topic, Join(list)))
      BY <2>2 DEF ReSubscribeTopic
    <3>2. PICK p : p = Sub(topic, Join(list))
      OBVIOUS
    <3>3. IdOf(p) = {}
      BY <3>2 DEF IdOf, Sub
    <3> QED
      BY <1>2, <3>1, <3>2, <3>3, Pushed
  <2> QED
    BY <2>1, <2>2 DEF IoStep, LockSubs, ReSubscribeSend, Release, linkVars
<1>6. Returned' = Returned /\ Distinct(outbox')
  BY <1>2 DEF Returned, NInv, Once
<1> QED
  BY <1>2, <1>3, <1>4, <1>5, <1>6, Unmoved

LEMMA KeepsDealPublication ==
    ASSUME IInv, NInv, DealPublication
    PROVE  NInv'
<1>1. Io \in AllThreads /\ Lists /\ WritesFirst
  BY DEF AllThreads, IInv, NInv
<1>2. /\ UNCHANGED <<send_queue, writing, up, inbox, running, req_cb, gone, message_id>>
      /\ todo[Io] = <<>> /\ outbox # <<>> /\ Head(outbox).type = "sub_pub"
      /\ outbox' = Tail(outbox)
  BY DEF DealPublication, linkVars, ghosts
<1>3. Hand(Io) = {}
  BY <1>2 DEF Hand, At
<1>4. WritesFirst' /\ Hand(Io)' = {} /\ \A u \in AllThreads \ {Io} : Hand(u)' = Hand(u)
  <2>1. CASE Head(outbox).pair \in sub_cb
    <3>1. PICK k, q : k = Head(outbox).pair[1] /\ q = Append(Handlers[k], Unlock)
      OBVIOUS
    <3>2. Handlers[k] \in Seq(ApiStep)
      BY <2>1, <3>1, ApiAssumption DEF IInv, Bindings
    <3>3. todo' = [todo EXCEPT ![Io] = q]
      BY <2>1, <3>1 DEF DealPublication
    <3> QED
      BY <1>1, <3>1, <3>2, <3>3, HandlerQuiet
  <2>2. CASE Head(outbox).pair \notin sub_cb
    BY <1>1, <1>3, <2>2 DEF DealPublication, WritesFirst, Hand, At
  <2> QED
    BY <2>1, <2>2
<1>5. Returned' = Returned /\ Distinct(outbox')
  <2>1. IdOf(Head(outbox)) = {}
    BY <1>2 DEF IdOf
  <2>2. List(outbox) /\ Distinct(outbox)
    BY <1>1 DEF Lists, NInv, Once
  <2> QED
    BY <1>2, <2>1, <2>2, IdsTail, ZenonT(60) DEF Returned
<1>6. Queued' = Queued /\ InWriting' = InWriting /\ Distinct(send_queue')
  BY <1>2 DEF Queued, InWriting, NInv, Once
<1> QED
  BY <1>2, <1>3, <1>4, <1>5, <1>6, Unmoved

LEMMA KeepsPublish ==
    ASSUME IInv, NInv, Publish
    PROVE  NInv'
<1>1. UNCHANGED <<todo, send_queue, writing, up, inbox, running, req_cb, gone, message_id>>
  BY DEF Publish, appVars, linkVars, ghosts
<1>2. PICK p : p.type = "sub_pub" /\ outbox' = Append(outbox, p)
  <2>1. PICK pair, p : p = [type |-> "sub_pub", pair |-> pair] /\ outbox' = Append(outbox, p)
    BY DEF Publish
  <2> QED
    BY <2>1
<1>3. Returned' = Returned /\ Distinct(outbox')
  BY <1>2, IdsAppend DEF Returned, IdOf, IInv, Lists, NInv, Once
<1>4. Queued' = Queued /\ InWriting' = InWriting /\ Distinct(send_queue')
  BY <1>1 DEF Queued, InWriting, NInv, Once
<1>5. WritesFirst' /\ \A t \in AllThreads : Hand(t)' = Hand(t)
  BY <1>1 DEF NInv, WritesFirst, Hand, At
<1> QED
  BY <1>1, <1>3, <1>4, <1>5, Unmoved

LEMMA KeepsStutter ==
    ASSUME NInv, UNCHANGED vars
    PROVE  NInv'
<1>1. UNCHANGED <<todo, send_queue, writing, up, inbox, running, outbox, req_cb, gone, message_id>>
  BY DEF vars, appVars, linkVars, serverVars, ghosts
<1>2. Queued' = Queued /\ InWriting' = InWriting /\ Returned' = Returned
  BY <1>1 DEF Queued, InWriting, Returned
<1>3. Distinct(send_queue') /\ Distinct(outbox')
  BY <1>1 DEF NInv, Once
<1>4. WritesFirst' /\ \A t \in AllThreads : Hand(t)' = Hand(t)
  BY <1>1 DEF NInv, WritesFirst, Hand, At
<1> QED
  BY <1>1, <1>2, <1>3, <1>4, Unmoved

-----------------------------------------------------------------------------
(* A request is made, and written.                                         *)
LEMMA KeepsBindCb ==
    ASSUME IInv, NInv, NEW t \in AllThreads, BindCb(t)
    PROVE  NInv'
<1>1. /\ todo[t] # <<>> /\ Head(todo[t]).do = "call" /\ Lists /\ WritesFirst
      /\ message_id \in Nat \ {0} /\ message_id' = message_id + 1
  BY DEF BindCb, At, NextId, IInv, NInv, Bindings
<1>2. UNCHANGED <<send_queue, writing, up, inbox, running, outbox, gone>>
  BY DEF BindCb, linkVars, serverVars, ghosts
<1>3. /\ DOMAIN req_cb' \subseteq DOMAIN req_cb \cup {message_id}
      /\ \A id \in DOMAIN req_cb' : id # message_id => id \in DOMAIN req_cb /\ req_cb'[id] = req_cb[id]
  BY DEF BindCb
<1>4. WritesFirst' /\ Hand(t)' = {message_id} /\ \A u \in AllThreads \ {t} : Hand(u)' = Hand(u)
  <2>1. PICK p : p = Request(message_id, Head(todo[t]).call)
    OBVIOUS
  <2>2. Goes(t, <<Write(p)>>) /\ IdOf(p) = {message_id}
    BY <2>1 DEF BindCb, IdOf, Request
  <2> QED
    BY <1>1, <2>2, GoesWrite
<1>5. Hand(t) = {}
  BY <1>1 DEF Hand, At
<1>6. /\ Queued' = Queued /\ InWriting' = InWriting /\ Sent' = Sent
      /\ Arrived' = Arrived /\ Working' = Working /\ Returned' = Returned
  BY <1>2 DEF Queued, InWriting, Sent, Arrived, Working, Returned
<1>7. /\ \A u \in AllThreads : message_id \notin Hand(u)
      /\ message_id \notin Queued \cup Sent /\ message_id \notin gone
      /\ gone \subseteq 1 .. message_id' - 1
  <2>1. message_id \notin 1 .. message_id - 1 /\ 1 .. message_id - 1 \subseteq 1 .. message_id' - 1
    BY <1>1
  <2>2. gone \subseteq 1 .. message_id - 1
    BY DEF NInv, LostOnce
  <2> QED
    BY <2>1, <2>2, Known
<1>8. Hands' = Hands \cup {message_id}
  BY <1>4, <1>5 DEF Hands
<1>9. Once'
  BY <1>2 DEF NInv, Once
<1>10. OnePlace'
  <2>1. \A u, v \in AllThreads : u # v => Hand(u)' \cap Hand(v)' = {}
    BY <1>4, <1>7 DEF NInv, OnePlace
  <2>2. Hands' \cap (Queued' \cup Sent') = {}
    BY <1>6, <1>7, <1>8 DEF NInv, OnePlace
  <2> QED
    BY <1>6, <2>1, <2>2 DEF NInv, OnePlace
<1>11. \A id : Awaiting(id)' /\ id # message_id => Awaiting(id)
  BY <1>3 DEF Awaiting
<1>12. Delivered'
  <2>1. message_id \notin InWriting
    BY <1>1, <1>7, IdsTail DEF InWriting, Queued, Lists
  <2> QED
    BY <1>2, <1>6, <1>11, <2>1 DEF NInv, Delivered
<1>13. LostOnce'
  <2>1. ASSUME NEW id \in DOMAIN req_cb', Awaiting(id)'
        PROVE  (id \in gone') # (id \in Hands' \cup Queued' \cup Sent')
    <3>1. CASE id = message_id
      BY <1>2, <1>7, <1>8, <3>1
    <3>2. CASE id # message_id
      <4>1. (id \in gone) # (id \in Hands \cup Queued \cup Sent)
        BY <1>3, <1>11, <2>1, <3>2 DEF NInv, LostOnce
      <4> QED
        BY <1>2, <1>6, <1>8, <3>2, <4>1
    <3> QED
      BY <3>1, <3>2
  <2> QED
    BY <1>2, <1>7, <2>1 DEF LostOnce
<1> QED
  BY <1>4, <1>9, <1>10, <1>12, <1>13 DEF NInv

LEMMA KeepsWritePacket ==
    ASSUME IInv, NInv, NEW t \in AllThreads, WritePacket(t)
    PROVE  NInv'
<1>1. todo[t] # <<>> /\ At(t, "write") /\ Goes(t, <<>>) /\ Lists /\ WritesFirst
  BY DEF WritePacket, At, IInv, NInv
<1>2. UNCHANGED <<writing, up, inbox, running, outbox, req_cb, gone, message_id>>
  BY DEF WritePacket, serverVars, ghosts
<1>3. PICK p : p = Head(todo[t]).packet
  OBVIOUS
<1>4. Hand(t) = IdOf(p)
  BY <1>1, <1>3 DEF Hand
<1>5. WritesFirst' /\ Hand(t)' = {} /\ \A u \in AllThreads \ {t} : Hand(u)' = Hand(u)
  BY <1>1, GoesAwayQuiet
<1>6. IdOf(p) \subseteq Hands
  BY <1>4 DEF Hands
<1>7. Queued' = Queued \cup IdOf(p) /\ InWriting' = InWriting /\ Distinct(send_queue')
  <2>1. IdOf(p) \cap Queued = {}
    BY <1>6 DEF NInv, OnePlace
  <2>2. send_queue' = Append(send_queue, p)
    BY <1>3 DEF WritePacket
  <2> QED
    BY <1>2, <2>1, <2>2, Pushed
<1>8. Arrived' = Arrived /\ Working' = Working /\ Returned' = Returned /\ Sent' = Sent
  BY <1>2 DEF Arrived, Working, Returned, Sent
<1>9. Hands' = Hands \ IdOf(p)
  <2>1. \A u \in AllThreads \ {t} : Hand(u) \cap IdOf(p) = {}
    BY <1>4 DEF NInv, OnePlace
  <2> QED
    BY <1>4, <1>5, <2>1 DEF Hands
<1>10. Once'
  BY <1>2, <1>7 DEF NInv, Once
<1>11. OnePlace'
  <2>1. \A u, v \in AllThreads : u # v => Hand(u)' \cap Hand(v)' = {}
    BY <1>5 DEF NInv, OnePlace
  <2>2. Hands' \cap (Queued' \cup Sent') = {} /\ (Queued' \ InWriting') \cap Sent' = {}
    BY <1>6, <1>7, <1>8, <1>9 DEF NInv, OnePlace
  <2> QED
    BY <1>8, <2>1, <2>2 DEF NInv, OnePlace
<1>12. Delivered'
  BY <1>2, <1>7, <1>8 DEF NInv, Delivered, Awaiting
<1>13. LostOnce'
  <2>1. Hands' \cup Queued' \cup Sent' = Hands \cup Queued \cup Sent
    BY <1>6, <1>7, <1>8, <1>9
  <2> QED
    BY <1>2, <2>1 DEF NInv, LostOnce, Awaiting
<1> QED
  BY <1>5, <1>10, <1>11, <1>12, <1>13 DEF NInv

LEMMA FrontIsQueued ==
    ASSUME IInv
    PROVE  InWriting \subseteq Queued
BY IdsTail DEF InWriting, Queued, IInv, Lists

(* Its reply arrives.                                                      *)
LEMMA KeepsDealReply ==
    ASSUME IInv, NInv, DealReply
    PROVE  NInv'
<1>1. Io \in AllThreads /\ Lists /\ WritesFirst
  BY DEF AllThreads, IInv, NInv
<1>2. /\ UNCHANGED <<send_queue, writing, up, inbox, running, gone, message_id>>
      /\ todo[Io] = <<>> /\ outbox # <<>> /\ Head(outbox).type = "req_res"
      /\ outbox' = Tail(outbox)
  BY DEF DealReply, linkVars
<1>3. PICK r : r = Head(outbox)
  OBVIOUS
<1>4. /\ DOMAIN req_cb' = DOMAIN req_cb \ {r.id}
      /\ \A id \in DOMAIN req_cb' : req_cb'[id] = req_cb[id]
  BY <1>3 DEF DealReply, CallbacksAfter
<1>5. Hand(Io) = {}
  BY <1>2 DEF Hand, At
<1>6. WritesFirst' /\ Hand(Io)' = {} /\ \A u \in AllThreads \ {Io} : Hand(u)' = Hand(u)
  <2>1. CASE r.id \in DOMAIN req_cb
    <3>1. PICK k, q : k = req_cb[r.id] /\ q = Append(Handlers[k], Unlock)
      OBVIOUS
    <3>2. Handlers[k] \in Seq(ApiStep)
      BY <2>1, <3>1, ApiAssumption DEF IInv, Bindings
    <3>3. todo' = [todo EXCEPT ![Io] = q]
      BY <1>3, <2>1, <3>1 DEF DealReply
    <3> QED
      BY <1>1, <3>1, <3>2, <3>3, HandlerQuiet
  <2>2. CASE r.id \notin DOMAIN req_cb
    BY <1>1, <1>3, <1>5, <2>2 DEF DealReply, WritesFirst, Hand, At
  <2> QED
    BY <2>1, <2>2
<1>7. Returned = Returned' \cup {r.id} /\ Distinct(outbox')
  <2>1. IdOf(r) = {r.id}
    BY <1>2, <1>3 DEF IdOf
  <2>2. List(outbox) /\ Distinct(outbox)
    BY <1>1 DEF Lists, NInv, Once
  <2> QED
    BY <1>2, <1>3, <2>1, <2>2, IdsTail DEF Returned
<1>8. Hands' = Hands
  BY <1>5, <1>6 DEF Hands
<1>9. /\ Queued' = Queued /\ InWriting' = InWriting /\ Arrived' = Arrived /\ Working' = Working
      /\ Sent = Sent' \cup {r.id}
  BY <1>2, <1>7 DEF Queued, InWriting, Arrived, Working, Sent
<1>10. Once'
  BY <1>2, <1>7 DEF NInv, Once
<1>11. OnePlace'
  <2>1. \A u, v \in AllThreads : u # v => Hand(u)' \cap Hand(v)' = {}
    BY <1>5, <1>6 DEF NInv, OnePlace
  <2> QED
    BY <1>7, <1>8, <1>9, <2>1 DEF NInv, OnePlace
<1>12. \A id : Awaiting(id)' => Awaiting(id) /\ id # r.id
  BY <1>2, <1>4 DEF Awaiting
<1>13. Delivered'
  BY <1>2, <1>9, <1>12 DEF NInv, Delivered
<1>14. LostOnce'
  <2>1. ASSUME NEW id, Awaiting(id)'
        PROVE  (id \in gone') # (id \in Hands' \cup Queued' \cup Sent')
    <3>1. (id \in gone) # (id \in Hands \cup Queued \cup Sent)
      BY <1>12, <2>1 DEF NInv, LostOnce, Awaiting
    <3> QED
      BY <1>2, <1>8, <1>9, <1>12, <2>1, <3>1
  <2> QED
    BY <1>2, <2>1 DEF NInv, LostOnce
<1> QED
  BY <1>6, <1>10, <1>11, <1>13, <1>14 DEF NInv

-----------------------------------------------------------------------------
(* The queue goes out.                                                     *)
LEMMA KeepsSend ==
    ASSUME IInv, NInv, Send
    PROVE  NInv'
<1>1. /\ UNCHANGED <<todo, send_queue, up, running, outbox, req_cb, gone, message_id>>
      /\ send_queue # <<>> /\ ~writing /\ writing' = TRUE
      /\ List(send_queue) /\ List(inbox) /\ Distinct(inbox)
  <2>1. List(send_queue) /\ List(inbox) /\ Distinct(inbox)
    BY DEF IInv, Lists, NInv, Once
  <2> QED
    BY <2>1 DEF Send, appVars, ghosts
<1>2. PICK p : p = Head(send_queue)
  OBVIOUS
<1>3. InWriting = {} /\ InWriting' = IdOf(p) /\ IdOf(p) \subseteq Queued
  BY <1>1, <1>2, IdsTail DEF InWriting, Queued
<1>4. Queued' = Queued /\ Working' = Working /\ Returned' = Returned /\ Hands' = Hands
  BY <1>1 DEF Queued, Working, Returned, Hands, Hand, At
<1>5. IdOf(p) \cap Sent = {} /\ Queued \cap Sent = {} /\ Hands \cap (Queued \cup Sent) = {}
  BY <1>3 DEF NInv, OnePlace
<1>6. Arrived' = (IF up THEN Arrived \cup IdOf(p) ELSE Arrived) /\ Distinct(inbox')
  <2>1. CASE up
    <3>1. inbox' = Append(inbox, p)
      BY <1>2, <2>1 DEF Send
    <3>2. IdOf(p) \cap Ids(inbox) = {}
      BY <1>5 DEF Sent, Arrived
    <3> QED
      BY <1>1, <2>1, <3>1, <3>2, IdsAppend DEF Arrived
  <2>2. CASE ~up
    BY <1>1, <2>2 DEF Send, Arrived
  <2> QED
    BY <2>1, <2>2
<1>7. Once'
  BY <1>1, <1>6 DEF NInv, Once
<1>8. WritesFirst' /\ \A t \in AllThreads : Hand(t)' = Hand(t)
  BY <1>1 DEF NInv, WritesFirst, Hand, At
<1>9. Sent \subseteq Sent' /\ Sent' \subseteq Sent \cup IdOf(p)
  BY <1>4, <1>6 DEF Sent
<1>10. OnePlace'
  <2>1. \A u, v \in AllThreads : u # v => Hand(u)' \cap Hand(v)' = {}
    BY <1>8 DEF NInv, OnePlace
  <2>2. Hands' \cap (Queued' \cup Sent') = {}
    BY <1>3, <1>4, <1>5, <1>9
  <2>3. (Queued' \ InWriting') \cap Sent' = {}
    BY <1>3, <1>4, <1>5, <1>9
  <2>4. /\ IdOf(p) \cap Working = {} /\ IdOf(p) \cap Returned = {}
        /\ Arrived \cap Working = {} /\ Arrived \cap Returned = {} /\ Working \cap Returned = {}
    BY <1>5 DEF NInv, OnePlace, Sent
  <2>5. Arrived' \cap Working' = {} /\ Arrived' \cap Returned' = {} /\ Working' \cap Returned' = {}
    BY <1>4, <1>6, <2>4
  <2> QED
    BY <2>1, <2>2, <2>3, <2>5 DEF OnePlace
<1>11. Delivered'
  <2>1. ~up' => inbox' = <<>> /\ running' = {}
    BY <1>1 DEF Send, NInv, Delivered
  <2>2. up' => InWriting' \subseteq Sent'
    BY <1>1, <1>3, <1>6 DEF Sent
  <2> QED
    BY <2>1, <2>2 DEF Delivered
<1>12. LostOnce'
  <2>1. Hands' \cup Queued' \cup Sent' = Hands \cup Queued \cup Sent
    BY <1>3, <1>4, <1>9
  <2> QED
    BY <1>1, <2>1 DEF NInv, LostOnce, Awaiting
<1> QED
  BY <1>7, <1>8, <1>10, <1>11, <1>12 DEF NInv

LEMMA KeepsWritten ==
    ASSUME IInv, NInv, Written
    PROVE  NInv'
<1>1. /\ UNCHANGED <<todo, up, inbox, running, outbox, req_cb, message_id>>
      /\ writing /\ ~writing' /\ send_queue # <<>> /\ send_queue' = Tail(send_queue)
      /\ List(send_queue) /\ Distinct(send_queue)
  BY DEF Written, appVars, serverVars, IInv, Lists, NInv, Once
<1>2. /\ InWriting' = {} /\ Queued = InWriting \cup Queued' /\ InWriting \cap Queued' = {}
      /\ Distinct(send_queue')
  BY <1>1, IdsTail DEF InWriting, Queued
<1>3. gone' = IF up THEN gone ELSE gone \cup ((InWriting \cap DOMAIN req_cb) \ Returned)
  BY <1>1, IdsOne DEF Written, InWriting, Returned
<1>4. /\ Arrived' = Arrived /\ Working' = Working /\ Returned' = Returned /\ Sent' = Sent
      /\ Hands' = Hands
  BY <1>1 DEF Arrived, Working, Returned, Sent, Hands, Hand, At
<1>5. Once'
  BY <1>1, <1>2 DEF NInv, Once
<1>6. WritesFirst' /\ \A t \in AllThreads : Hand(t)' = Hand(t)
  BY <1>1 DEF NInv, WritesFirst, Hand, At
<1>7. OnePlace'
  BY <1>2, <1>4, <1>6 DEF NInv, OnePlace
<1>8. Delivered'
  BY <1>1, <1>2 DEF NInv, Delivered
<1>9. LostOnce'
  <2>1. gone' \subseteq 1 .. message_id' - 1
    BY <1>1, <1>2, <1>3, Known DEF NInv, LostOnce
  <2>2. ASSUME NEW id \in DOMAIN req_cb, Awaiting(id)
        PROVE  (id \in gone') # (id \in Hands' \cup Queued' \cup Sent')
    <3>1. (id \in gone) # (id \in Hands \cup Queued \cup Sent)
      BY <2>2 DEF NInv, LostOnce
    <3>2. CASE id \notin InWriting
      BY <1>2, <1>3, <1>4, <3>1, <3>2
    <3>3. CASE id \in InWriting /\ up
      <4>1. id \in Sent
        BY <2>2, <3>3 DEF NInv, Delivered
      <4> QED
        BY <1>3, <1>4, <3>1, <3>3, <4>1
    <3>4. CASE id \in InWriting /\ ~up
      <4>1. Arrived = {} /\ Working = {}
        BY <3>4, IdsEmpty DEF NInv, Delivered, Arrived, Working
      <4>2. id \notin gone /\ id \notin Hands /\ id \notin Queued'
        BY <1>2, <3>1, <3>4 DEF NInv, OnePlace
      <4>3. Sent = Returned
        BY <4>1 DEF Sent
      <4> QED
        BY <1>3, <1>4, <2>2, <3>4, <4>2, <4>3
    <3> QED
      BY <3>2, <3>3, <3>4
  <2> QED
    BY <1>1, <2>1, <2>2 DEF LostOnce, Awaiting
<1> QED
  BY <1>5, <1>6, <1>7, <1>8, <1>9 DEF NInv

-----------------------------------------------------------------------------
(* The connection breaks and is made again.                                *)
LEMMA LostIs ==
    ASSUME NEW ids
    PROVE  LostOf(ids) = (ids \cap DOMAIN req_cb) \ InWriting
BY IdsOne DEF LostOf, InWriting

LEMMA KeepsLose ==
    ASSUME IInv, NInv, Lose
    PROVE  NInv'
<1>1. /\ UNCHANGED <<todo, send_queue, writing, outbox, req_cb, message_id>>
      /\ ~up' /\ inbox' = <<>> /\ running' = {}
  BY DEF Lose, appVars
<1>2. gone' = gone \cup (((Working \cup Arrived) \cap DOMAIN req_cb) \ InWriting)
  BY LostIs DEF Lose, Working, Arrived
<1>3. /\ Queued' = Queued /\ InWriting' = InWriting /\ Hands' = Hands
      /\ Arrived' = {} /\ Working' = {} /\ Returned' = Returned /\ Sent' = Returned
      /\ Sent = Arrived \cup Working \cup Returned
  BY <1>1, IdsEmpty DEF Queued, InWriting, Arrived, Working, Returned, Sent, Hands, Hand, At
<1>4. Once'
  BY <1>1, IdsEmpty DEF NInv, Once
<1>5. WritesFirst' /\ \A t \in AllThreads : Hand(t)' = Hand(t)
  BY <1>1 DEF NInv, WritesFirst, Hand, At
<1>6. OnePlace'
  BY <1>3, <1>5 DEF NInv, OnePlace
<1>7. Delivered'
  BY <1>1 DEF Delivered
<1>8. LostOnce'
  <2>1. gone' \subseteq 1 .. message_id' - 1
    BY <1>1, <1>2, <1>3, Known DEF NInv, LostOnce
  <2>2. ASSUME NEW id \in DOMAIN req_cb, Awaiting(id)
        PROVE  (id \in gone') # (id \in Hands' \cup Queued' \cup Sent')
    <3>1. (id \in gone) # (id \in Hands \cup Queued \cup Sent)
      BY <2>2 DEF NInv, LostOnce
    <3>2. CASE id \in Working \cup Arrived
      <4>1. id \notin gone /\ id \notin Hands /\ id \notin Returned /\ id \notin Queued \ InWriting
        BY <1>3, <3>1, <3>2 DEF NInv, OnePlace
      <4>2. InWriting \subseteq Queued
        BY FrontIsQueued
      <4> QED
        BY <1>2, <1>3, <2>2, <3>2, <4>1, <4>2
    <3>3. CASE id \notin Working \cup Arrived
      BY <1>2, <1>3, <3>1, <3>3
    <3> QED
      BY <3>2, <3>3
  <2> QED
    BY <1>1, <2>1, <2>2 DEF LostOnce, Awaiting
<1> QED
  BY <1>4, <1>5, <1>6, <1>7, <1>8 DEF NInv

LEMMA KeepsReconnect ==
    ASSUME IInv, NInv, Reconnect
    PROVE  NInv'
<1>1. /\ UNCHANGED <<inbox, running, req_cb, message_id>>
      /\ ~up /\ up' /\ ~writing' /\ outbox' = <<>> /\ todo[Io] = <<>>
      /\ inbox = <<>> /\ running = {}
      /\ Io \in AllThreads /\ Lists /\ WritesFirst
  BY DEF Reconnect, AllThreads, IInv, NInv, Delivered
<1>2. gone' = gone \cup ((Returned \cap DOMAIN req_cb) \ InWriting)
  BY LostIs DEF Reconnect, Returned
<1>3. Queued' = Queued /\ Distinct(send_queue')
  <2>1. CASE send_queue = <<>>
    <3>1. PICK p : p = KeepAlived
      OBVIOUS
    <3>2. send_queue' = <<p>> /\ IdOf(p) = {}
      BY <2>1, <3>1 DEF Reconnect, KeepAlived, IdOf
    <3> QED
      BY <2>1, <3>2, IdsOne, IdsEmpty DEF Queued
  <2>2. CASE send_queue # <<>>
    BY <2>2 DEF Reconnect, QueueAfterError, Queued, NInv, Once
  <2> QED
    BY <2>1, <2>2
<1>4. WritesFirst' /\ \A t \in AllThreads : Hand(t)' = Hand(t)
  <2>1. PICK l : l = Lock
    OBVIOUS
  <2>2. todo' = [todo EXCEPT ![Io] = <<l>>] /\ l.do # "write"
    BY <2>1 DEF Reconnect, Lock
  <2>3. List(<<l>>) /\ Silently(<<l>>)
    BY <2>2, OneElement DEF Silently
  <2>4. Hand(Io) = {}
    BY <1>1 DEF Hand, At
  <2>5. WritesFirst' /\ Hand(Io)' = {} /\ \A u \in AllThreads \ {Io} : Hand(u)' = Hand(u)
    BY <1>1, <2>2, <2>3, HandsQuiet
  <2> QED
    BY <2>4, <2>5
<1>5. /\ Hands' = Hands /\ InWriting' = {} /\ Sent = Returned
      /\ Arrived' = {} /\ Working' = {} /\ Returned' = {} /\ Sent' = {}
  BY <1>1, <1>4, IdsEmpty DEF Hands, InWriting, Sent, Arrived, Working, Returned
<1>6. Once'
  BY <1>1, <1>3, IdsEmpty DEF NInv, Once
<1>7. OnePlace'
  BY <1>3, <1>4, <1>5 DEF NInv, OnePlace
<1>8. Delivered'
  BY <1>1, <1>5 DEF Delivered
<1>9. LostOnce'
  <2>1. gone' \subseteq 1 .. message_id' - 1
    BY <1>1, <1>2, <1>5, Known DEF NInv, LostOnce
  <2>2. ASSUME NEW id \in DOMAIN req_cb, Awaiting(id)
        PROVE  (id \in gone') # (id \in Hands' \cup Queued' \cup Sent')
    <3>1. (id \in gone) # (id \in Hands \cup Queued \cup Sent)
      BY <2>2 DEF NInv, LostOnce
    <3>2. CASE id \in Returned
      <4>1. id \notin gone /\ id \notin Hands /\ id \notin Queued \ InWriting
        BY <1>5, <3>1, <3>2 DEF NInv, OnePlace
      <4>2. InWriting \subseteq Queued
        BY FrontIsQueued
      <4> QED
        BY <1>2, <1>3, <1>5, <2>2, <3>2, <4>1, <4>2
    <3>3. CASE id \notin Returned
      BY <1>2, <1>3, <1>5, <3>1, <3>3
    <3> QED
      BY <3>2, <3>3
  <2> QED
    BY <1>1, <2>1, <2>2 DEF LostOnce, Awaiting
<1> QED
  BY <1>4, <1>6, <1>7, <1>8, <1>9 DEF NInv

-----------------------------------------------------------------------------
(* The server deals with a request, and responds.                          *)
LEMMA KeepsServerDeal ==
    ASSUME IInv, NInv, ServerDeal
    PROVE  NInv'
<1>1. /\ UNCHANGED <<todo, send_queue, writing, up, outbox, req_cb, gone, message_id>>
      /\ inbox # <<>> /\ inbox' = Tail(inbox) /\ List(inbox) /\ Distinct(inbox) /\ up
  BY DEF ServerDeal, appVars, linkVars, ghosts, IInv, Lists, NInv, Once, Delivered
<1>2. PICK p : p = Head(inbox)
  OBVIOUS
<1>3. /\ Arrived = IdOf(p) \cup Arrived' /\ IdOf(p) \cap Arrived' = {} /\ Distinct(inbox')
      /\ p \in ElementsOf(inbox)
  BY <1>1, <1>2, IdsTail, ListTail DEF Arrived
<1>4. /\ Queued' = Queued /\ InWriting' = InWriting /\ Hands' = Hands /\ Returned' = Returned
  BY <1>1 DEF Queued, InWriting, Hands, Hand, At, Returned
<1>5. WritesFirst' /\ \A t \in AllThreads : Hand(t)' = Hand(t)
  BY <1>1 DEF NInv, WritesFirst, Hand, At
<1>6. /\ (\A r \in running' : r.type = "req_res") /\ (\A r, s \in running' : r.id = s.id => r = s)
      /\ Working \subseteq Working' /\ Working' \subseteq Working \cup IdOf(p)
      /\ \A id \in IdOf(p) : Awaiting(id) => id \in Working'
  <2>1. (\A r \in running : r.type = "req_res") /\ (\A r, s \in running : r.id = s.id => r = s)
    BY DEF NInv, Once
  <2>2. CASE p.type = "req_res" /\ p.call \notin Unanswered
    <3>1. running' = running \cup {p}
      BY <1>2, <2>2 DEF ServerDeal
    <3>2. IdOf(p) = {p.id} /\ \A r \in running : r.id # p.id
      BY <1>3, <2>2 DEF IdOf, NInv, OnePlace, Working
    <3>3. Working' = Working \cup {p.id}
      BY <3>1 DEF Working
    <3> QED
      BY <2>1, <2>2, <3>1, <3>2, <3>3
  <2>3. CASE ~(p.type = "req_res" /\ p.call \notin Unanswered)
    <3>1. running' = running
      BY <1>2, <2>3 DEF ServerDeal
    <3>2. PacketOK(p)
      BY <1>3 DEF IInv, PacketsOK, Packets
    <3>3. \A id \in IdOf(p) : ~Awaiting(id)
      BY <2>3, <3>2 DEF IdOf, PacketOK, Owned, Awaiting
    <3> QED
      BY <2>1, <3>1, <3>3 DEF Working
  <2> QED
    BY <2>2, <2>3
<1>7. Sent' \subseteq Sent /\ \A id \in Sent : Awaiting(id) => id \in Sent'
  BY <1>3, <1>4, <1>6 DEF Sent
<1>8. Once'
  BY <1>1, <1>3, <1>6 DEF NInv, Once
<1>9. OnePlace'
  <2>1. /\ \A u, v \in AllThreads : u # v => Hand(u)' \cap Hand(v)' = {}
        /\ Hands' \cap (Queued' \cup Sent') = {}
        /\ (Queued' \ InWriting') \cap Sent' = {}
    BY <1>4, <1>5, <1>7 DEF NInv, OnePlace
  <2>2. Arrived' \cap Working' = {} /\ Arrived' \cap Returned' = {} /\ Working' \cap Returned' = {}
    BY <1>3, <1>4, <1>6 DEF NInv, OnePlace
  <2> QED
    BY <2>1, <2>2 DEF OnePlace
<1>10. Delivered'
  BY <1>1, <1>4, <1>7 DEF NInv, Delivered, Awaiting
<1>11. LostOnce'
  <2>1. \A id : Awaiting(id) => (id \in Sent <=> id \in Sent')
    BY <1>7
  <2> QED
    BY <1>1, <1>4, <2>1 DEF NInv, LostOnce, Awaiting
<1> QED
  BY <1>5, <1>8, <1>9, <1>10, <1>11 DEF NInv

LEMMA KeepsRespond ==
    ASSUME IInv, NInv, Respond
    PROVE  NInv'
<1>1. /\ UNCHANGED <<todo, send_queue, writing, up, inbox, req_cb, gone, message_id>>
      /\ List(outbox) /\ Distinct(outbox)
  BY DEF Respond, appVars, linkVars, ghosts, IInv, Lists, NInv, Once
<1>2. PICK r \in running : running' = running \ {r} /\ outbox' = Append(outbox, r)
  BY DEF Respond
<1>3. /\ (\A s \in running : s.type = "req_res") /\ (\A s, u \in running : s.id = u.id => s = u)
      /\ IdOf(r) = {r.id} /\ r.id \in Working
  BY DEF NInv, Once, IdOf, Working
<1>4. Working' = Working \ {r.id}
  BY <1>2, <1>3 DEF Working
<1>5. Returned' = Returned \cup {r.id} /\ Distinct(outbox')
  <2>1. IdOf(r) \cap Ids(outbox) = {}
    BY <1>3 DEF NInv, OnePlace, Returned
  <2> QED
    BY <1>1, <1>2, <1>3, <2>1, IdsAppend DEF Returned
<1>6. /\ Queued' = Queued /\ InWriting' = InWriting /\ Hands' = Hands /\ Arrived' = Arrived
  BY <1>1 DEF Queued, InWriting, Hands, Hand, At, Arrived
<1>7. WritesFirst' /\ \A t \in AllThreads : Hand(t)' = Hand(t)
  BY <1>1 DEF NInv, WritesFirst, Hand, At
<1>8. Sent' = Sent
  BY <1>3, <1>4, <1>5, <1>6 DEF Sent
<1>9. Once'
  BY <1>1, <1>2, <1>3, <1>5 DEF NInv, Once
<1>10. OnePlace'
  <2>1. Arrived' \cap Working' = {} /\ Arrived' \cap Returned' = {} /\ Working' \cap Returned' = {}
    BY <1>3, <1>4, <1>5, <1>6 DEF NInv, OnePlace
  <2> QED
    BY <1>6, <1>7, <1>8, <2>1 DEF NInv, OnePlace
<1>11. Delivered'
  BY <1>1, <1>2, <1>6, <1>8 DEF NInv, Delivered, Awaiting
<1>12. LostOnce'
  BY <1>1, <1>6, <1>8 DEF NInv, LostOnce, Awaiting
<1> QED
  BY <1>7, <1>9, <1>10, <1>11, <1>12 DEF NInv

-----------------------------------------------------------------------------
LEMMA InitNInv == Init => NInv
<1> SUFFICES ASSUME Init PROVE NInv
  OBVIOUS
<1>1. PICK p \in Programs : todo = [t \in AllThreads |-> IF t = Io THEN <<>> ELSE p[t]]
  BY DEF Init
<1>2. ASSUME NEW t \in AllThreads
      PROVE  todo[t] # <<>> => Silently(Tail(todo[t])) /\ Head(todo[t]).do # "write"
  <2>1. CASE t = Io
    BY <1>1, <2>1
  <2>2. CASE t # Io
    <3>1. todo[t] \in Seq(ApiStep)
      <4>1. p \in [Threads -> Seq(ApiStep)] /\ t \in Threads
        BY <2>2, ApiAssumption DEF AllThreads
      <4> QED
        BY <1>1, <2>2, <4>1
    <3>2. List(todo[t]) /\ ElementsOf(todo[t]) \subseteq ApiStep
      BY <3>1, ListOf
    <3>3. \A s \in ApiStep : s.do # "write"
      BY DEF ApiStep
    <3> QED
      BY <3>2, <3>3, ListTail DEF Silently
  <2> QED
    BY <2>1, <2>2
<1>3. WritesFirst
  BY <1>2 DEF WritesFirst, Silently
<1>4. \A t \in AllThreads : Hand(t) = {}
  BY <1>2 DEF Hand, At
<1>5. DOMAIN req_cb = {} /\ gone = {} /\ up = TRUE /\ writing = FALSE
  BY DEF Init
<1>6. /\ Hands = {} /\ Queued = {} /\ InWriting = {} /\ Sent = {}
      /\ Arrived = {} /\ Working = {} /\ Returned = {}
  BY <1>4, <1>5, IdsEmpty DEF Init, Hands, Queued, InWriting, Sent, Arrived, Working, Returned
<1>7. Once
  BY IdsEmpty DEF Init, Once
<1> QED
  BY <1>3, <1>4, <1>5, <1>6, <1>7 DEF NInv, OnePlace, Delivered, LostOnce

LEMMA NextNInv == IInv /\ NInv /\ [Next]_vars => NInv'
<1> SUFFICES ASSUME IInv, NInv, [Next]_vars PROVE NInv'
  OBVIOUS
<1>1. ASSUME NEW t \in AllThreads, Step(t)
      PROVE  NInv'
  BY <1>1, KeepsBindCb, KeepsWritePacket, KeepsSetCallback, KeepsCancelSubscribe DEF Step
<1>2. CASE IoStep
  BY <1>2, KeepsIoStep
<1>3. CASE DealReply \/ DealPublication
  BY <1>3, KeepsDealReply, KeepsDealPublication
<1>4. CASE Send \/ Written \/ Lose \/ Reconnect
  BY <1>4, KeepsSend, KeepsWritten, KeepsLose, KeepsReconnect
<1>5. CASE ServerDeal \/ Respond \/ Publish
  BY <1>5, KeepsServerDeal, KeepsRespond, KeepsPublish
<1>6. CASE UNCHANGED vars
  BY <1>6, KeepsStutter
<1> QED
  BY <1>1, <1>2, <1>3, <1>4, <1>5, <1>6 DEF Next

(* No call is forgotten: as long as its callback waits, its request or its *)
(* reply is underway, or was lost with a connection, for any number of     *)
(* threads, calls and losses.                                              *)
THEOREM NoCallForgotten == Spec => []NothingForgotten
<1>1. Once => Underway = Hands \cup Queued \cup Sent
  <2>1. Hands = {Head(todo[t]).packet.id : t \in
            {u \in AllThreads : At(u, "write") /\ Head(todo[u]).packet.type = "req_res"}}
    BY DEF Hands, Hand, IdOf
  <2> QED
    BY <2>1 DEF Underway, Queued, Sent, Arrived, Working, Returned
<1>2. NInv => NothingForgotten
  BY <1>1 DEF NInv, LostOnce, Awaiting, NothingForgotten
<1>3. Spec => []NInv
  BY InitNInv, NextNInv, Inductive, PTL DEF Spec
<1> QED
  BY <1>2, <1>3, PTL

-----------------------------------------------------------------------------
(* Subscriptions.  What a packet does to a pair of topic and tag, and what *)
(* is left of it behind a list of packets.                                 *)
Subs(p, x) == p.type = "sub_pub" /\ x \in Pairs(p.topic, Split(p.tags))
Cancels(p, x) == p.type = "cancel_sub_pub" /\ x \in Pairs(p.topic, Split(p.tags))

LastSub(q, x) ==
    \E i \in DOMAIN q : Subs(q[i], x) /\ \A j \in DOMAIN q : j > i => ~Cancels(q[j], x)

NoCancel(q, x) == \A j \in DOMAIN q : ~Cancels(q[j], x)

(* What the session will make of a pair when all that is queued has come.  *)
Rest == IF writing THEN Tail(send_queue) ELSE send_queue

Finally(x) ==
    \/ LastSub(Rest, x)
    \/ NoCancel(Rest, x) /\ (LastSub(inbox, x) \/ (NoCancel(inbox, x) /\ x \in served))

(* The pairs that a thread is about to subscribe to.                       *)
Coming(u) ==
    IF At(u, "subscribe") THEN Pairs(Head(todo[u]).topic, Split(Head(todo[u]).tags))
    ELSE IF At(u, "write") /\ Head(todo[u]).packet.type = "sub_pub"
    THEN Pairs(Head(todo[u]).packet.topic, Split(Head(todo[u]).packet.tags))
    ELSE {}

(* Steps as programs and handlers have them, when the tags they subscribe  *)
(* to are in Good; tags that re_subscribe() does not change.               *)
Fresh(Good, s) ==
    /\ s.do \notin {"write", "lock", "resubscribe"}
    /\ s.do = "subscribe" =>
          s.topic \in Topics /\ s.left = Split(s.tags) /\ s.left \in Seq(Good) /\ s.left # <<>>

NamesOnly(Good) ==
    /\ \A p \in Programs, t \in Threads : \A s \in ElementsOf(p[t]) : Fresh(Good, s)
    /\ \A c \in Callbacks \cup Topics : \A s \in ElementsOf(Handlers[c]) : Fresh(Good, s)

WholeTags == {tag \in Plain(Characters) : ~EndsInBar(tag)}

TailsFresh(Good) ==
    \A t \in AllThreads : todo[t] # <<>> =>
        \A s \in ElementsOf(Tail(todo[t])) : Fresh(Good, s)

HeadOK(Good, t) ==
    /\ At(t, "write") => Head(todo[t]).packet.type # "cancel_sub_pub"
    /\ At(t, "subscribe") =>
          LET s == Head(todo[t])
          IN  /\ s.topic \in Topics /\ s.left \in Seq(Good) /\ s.left # <<>>
              /\ Pairs(s.topic, s.left) \subseteq Pairs(s.topic, Split(s.tags))

(* A pair whose message is to come has its callback, and one whose message *)
(* is in the queue has, too, unless it is cancelled behind it.             *)
Bound ==
    /\ \A u \in AllThreads : HalfDone(u) \subseteq sub_cb \cup raced
    /\ \A x : x \notin raced /\ LastSub(send_queue, x) => x \in sub_cb

(* The io thread is on its way to re_subscribe(), or in it.                *)
Resubs == At(Io, "lock") \/ At(Io, "resubscribe")

Resubscribing ==
    /\ Resubs => ~writing
    /\ Resubs \/ ~up => inbox = <<>> /\ served = {}
    /\ At(Io, "resubscribe") =>
          /\ lock["sub"] = Io
          /\ Head(todo[Io]).topics \subseteq TopicsOf(sub_cb)
          /\ \A x \in sub_cb \ raced :
                x[1] \notin Head(todo[Io]).topics => LastSub(send_queue, x)

Agree ==
    up /\ ~Resubs =>
        \A x : x \notin raced /\ (\A u \in AllThreads : x \notin Coming(u))
                  => (Finally(x) <=> x \in sub_cb)

Named(Good) ==
    /\ DOMAIN lock = {"req", "sub"}
    /\ sub_cb \subseteq Topics \X Good
    /\ TailsFresh(Good)
    /\ \A t \in AllThreads : HeadOK(Good, t)

SInv(Good) == Named(Good) /\ Bound /\ Resubscribing /\ Agree

(* Lists of packets, once more.                                            *)
LEMMA SubsEmpty == \A x : ~LastSub(<<>>, x) /\ NoCancel(<<>>, x)
<1>1. DOMAIN <<>> = {}
  OBVIOUS
<1> QED
  BY <1>1 DEF LastSub, NoCancel

LEMMA SubsOne ==
    ASSUME NEW p, p.type # "sub_pub"
    PROVE  \A x : ~LastSub(<<p>>, x)
<1>1. DOMAIN <<p>> = {1} /\ <<p>>[1] = p
  OBVIOUS
<1> QED
  BY <1>1 DEF LastSub, Subs

LEMMA SubsAppend ==
    ASSUME NEW q, List(q), NEW p, NEW x
    PROVE  /\ LastSub(Append(q, p), x) <=> (Subs(p, x) \/ (LastSub(q, x) /\ ~Cancels(p, x)))
           /\ NoCancel(Append(q, p), x) <=> (NoCancel(q, x) /\ ~Cancels(p, x))
<1>1. PICK r, n : r = Append(q, p) /\ n = Len(q)
  OBVIOUS
<1>2. /\ n \in Nat /\ DOMAIN q = 1 .. n /\ DOMAIN r = 1 .. n + 1
      /\ \A i \in 1 .. n : r[i] = q[i]
      /\ r[n + 1] = p
  BY <1>1, ListAppendAt
<1>3. ~(Subs(p, x) /\ Cancels(p, x))
  BY DEF Subs, Cancels
<1>4. NoCancel(r, x) <=> (NoCancel(q, x) /\ ~Cancels(p, x))
  BY <1>2 DEF NoCancel
<1>5. LastSub(r, x) <=> (Subs(p, x) \/ (LastSub(q, x) /\ ~Cancels(p, x)))
  <2>1. ASSUME Subs(p, x)
        PROVE  LastSub(r, x)
    <3>1. n + 1 \in DOMAIN r /\ Subs(r[n + 1], x) /\ \A j \in DOMAIN r : ~(j > n + 1)
      BY <1>2, <2>1
    <3> QED
      BY <3>1 DEF LastSub
  <2>2. ASSUME LastSub(q, x), ~Cancels(p, x)
        PROVE  LastSub(r, x)
    <3>1. PICK i \in DOMAIN q : Subs(q[i], x) /\ \A j \in DOMAIN q : j > i => ~Cancels(q[j], x)
      BY <2>2 DEF LastSub
    <3>2. i \in DOMAIN r /\ Subs(r[i], x) /\ \A j \in DOMAIN r : j > i => ~Cancels(r[j], x)
      BY <1>2, <2>2, <3>1
    <3> QED
      BY <3>2 DEF LastSub
  <2>3. ASSUME LastSub(r, x), ~Subs(p, x)
        PROVE  LastSub(q, x) /\ ~Cancels(p, x)
    <3>1. PICK i \in DOMAIN r : Subs(r[i], x) /\ \A j \in DOMAIN r : j > i => ~Cancels(r[j], x)
      BY <2>3 DEF LastSub
    <3>2. i \in 1 .. n /\ n + 1 > i
      BY <1>2, <2>3, <3>1
    <3>3. Subs(q[i], x) /\ \A j \in DOMAIN q : j > i => ~Cancels(q[j], x)
      BY <1>2, <3>1, <3>2
    <3>4. ~Cancels(p, x)
      BY <1>2, <3>1, <3>2
    <3> QED
      BY <1>2, <3>2, <3>3, <3>4 DEF LastSub
  <2> QED
    BY <1>3, <2>1, <2>2, <2>3
<1> QED
  BY <1>1, <1>4, <1>5

LEMMA SubsTail ==
    ASSUME NEW q, List(q), q # <<>>, NEW x
    PROVE  /\ LastSub(q, x) <=> (LastSub(Tail(q), x) \/ (Subs(Head(q), x) /\ NoCancel(Tail(q), x)))
           /\ NoCancel(q, x) <=> (NoCancel(Tail(q), x) /\ ~Cancels(Head(q), x))
<1>1. PICK h, r, n : h = Head(q) /\ r = Tail(q) /\ n = Len(q)
  OBVIOUS
<1>2. /\ n \in Nat \ {0} /\ DOMAIN q = 1 .. n /\ h = q[1]
      /\ DOMAIN r = 1 .. n - 1 /\ \A i \in 1 .. n - 1 : r[i] = q[i + 1]
  BY <1>1, EmptySeq, LenProperties, HeadTailProperties DEF List
<1>3. \A i \in DOMAIN q : i = 1 \/ (i - 1 \in DOMAIN r /\ q[i] = r[i - 1])
  BY <1>2
<1>4. 1 \in DOMAIN q /\ \A i \in DOMAIN r : i \in Nat /\ i + 1 \in DOMAIN q /\ r[i] = q[i + 1] /\ i + 1 > 1
  BY <1>2
<1>5. NoCancel(q, x) <=> (NoCancel(r, x) /\ ~Cancels(h, x))
  BY <1>2, <1>3, <1>4 DEF NoCancel
<1>6. ASSUME LastSub(r, x)
      PROVE  LastSub(q, x)
  <2>1. PICK i \in DOMAIN r : Subs(r[i], x) /\ \A j \in DOMAIN r : j > i => ~Cancels(r[j], x)
    BY <1>6 DEF LastSub
  <2>2. ASSUME NEW j \in DOMAIN q, j > i + 1
        PROVE  ~Cancels(q[j], x)
    <3>1. j # 1 /\ j \in Nat
      BY <1>2, <1>4, <2>2
    <3>2. j - 1 \in DOMAIN r /\ q[j] = r[j - 1]
      BY <1>3, <3>1
    <3>3. j - 1 > i
      BY <1>2, <1>4, <2>2, <3>1
    <3> QED
      BY <2>1, <3>2, <3>3
  <2> QED
    BY <1>4, <2>1, <2>2 DEF LastSub
<1>7. ASSUME Subs(h, x), NoCancel(r, x)
      PROVE  LastSub(q, x)
  <2>1. \A j \in DOMAIN q : j > 1 => ~Cancels(q[j], x)
    BY <1>2, <1>3, <1>7 DEF NoCancel
  <2> QED
    BY <1>2, <1>4, <1>7, <2>1 DEF LastSub
<1>8. ASSUME LastSub(q, x)
      PROVE  LastSub(r, x) \/ (Subs(h, x) /\ NoCancel(r, x))
  <2>1. PICK i \in DOMAIN q : Subs(q[i], x) /\ \A j \in DOMAIN q : j > i => ~Cancels(q[j], x)
    BY <1>8 DEF LastSub
  <2>2. CASE i = 1
    BY <1>2, <1>4, <2>1, <2>2 DEF NoCancel
  <2>3. CASE i # 1
    <3>1. i - 1 \in DOMAIN r /\ Subs(r[i - 1], x)
      BY <1>3, <2>1, <2>3
    <3>2. \A j \in DOMAIN r : j > i - 1 => ~Cancels(r[j], x)
      BY <1>2, <1>4, <2>1
    <3> QED
      BY <3>1, <3>2 DEF LastSub
  <2> QED
    BY <2>2, <2>3
<1> QED
  BY <1>1, <1>5, <1>6, <1>7, <1>8

LEMMA TailAppend ==
    ASSUME NEW q, List(q), q # <<>>, NEW p
    PROVE  Tail(Append(q, p)) = Append(Tail(q), p)
<1>1. PICK S : q \in Seq(S) /\ p \in S
  <2>1. q \in Seq(ElementsOf(q) \cup {p})
    BY SeqMonotonic DEF List
  <2> QED
    BY <2>1
<1> QED
  BY <1>1

(* A packet is appended to the queue.                                      *)
LEMMA RestPushed ==
    ASSUME IInv, NEW p, send_queue' = Append(send_queue, p), writing' = writing
    PROVE  \A x :
             /\ LastSub(send_queue', x) <=> (Subs(p, x) \/ (LastSub(send_queue, x) /\ ~Cancels(p, x)))
             /\ LastSub(Rest', x) <=> (Subs(p, x) \/ (LastSub(Rest, x) /\ ~Cancels(p, x)))
             /\ NoCancel(Rest', x) <=> (NoCancel(Rest, x) /\ ~Cancels(p, x))
<1>1. List(send_queue) /\ (writing => send_queue # <<>>)
  BY DEF IInv, Lists
<1>2. List(Rest)
  BY <1>1, ListTail DEF Rest
<1>3. Rest' = Append(Rest, p)
  BY <1>1, TailAppend DEF Rest
<1> QED
  BY <1>1, <1>2, <1>3, SubsAppend

-----------------------------------------------------------------------------
(* What the steps of a thread become.                                      *)
AllFresh(Good, q) == \A s \in ElementsOf(q) : Fresh(Good, s)

(* Only thread t has taken a step, and all lists are as they should be.    *)
OnlyThread(Good, t) ==
    /\ TailsFresh(Good)'
    /\ \A u \in AllThreads : HeadOK(Good, u)'
    /\ \A u \in AllThreads \ {t} : todo'[u] = todo[u]

LEMMA SameThread ==
    ASSUME NEW Good, NEW u, todo'[u] = todo[u]
    PROVE  /\ HalfDone(u)' = HalfDone(u) /\ Coming(u)' = Coming(u)
           /\ HeadOK(Good, u)' <=> HeadOK(Good, u)
           /\ \A do : At(u, do)' <=> At(u, do)
BY DEF HalfDone, Coming, HeadOK, At

LEMMA ThreadSet ==
    ASSUME NEW Good, Lists, Named(Good), NEW t \in AllThreads,
           NEW q, todo' = [todo EXCEPT ![t] = q],
           q # <<>> => AllFresh(Good, Tail(q)), HeadOK(Good, t)'
    PROVE  OnlyThread(Good, t) /\ todo'[t] = q
<1>1. todo'[t] = q /\ \A u \in AllThreads \ {t} : todo'[u] = todo[u]
  BY DEF Lists
<1>2. TailsFresh(Good)'
  <2> SUFFICES ASSUME NEW u \in AllThreads, todo'[u] # <<>>
               PROVE  \A s \in ElementsOf(Tail(todo'[u])) : Fresh(Good, s)
    BY DEF TailsFresh, Fresh
  <2>1. CASE u = t
    BY <1>1, <2>1 DEF AllFresh
  <2>2. CASE u # t
    BY <1>1, <2>2 DEF Named, TailsFresh
  <2> QED
    BY <2>1, <2>2
<1>3. \A u \in AllThreads : HeadOK(Good, u)'
  <2>1. ASSUME NEW u \in AllThreads, u # t
        PROVE  HeadOK(Good, u)'
    BY <1>1, <2>1, SameThread DEF Named
  <2> QED
    BY <2>1
<1> QED
  BY <1>1, <1>2, <1>3 DEF OnlyThread

LEMMA FreshHead ==
    ASSUME NEW Good, NEW t, NEW q, todo'[t] = q, List(q), AllFresh(Good, q)
    PROVE  /\ HalfDone(t)' = {} /\ HeadOK(Good, t)'
           /\ ~At(t, "lock")' /\ ~At(t, "resubscribe")'
<1>1. q # <<>> => Fresh(Good, Head(q))
  BY ListTail DEF AllFresh
<1>2. ~At(t, "lock")' /\ ~At(t, "resubscribe")' /\ ~At(t, "write")'
  BY <1>1 DEF At, Fresh
<1>3. At(t, "subscribe")' => Fresh(Good, Head(q)) /\ Head(q).do = "subscribe"
  BY <1>1 DEF At
<1>4. HalfDone(t)' = {}
  BY <1>2, <1>3 DEF HalfDone, Fresh
<1>5. HeadOK(Good, t)'
  BY <1>2, <1>3 DEF HeadOK, Fresh
<1> QED
  BY <1>2, <1>4, <1>5

LEMMA BecomesFresh ==
    ASSUME NEW Good, Lists, Named(Good), NEW t \in AllThreads,
           NEW q, todo' = [todo EXCEPT ![t] = q], List(q), AllFresh(Good, q)
    PROVE  /\ OnlyThread(Good, t) /\ HalfDone(t)' = {}
           /\ ~At(t, "lock")' /\ ~At(t, "resubscribe")'
<1>1. todo'[t] = q
  BY DEF Lists
<1>2. q # <<>> => AllFresh(Good, Tail(q))
  BY ListTail DEF AllFresh
<1>3. HeadOK(Good, t)' /\ HalfDone(t)' = {} /\ ~At(t, "lock")' /\ ~At(t, "resubscribe")'
  BY <1>1, FreshHead
<1>4. OnlyThread(Good, t)
  BY <1>2, <1>3, ThreadSet
<1> QED
  BY <1>3, <1>4

LEMMA AwayFresh ==
    ASSUME NEW Good, Lists, Named(Good), NEW t \in AllThreads, todo[t] # <<>>,
           Goes(t, <<>>)
    PROVE  /\ OnlyThread(Good, t) /\ HalfDone(t)' = {}
           /\ ~At(t, "lock")' /\ ~At(t, "resubscribe")'
<1>1. PICK r, q : r = Tail(todo[t]) /\ q = <<>> \o r
  OBVIOUS
<1>2. List(r) /\ AllFresh(Good, r)
  BY <1>1, ListTail DEF Lists, Named, TailsFresh, AllFresh
<1>3. List(q) /\ ElementsOf(q) \subseteq ElementsOf(r)
  BY <1>1, <1>2, EmptyList, ListConcat
<1>4. AllFresh(Good, q)
  BY <1>2, <1>3 DEF AllFresh
<1>5. todo' = [todo EXCEPT ![t] = q]
  BY <1>1 DEF Goes
<1> QED
  BY <1>3, <1>4, <1>5, BecomesFresh

LEMMA BecomesOne ==
    ASSUME NEW Good, Lists, Named(Good), NEW t \in AllThreads, todo[t] # <<>>,
           NEW s, Goes(t, <<s>>),
           todo'[t] # <<>> /\ Head(todo'[t]) = s => HeadOK(Good, t)'
    PROVE  OnlyThread(Good, t) /\ todo'[t] # <<>> /\ Head(todo'[t]) = s
<1>1. PICK r, q : r = Tail(todo[t]) /\ q = <<s>> \o r
  OBVIOUS
<1>2. todo' = [todo EXCEPT ![t] = q]
  BY <1>1 DEF Goes
<1>3. List(r) /\ AllFresh(Good, r)
  BY <1>1, ListTail DEF Lists, Named, TailsFresh, AllFresh
<1>4. q # <<>> /\ Head(q) = s /\ Tail(q) = r
  <2>1. r \in Seq(ElementsOf(r) \cup {s}) /\ <<s>> \in Seq(ElementsOf(r) \cup {s})
    BY <1>3, SeqMonotonic DEF List
  <2> QED
    BY <1>1, <2>1
<1>5. todo'[t] = q
  BY <1>2 DEF Lists
<1>6. AllFresh(Good, Tail(q))
  BY <1>3, <1>4
<1>7. HeadOK(Good, t)'
  BY <1>4, <1>5
<1>8. OnlyThread(Good, t)
  BY <1>2, <1>6, <1>7, ThreadSet
<1> QED
  BY <1>4, <1>5, <1>8

(* The io thread gets the steps of a handler.                              *)
LEMMA HandlerFresh ==
    ASSUME NEW Good, NamesOnly(Good), Lists, Named(Good), NEW c \in Callbacks \cup Topics,
           NEW q, q = Append(Handlers[c], Unlock), todo' = [todo EXCEPT ![Io] = q]
    PROVE  /\ OnlyThread(Good, Io) /\ HalfDone(Io)' = {}
           /\ ~At(Io, "lock")' /\ ~At(Io, "resubscribe")'
<1>1. Handlers[c] \in Seq(ApiStep) /\ Io \in AllThreads
  BY ApiAssumption DEF AllThreads
<1>2. List(Handlers[c]) /\ AllFresh(Good, Handlers[c])
  BY <1>1, ListOf DEF NamesOnly, AllFresh
<1>3. PICK u : u = Unlock
  OBVIOUS
<1>4. Fresh(Good, u)
  BY <1>3 DEF Fresh, Unlock
<1>5. List(q) /\ ElementsOf(q) \subseteq ElementsOf(Handlers[c]) \cup {u}
  BY <1>2, <1>3, ListAppend
<1>6. AllFresh(Good, q)
  BY <1>2, <1>4, <1>5 DEF AllFresh
<1> QED
  BY <1>1, <1>5, <1>6, BecomesFresh

(* Whether the io thread is in re_subscribe(), when thread t takes a step  *)
(* that has nothing to do with it.                                         *)
Elsewhere(t) == ~At(t, "lock") /\ ~At(t, "resubscribe")

LEMMA ResubsSame ==
    ASSUME NEW t, Elsewhere(t), Elsewhere(t)', t # Io => todo'[Io] = todo[Io]
    PROVE  /\ At(Io, "lock")' <=> At(Io, "lock")
           /\ At(Io, "resubscribe")' <=> At(Io, "resubscribe")
           /\ Resubs' <=> Resubs
           /\ At(Io, "resubscribe") => todo'[Io] = todo[Io]
<1>1. CASE t = Io
  BY <1>1 DEF Elsewhere, Resubs
<1>2. CASE t # Io
  BY <1>2 DEF Resubs, At
<1> QED
  BY <1>1, <1>2

(* Steps that neither say nor do anything about subscriptions.             *)
LEMMA Untold ==
    ASSUME NEW Good, SInv(Good), NEW t \in AllThreads, OnlyThread(Good, t),
           HalfDone(t)' \subseteq HalfDone(t), Coming(t) \subseteq Coming(t)',
           Elsewhere(t), Elsewhere(t)',
           DOMAIN lock' = DOMAIN lock, At(Io, "resubscribe") => lock'["sub"] = lock["sub"],
           UNCHANGED <<sub_cb, raced, writing, up, inbox, served>>,
           \A x : /\ LastSub(send_queue', x) <=> LastSub(send_queue, x)
                  /\ LastSub(Rest', x) <=> LastSub(Rest, x)
                  /\ NoCancel(Rest', x) <=> NoCancel(Rest, x)
    PROVE  SInv(Good)'
<1>0. Io \in AllThreads
  BY DEF AllThreads
<1>1. \A u \in AllThreads \ {t} : HalfDone(u)' = HalfDone(u) /\ Coming(u)' = Coming(u)
  BY SameThread DEF OnlyThread
<1>2. /\ At(Io, "lock")' <=> At(Io, "lock")
      /\ At(Io, "resubscribe")' <=> At(Io, "resubscribe")
      /\ Resubs' <=> Resubs
      /\ At(Io, "resubscribe") => todo'[Io] = todo[Io]
  BY <1>0, ResubsSame DEF OnlyThread
<1>3. Named(Good)'
  BY DEF OnlyThread, SInv, Named
<1>4. Bound'
  BY <1>1 DEF SInv, Bound
<1>5. Resubscribing'
  <2>1. (Resubs => ~writing) /\ (Resubs \/ ~up => inbox = <<>> /\ served = {})
    BY DEF SInv, Resubscribing
  <2>2. At(Io, "resubscribe") =>
          /\ lock["sub"] = Io
          /\ Head(todo[Io]).topics \subseteq TopicsOf(sub_cb)
          /\ \A x \in sub_cb \ raced :
                x[1] \notin Head(todo[Io]).topics => LastSub(send_queue, x)
    BY DEF SInv, Resubscribing
  <2> QED
    BY <1>2, <2>1, <2>2 DEF Resubscribing
<1>6. Agree'
  <2>1. \A x : Finally(x)' <=> Finally(x)
    BY DEF Finally
  <2>2. \A x : (\A u \in AllThreads : x \notin Coming(u)') => (\A u \in AllThreads : x \notin Coming(u))
    BY <1>1
  <2> QED
    BY <1>2, <2>1, <2>2 DEF SInv, Agree
<1> QED
  BY <1>3, <1>4, <1>5, <1>6 DEF SInv

LEMMA QueueUntold ==
    ASSUME UNCHANGED <<send_queue, writing>>
    PROVE  \A x : /\ LastSub(send_queue', x) <=> LastSub(send_queue, x)
                  /\ LastSub(Rest', x) <=> LastSub(Rest, x)
                  /\ NoCancel(Rest', x) <=> NoCancel(Rest, x)
BY DEF Rest

LEMMA SyncBindCb ==
    ASSUME NEW Good, IInv, SInv(Good), NEW t \in AllThreads, BindCb(t)
    PROVE  SInv(Good)'
<1>1. /\ todo[t] # <<>> /\ Head(todo[t]).do = "call" /\ Lists /\ Named(Good)
      /\ UNCHANGED <<lock, sub_cb, raced, send_queue, writing, up, inbox, served>>
  BY DEF BindCb, At, IInv, SInv, linkVars, serverVars, ghosts
<1>2. PICK s, p : s = Write(p) /\ p = Request(message_id, Head(todo[t]).call)
  OBVIOUS
<1>3. Goes(t, <<s>>)
  BY <1>2 DEF BindCb
<1>4. s.do = "write" /\ s.packet = p /\ p.type = "req_res"
  BY <1>2 DEF Write, Request
<1>5. OnlyThread(Good, t) /\ todo'[t] # <<>> /\ Head(todo'[t]) = s
  <2>1. todo'[t] # <<>> /\ Head(todo'[t]) = s => HeadOK(Good, t)'
    BY <1>4 DEF HeadOK, At
  <2> QED
    BY <1>1, <1>3, <2>1, BecomesOne
<1>6. HalfDone(t)' = {} /\ Coming(t) = {} /\ Elsewhere(t) /\ Elsewhere(t)'
  BY <1>1, <1>4, <1>5 DEF HalfDone, Coming, Elsewhere, At
<1> QED
  BY <1>1, <1>5, <1>6, QueueUntold, Untold

LEMMA SyncWritePacket ==
    ASSUME NEW Good, IInv, SInv(Good), NEW t \in AllThreads, WritePacket(t)
    PROVE  SInv(Good)'
<1>1. /\ todo[t] # <<>> /\ Head(todo[t]).do = "write" /\ Goes(t, <<>>) /\ Lists /\ Named(Good)
      /\ UNCHANGED <<lock, sub_cb, raced, writing, up, inbox, served>>
  BY DEF WritePacket, At, IInv, SInv, serverVars, ghosts
<1>2. PICK p : p = Head(todo[t]).packet
  OBVIOUS
<1>3. send_queue' = Append(send_queue, p)
  BY <1>2 DEF WritePacket
<1>4. OnlyThread(Good, t) /\ HalfDone(t)' = {} /\ Elsewhere(t)'
  BY <1>1, AwayFresh DEF Elsewhere
<1>5. Elsewhere(t)
  BY <1>1 DEF Elsewhere, At
<1>6. \A x : ~Cancels(p, x)
  BY <1>1, <1>2 DEF Named, HeadOK, At, Cancels
<1>7. \A x : /\ LastSub(send_queue', x) <=> (Subs(p, x) \/ LastSub(send_queue, x))
             /\ LastSub(Rest', x) <=> (Subs(p, x) \/ LastSub(Rest, x))
             /\ NoCancel(Rest', x) <=> NoCancel(Rest, x)
  BY <1>1, <1>3, <1>6, RestPushed
<1>8. HalfDone(t) = Coming(t) /\ \A x : Subs(p, x) <=> x \in Coming(t)
  BY <1>1, <1>2 DEF HalfDone, Coming, At, Subs
<1>9. \A u \in AllThreads \ {t} : HalfDone(u)' = HalfDone(u) /\ Coming(u)' = Coming(u)
  BY <1>4, SameThread DEF OnlyThread
<1>10. /\ At(Io, "resubscribe")' <=> At(Io, "resubscribe")
       /\ Resubs' <=> Resubs
       /\ At(Io, "resubscribe") => todo'[Io] = todo[Io]
  BY <1>4, <1>5, ResubsSame DEF OnlyThread, AllThreads
<1>11. Named(Good)'
  BY <1>1, <1>4 DEF OnlyThread, Named
<1>12. Bound'
  <2>1. \A u \in AllThreads : HalfDone(u)' \subseteq sub_cb' \cup raced'
    BY <1>1, <1>4, <1>9 DEF SInv, Bound
  <2>2. \A x : x \notin raced' /\ LastSub(send_queue', x) => x \in sub_cb'
    BY <1>1, <1>7, <1>8 DEF SInv, Bound
  <2> QED
    BY <2>1, <2>2 DEF Bound
<1>13. Resubscribing'
  <2>1. (Resubs => ~writing) /\ (Resubs \/ ~up => inbox = <<>> /\ served = {})
    BY DEF SInv, Resubscribing
  <2>2. At(Io, "resubscribe") =>
          /\ lock["sub"] = Io
          /\ Head(todo[Io]).topics \subseteq TopicsOf(sub_cb)
          /\ \A x \in sub_cb \ raced :
                x[1] \notin Head(todo[Io]).topics => LastSub(send_queue, x)
    BY DEF SInv, Resubscribing
  <2> QED
    BY <1>1, <1>7, <1>10, <2>1, <2>2 DEF Resubscribing
<1>14. Agree'
  <2> SUFFICES ASSUME up, ~Resubs, NEW x, x \notin raced,
                      \A u \in AllThreads : x \notin Coming(u)'
               PROVE  Finally(x)' <=> x \in sub_cb
    BY <1>1, <1>10 DEF Agree
  <2>1. CASE x \in Coming(t)
    <3>1. x \in sub_cb
      BY <1>8, <2>1 DEF SInv, Bound
    <3> QED
      BY <1>7, <1>8, <2>1, <3>1 DEF Finally
  <2>2. CASE x \notin Coming(t)
    <3>1. \A u \in AllThreads : x \notin Coming(u)
      BY <1>9, <2>2
    <3>2. Finally(x) <=> x \in sub_cb
      BY <3>1 DEF SInv, Agree
    <3>3. Finally(x)' <=> Finally(x)
      BY <1>1, <1>7, <1>8, <2>2 DEF Finally
    <3> QED
      BY <3>2, <3>3
  <2> QED
    BY <2>1, <2>2
<1> QED
  BY <1>11, <1>12, <1>13, <1>14 DEF SInv

LEMMA PairsTail ==
    ASSUME NEW Good, NEW left \in Seq(Good), left # <<>>, NEW topic
    PROVE  /\ Head(left) \in Good /\ Tail(left) \in Seq(Good)
           /\ Pairs(topic, left) = {<<topic, Head(left)>>} \cup Pairs(topic, Tail(left))
           /\ ~(Len(left) > 1) => Pairs(topic, left) = {<<topic, Head(left)>>}
           /\ Len(left) > 1 => Tail(left) # <<>>
<1>1. PICK n, r, h : n = Len(left) /\ r = Tail(left) /\ h = Head(left)
  OBVIOUS
<1>2. /\ n \in Nat \ {0} /\ DOMAIN left = 1 .. n /\ h = left[1] /\ r \in Seq(Good) /\ h \in Good
      /\ DOMAIN r = 1 .. n - 1 /\ \A i \in 1 .. n - 1 : r[i] = left[i + 1]
  BY <1>1, EmptySeq, LenProperties, HeadTailProperties
<1>3. \A i \in DOMAIN left : i = 1 \/ (i - 1 \in DOMAIN r /\ left[i] = r[i - 1])
  BY <1>2
<1>4. 1 \in DOMAIN left /\ \A i \in DOMAIN r : i + 1 \in DOMAIN left /\ r[i] = left[i + 1]
  BY <1>2
<1>5. Pairs(topic, left) = {<<topic, h>>} \cup Pairs(topic, r)
  BY <1>2, <1>3, <1>4 DEF Pairs
<1>6. ASSUME ~(n > 1)
      PROVE  Pairs(topic, left) = {<<topic, h>>}
  <2>1. DOMAIN r = {}
    BY <1>2, <1>6
  <2>2. Pairs(topic, r) = {}
    BY <2>1 DEF Pairs
  <2> QED
    BY <1>5, <2>2
<1>7. ASSUME n > 1
      PROVE  r # <<>>
  <2>1. 1 \in DOMAIN r
    BY <1>2, <1>7
  <2> QED
    BY <2>1
<1> QED
  BY <1>1, <1>2, <1>5, <1>6, <1>7

LEMMA SyncSetCallback ==
    ASSUME NEW Good, IInv, SInv(Good), NEW t \in AllThreads, SetCallback(t)
    PROVE  SInv(Good)'
<1>1. /\ todo[t] # <<>> /\ Head(todo[t]).do = "subscribe" /\ Lists /\ Named(Good)
      /\ lock["sub"] = Free
      /\ UNCHANGED <<lock, raced, send_queue, writing, up, inbox, served>>
  BY DEF SetCallback, At, IInv, SInv, linkVars, serverVars, ghosts
<1>2. PICK s, topic, tags, left : /\ s = Head(todo[t]) /\ topic = s.topic
                                  /\ tags = s.tags /\ left = s.left
  OBVIOUS
<1>3. /\ topic \in Topics /\ left \in Seq(Good) /\ left # <<>>
      /\ Pairs(topic, left) \subseteq Pairs(topic, Split(tags))
  BY <1>1, <1>2 DEF Named, HeadOK, At
<1>4. PICK new, r : new = <<topic, Head(left)>> /\ r = Tail(left)
  OBVIOUS
<1>5. /\ r \in Seq(Good) /\ new \in Topics \X Good
      /\ Pairs(topic, left) = {new} \cup Pairs(topic, r)
      /\ ~(Len(left) > 1) => Pairs(topic, left) = {new}
      /\ Len(left) > 1 => r # <<>>
  BY <1>3, <1>4, PairsTail
<1>6. sub_cb' = sub_cb \cup {new}
  BY <1>2, <1>4 DEF SetCallback
<1>7. Coming(t) = Pairs(topic, Split(tags)) /\ HalfDone(t) = Coming(t) \ Pairs(topic, left)
  BY <1>1, <1>2 DEF Coming, HalfDone, At
<1>8. /\ OnlyThread(Good, t) /\ Elsewhere(t)'
      /\ Coming(t)' = Coming(t) /\ HalfDone(t)' \subseteq HalfDone(t) \cup {new}
  <2>1. CASE Len(left) > 1
    <3>1. PICK n : n = Subscribing(topic, tags, r)
      OBVIOUS
    <3>2. Goes(t, <<n>>)
      BY <1>2, <1>4, <2>1, <3>1 DEF SetCallback
    <3>3. n.do = "subscribe" /\ n.topic = topic /\ n.tags = tags /\ n.left = r
      BY <3>1 DEF Subscribing
    <3>4. todo'[t] # <<>> /\ Head(todo'[t]) = n => HeadOK(Good, t)'
      BY <1>3, <1>5, <2>1, <3>3 DEF HeadOK, At
    <3>5. OnlyThread(Good, t) /\ todo'[t] # <<>> /\ Head(todo'[t]) = n
      BY <1>1, <3>2, <3>4, BecomesOne
    <3>6. Elsewhere(t)' /\ At(t, "subscribe")'
      BY <3>3, <3>5 DEF Elsewhere, At
    <3>7. /\ Coming(t)' = Pairs(topic, Split(tags))
          /\ HalfDone(t)' = Pairs(topic, Split(tags)) \ Pairs(topic, r)
      BY <3>3, <3>5, <3>6 DEF Coming, HalfDone
    <3> QED
      BY <1>5, <1>7, <3>5, <3>6, <3>7
  <2>2. CASE ~(Len(left) > 1)
    <3>1. PICK n, p : n = Write(p) /\ p = Sub(topic, tags)
      OBVIOUS
    <3>2. Goes(t, <<n>>)
      BY <1>2, <2>2, <3>1 DEF SetCallback
    <3>3. n.do = "write" /\ n.packet = p /\ p.type = "sub_pub" /\ p.topic = topic /\ p.tags = tags
      BY <3>1 DEF Write, Sub
    <3>4. todo'[t] # <<>> /\ Head(todo'[t]) = n => HeadOK(Good, t)'
      BY <3>3 DEF HeadOK, At
    <3>5. OnlyThread(Good, t) /\ todo'[t] # <<>> /\ Head(todo'[t]) = n
      BY <1>1, <3>2, <3>4, BecomesOne
    <3>6. Elsewhere(t)' /\ At(t, "write")' /\ ~At(t, "subscribe")'
      BY <3>3, <3>5 DEF Elsewhere, At
    <3>7. /\ Coming(t)' = Pairs(topic, Split(tags))
          /\ HalfDone(t)' = Pairs(topic, Split(tags))
      BY <3>3, <3>5, <3>6 DEF Coming, HalfDone
    <3> QED
      BY <1>5, <1>7, <2>2, <3>5, <3>6, <3>7
  <2> QED
    BY <2>1, <2>2
<1>9. ~At(Io, "resubscribe") /\ Elsewhere(t)
  BY <1>1, ApiAssumption DEF SInv, Resubscribing, Elsewhere, At, AllThreads
<1>10. \A u \in AllThreads \ {t} : HalfDone(u)' = HalfDone(u) /\ Coming(u)' = Coming(u)
  BY <1>8, SameThread DEF OnlyThread
<1>11. ~At(Io, "resubscribe")' /\ (Resubs' <=> Resubs)
  BY <1>8, <1>9, ResubsSame DEF OnlyThread, AllThreads
<1>12. Named(Good)'
  BY <1>1, <1>5, <1>6, <1>8 DEF OnlyThread, Named
<1>13. Bound'
  BY <1>1, <1>6, <1>8, <1>10 DEF SInv, Bound
<1>14. Resubscribing'
  BY <1>1, <1>11 DEF SInv, Resubscribing
<1>15. Agree'
  <2>1. \A x : Finally(x)' <=> Finally(x)
    BY <1>1 DEF Finally, Rest
  <2>2. new \in Coming(t)
    BY <1>3, <1>5, <1>7
  <2>3. \A u \in AllThreads : Coming(u)' = Coming(u)
    BY <1>8, <1>10
  <2> QED
    BY <1>1, <1>6, <1>11, <2>1, <2>2, <2>3 DEF SInv, Agree
<1> QED
  BY <1>12, <1>13, <1>14, <1>15 DEF SInv

LEMMA SyncCancelSubscribe ==
    ASSUME NEW Good, IInv, SInv(Good), NEW t \in AllThreads, CancelSubscribe(t)
    PROVE  SInv(Good)'
<1>1. /\ todo[t] # <<>> /\ Head(todo[t]).do = "cancel" /\ Goes(t, <<>>) /\ Lists /\ Named(Good)
      /\ lock["sub"] = Free
      /\ UNCHANGED <<lock, writing, up, inbox, served>>
  BY DEF CancelSubscribe, At, IInv, SInv, serverVars
<1>2. OnlyThread(Good, t) /\ HalfDone(t)' = {} /\ Elsewhere(t)'
  BY <1>1, AwayFresh DEF Elsewhere
<1>3. ~At(Io, "resubscribe") /\ Elsewhere(t) /\ Coming(t) = {}
  BY <1>1, ApiAssumption DEF SInv, Resubscribing, Elsewhere, At, AllThreads, Coming
<1>4. PICK c, ps, p : /\ c = Head(todo[t]) /\ ps = Pairs(c.topic, Split(c.tags))
                      /\ p = CancelSub(c.topic, c.tags)
  OBVIOUS
<1>5. CASE UNCHANGED <<sub_cb, send_queue, raced>>
  BY <1>1, <1>2, <1>3, <1>5, QueueUntold, Untold
<1>6. CASE /\ sub_cb' = sub_cb \ ps
           /\ send_queue' = Append(send_queue, p)
           /\ raced' = raced \cup UNION {ps \cap HalfDone(u) : u \in AllThreads \ {t}}
  <2>1. \A x : ~Subs(p, x) /\ (Cancels(p, x) <=> x \in ps)
    BY <1>4 DEF Subs, Cancels, CancelSub
  <2>2. \A x : /\ LastSub(send_queue', x) <=> (LastSub(send_queue, x) /\ x \notin ps)
               /\ LastSub(Rest', x) <=> (LastSub(Rest, x) /\ x \notin ps)
               /\ NoCancel(Rest', x) <=> (NoCancel(Rest, x) /\ x \notin ps)
    BY <1>1, <1>6, <2>1, RestPushed
  <2>3. \A u \in AllThreads \ {t} : HalfDone(u)' = HalfDone(u) /\ Coming(u)' = Coming(u)
    BY <1>2, SameThread DEF OnlyThread
  <2>4. ~At(Io, "resubscribe")' /\ (Resubs' <=> Resubs)
    BY <1>2, <1>3, ResubsSame DEF OnlyThread, AllThreads
  <2>5. Named(Good)'
    BY <1>1, <1>2, <1>6 DEF OnlyThread, Named
  <2>6. Bound'
    <3>1. ASSUME NEW u \in AllThreads
          PROVE  HalfDone(u)' \subseteq sub_cb' \cup raced'
      <4>1. CASE u = t
        BY <1>2, <4>1
      <4>2. CASE u # t
        <5>1. HalfDone(u) \subseteq sub_cb \cup raced
          BY DEF SInv, Bound
        <5>2. ps \cap HalfDone(u) \subseteq raced'
          BY <1>6, <4>2
        <5> QED
          BY <1>6, <2>3, <4>2, <5>1, <5>2
      <4> QED
        BY <4>1, <4>2
    <3>2. \A x : x \notin raced' /\ LastSub(send_queue', x) => x \in sub_cb'
      BY <1>6, <2>2 DEF SInv, Bound
    <3> QED
      BY <3>1, <3>2 DEF Bound
  <2>7. Resubscribing'
    BY <1>1, <2>4 DEF SInv, Resubscribing
  <2>8. Agree'
    <3> SUFFICES ASSUME up, ~Resubs, NEW x, x \notin raced',
                        \A u \in AllThreads : x \notin Coming(u)'
                 PROVE  Finally(x)' <=> x \in sub_cb'
      BY <1>1, <2>4 DEF Agree
    <3>1. x \notin raced /\ \A u \in AllThreads : x \notin Coming(u)
      BY <1>3, <1>6, <2>3
    <3>2. Finally(x) <=> x \in sub_cb
      BY <3>1 DEF SInv, Agree
    <3>3. Finally(x)' <=> (Finally(x) /\ x \notin ps)
      BY <1>1, <2>2 DEF Finally
    <3> QED
      BY <1>6, <3>2, <3>3
  <2> QED
    BY <2>5, <2>6, <2>7, <2>8 DEF SInv
<1>7. \/ UNCHANGED <<sub_cb, send_queue, raced>>
      \/ /\ sub_cb' = sub_cb \ ps
         /\ send_queue' = Append(send_queue, p)
         /\ raced' = raced \cup UNION {ps \cap HalfDone(u) : u \in AllThreads \ {t}}
  BY <1>4 DEF CancelSubscribe
<1> QED
  BY <1>5, <1>6, <1>7

-----------------------------------------------------------------------------
(* re_subscribe().                                                         *)
LEMMA SyncLockSubs ==
    ASSUME NEW Good, IInv, SInv(Good), LockSubs
    PROVE  SInv(Good)'
<1>1. /\ todo[Io] # <<>> /\ At(Io, "lock") /\ Lists /\ Named(Good) /\ Io \in AllThreads
      /\ Goes(Io, <<ReSubscribing(TopicsOf(sub_cb)), Unlock>>)
      /\ lock' = [lock EXCEPT !["sub"] = Io]
      /\ UNCHANGED <<sub_cb, raced, send_queue, writing, up, inbox, served>>
  BY DEF LockSubs, At, IInv, SInv, linkVars, serverVars, ghosts, AllThreads
<1>2. PICK s, u, r, q : /\ s = ReSubscribing(TopicsOf(sub_cb)) /\ u = Unlock
                        /\ r = Tail(todo[Io]) /\ q = <<s, u>> \o r
  OBVIOUS
<1>3. todo' = [todo EXCEPT ![Io] = q]
  BY <1>1, <1>2 DEF Goes
<1>4. s.do = "resubscribe" /\ s.topics = TopicsOf(sub_cb) /\ Fresh(Good, u)
  BY <1>2 DEF ReSubscribing, Unlock, Fresh
<1>5. List(r) /\ AllFresh(Good, r)
  BY <1>1, <1>2, ListTail DEF Lists, Named, TailsFresh, AllFresh
<1>6. PICK w : w = <<u>> \o r
  OBVIOUS
<1>7. q # <<>> /\ Head(q) = s /\ Tail(q) = w
  <2>1. r \in Seq(ElementsOf(r) \cup {s, u}) /\ <<s, u>> \in Seq(ElementsOf(r) \cup {s, u})
    BY <1>5, SeqMonotonic DEF List
  <2> QED
    BY <1>2, <1>6, <2>1
<1>8. AllFresh(Good, w)
  <2>1. List(<<u>>) /\ ElementsOf(<<u>>) \subseteq {u}
    BY OneElement
  <2>2. ElementsOf(w) \subseteq ElementsOf(r) \cup {u}
    BY <1>5, <1>6, <2>1, ListConcat
  <2> QED
    BY <1>4, <1>5, <2>2 DEF AllFresh
<1>9. todo'[Io] = q
  BY <1>1, <1>3 DEF Lists
<1>10. At(Io, "resubscribe")' /\ HeadOK(Good, Io)' /\ HalfDone(Io)' = {}
  BY <1>4, <1>7, <1>9 DEF At, HeadOK, HalfDone
<1>11. OnlyThread(Good, Io)
  BY <1>1, <1>3, <1>7, <1>8, <1>10, ThreadSet
<1>12. \A v \in AllThreads \ {Io} : HalfDone(v)' = HalfDone(v)
  BY <1>11, SameThread DEF OnlyThread
<1>13. Named(Good)'
  BY <1>1, <1>11 DEF OnlyThread, Named
<1>14. Bound'
  BY <1>1, <1>10, <1>12 DEF SInv, Bound
<1>15. Resubscribing'
  <2>1. ~writing /\ inbox = <<>> /\ served = {}
    BY <1>1 DEF SInv, Resubscribing, Resubs
  <2>2. lock'["sub"] = Io
    BY <1>1 DEF Named
  <2>3. Head(todo'[Io]).topics = TopicsOf(sub_cb)
    BY <1>4, <1>7, <1>9
  <2>4. \A x \in sub_cb : x[1] \in TopicsOf(sub_cb)
    BY DEF TopicsOf
  <2> QED
    BY <1>1, <2>1, <2>2, <2>3, <2>4 DEF Resubscribing
<1>16. Agree'
  BY <1>10 DEF Agree, Resubs
<1> QED
  BY <1>13, <1>14, <1>15, <1>16 DEF SInv

(* What is joined is split into the same tags, when none ends in a bar.    *)
LEMMA WholeTagsKept ==
    ASSUME NEW T \in SUBSET WholeTags, T # {}, IsFiniteSet(T), NEW list \in Orders(T)
    PROVE  ElementsOf(Split(Join(list))) = T
<1>1. list \in Seq(T) /\ ElementsOf(list) = T /\ list # <<>>
  BY OrderIsList
<1>2. list \in Seq(Plain(Characters))
  <2>1. T \subseteq Plain(Characters)
    BY DEF WholeTags
  <2> QED
    BY <1>1, <2>1, SeqMonotonic
<1>3. \A i \in 1 .. Len(list) - 1 : ~EndsInBar(list[i])
  <2>1. \A i \in 1 .. Len(list) : list[i] \in T
    BY <1>1, ElementOfSeq
  <2>2. Len(list) \in Nat
    BY <1>1, LenProperties
  <2> QED
    BY <2>1, <2>2 DEF WholeTags
<1>4. Split(Join(list)) = list
  BY <1>1, <1>2, <1>3, JoinSplit
<1> QED
  BY <1>1, <1>4

LEMMA SyncReSubscribeTopic ==
    ASSUME NEW Good, Good \subseteq WholeTags, IInv, TInv, SInv(Good), ReSubscribeTopic
    PROVE  SInv(Good)'
<1>1. /\ todo[Io] # <<>> /\ At(Io, "resubscribe") /\ Lists /\ Named(Good) /\ Io \in AllThreads
      /\ UNCHANGED <<lock, sub_cb, raced, writing, up, inbox, served>>
  BY DEF ReSubscribeTopic, At, IInv, SInv, serverVars, ghosts, AllThreads
<1>2. PICK topic, p, s :
        /\ topic \in Head(todo[Io]).topics
        /\ \E list \in Orders(TagsOf(sub_cb, topic)) : p = Sub(topic, Join(list))
        /\ send_queue' = Append(send_queue, p)
        /\ s = ReSubscribing(Head(todo[Io]).topics \ {topic})
        /\ Goes(Io, <<s>>)
  BY DEF ReSubscribeTopic
<1>3. PICK T, list : T = TagsOf(sub_cb, topic) /\ list \in Orders(T) /\ p = Sub(topic, Join(list))
  BY <1>2
<1>4. /\ ~writing /\ inbox = <<>> /\ served = {} /\ lock["sub"] = Io
      /\ Head(todo[Io]).topics \subseteq TopicsOf(sub_cb)
      /\ \A x \in sub_cb \ raced : x[1] \notin Head(todo[Io]).topics => LastSub(send_queue, x)
  BY <1>1 DEF SInv, Resubscribing, Resubs
<1>5. T \in SUBSET Good /\ T # {}
  BY <1>1, <1>2, <1>3, <1>4 DEF Named, TagsOf, TopicsOf
<1>6. ElementsOf(Split(Join(list))) = T
  <2>1. IsFiniteSet(T)
    BY <1>3, TagsTyped DEF TInv
  <2> QED
    BY <1>3, <1>5, <2>1, WholeTagsKept
<1>7. \A x : ~Cancels(p, x) /\ (Subs(p, x) <=> \E g \in T : x = <<topic, g>>)
  BY <1>3, <1>6 DEF Subs, Cancels, Sub, Pairs, ElementsOf
<1>8. \A x : Subs(p, x) <=> x \in sub_cb /\ x[1] = topic
  <2>1. \A x \in sub_cb : x = <<x[1], x[2]>>
    BY <1>1 DEF Named
  <2>2. \A g : g \in T <=> <<topic, g>> \in sub_cb
    BY <1>3, <2>1 DEF TagsOf
  <2> QED
    BY <1>7, <2>1, <2>2
<1>9. \A x : LastSub(send_queue', x) <=> (Subs(p, x) \/ LastSub(send_queue, x))
  BY <1>1, <1>2, <1>7, RestPushed
<1>10. s.do = "resubscribe" /\ s.topics = Head(todo[Io]).topics \ {topic}
  BY <1>2 DEF ReSubscribing
<1>11. OnlyThread(Good, Io) /\ todo'[Io] # <<>> /\ Head(todo'[Io]) = s
  <2>1. todo'[Io] # <<>> /\ Head(todo'[Io]) = s => HeadOK(Good, Io)'
    BY <1>10 DEF HeadOK, At
  <2> QED
    BY <1>1, <1>2, <2>1, BecomesOne
<1>12. At(Io, "resubscribe")' /\ HalfDone(Io)' = {}
  BY <1>10, <1>11 DEF At, HalfDone
<1>13. \A v \in AllThreads \ {Io} : HalfDone(v)' = HalfDone(v)
  BY <1>11, SameThread DEF OnlyThread
<1>14. Named(Good)'
  BY <1>1, <1>11 DEF OnlyThread, Named
<1>15. Bound'
  <2>1. \A u \in AllThreads : HalfDone(u)' \subseteq sub_cb' \cup raced'
    BY <1>1, <1>12, <1>13 DEF SInv, Bound
  <2>2. \A x : x \notin raced' /\ LastSub(send_queue', x) => x \in sub_cb'
    BY <1>1, <1>8, <1>9 DEF SInv, Bound
  <2> QED
    BY <2>1, <2>2 DEF Bound
<1>16. Resubscribing'
  BY <1>1, <1>2, <1>4, <1>8, <1>9, <1>10, <1>11 DEF Resubscribing
<1>17. Agree'
  BY <1>12 DEF Agree, Resubs
<1> QED
  BY <1>14, <1>15, <1>16, <1>17 DEF SInv

LEMMA SyncReSubscribeSend ==
    ASSUME NEW Good, IInv, SInv(Good), ReSubscribeSend
    PROVE  SInv(Good)'
<1>1. /\ todo[Io] # <<>> /\ At(Io, "resubscribe") /\ Lists /\ Named(Good) /\ Io \in AllThreads
      /\ Goes(Io, <<>>) /\ Head(todo[Io]).topics = {}
      /\ UNCHANGED <<lock, sub_cb, raced, send_queue, writing, up, inbox, served>>
  BY DEF ReSubscribeSend, At, IInv, SInv, linkVars, serverVars, ghosts, AllThreads
<1>2. OnlyThread(Good, Io) /\ HalfDone(Io)' = {} /\ ~Resubs'
  BY <1>1, AwayFresh DEF Resubs
<1>3. /\ ~writing /\ inbox = <<>> /\ served = {}
      /\ \A x \in sub_cb \ raced : LastSub(send_queue, x)
  BY <1>1 DEF SInv, Resubscribing, Resubs
<1>4. \A v \in AllThreads \ {Io} : HalfDone(v)' = HalfDone(v)
  BY <1>2, SameThread DEF OnlyThread
<1>5. Named(Good)'
  BY <1>1, <1>2 DEF OnlyThread, Named
<1>6. Bound'
  BY <1>1, <1>2, <1>4 DEF SInv, Bound
<1>7. Resubscribing'
  BY <1>1, <1>2, <1>3 DEF Resubscribing, Resubs
<1>8. Agree'
  <2>1. \A x : Finally(x)' <=> LastSub(send_queue, x)
    BY <1>1, <1>3, SubsEmpty DEF Finally, Rest
  <2>2. \A x : x \notin raced => (LastSub(send_queue, x) <=> x \in sub_cb)
    BY <1>3 DEF SInv, Bound
  <2> QED
    BY <1>1, <2>1, <2>2 DEF Agree
<1> QED
  BY <1>5, <1>6, <1>7, <1>8 DEF SInv

LEMMA SyncRelease ==
    ASSUME NEW Good, IInv, SInv(Good), Release
    PROVE  SInv(Good)'
<1>1. /\ todo[Io] # <<>> /\ Head(todo[Io]).do = "unlock" /\ Lists /\ Named(Good) /\ Io \in AllThreads
      /\ Goes(Io, <<>>) /\ DOMAIN lock' = DOMAIN lock
      /\ UNCHANGED <<sub_cb, raced, send_queue, writing, up, inbox, served>>
  BY DEF Release, At, IInv, SInv, linkVars, serverVars, ghosts, AllThreads
<1>2. OnlyThread(Good, Io) /\ HalfDone(Io)' = {} /\ Elsewhere(Io)'
  BY <1>1, AwayFresh DEF Elsewhere
<1>3. Elsewhere(Io) /\ Coming(Io) = {} /\ ~At(Io, "resubscribe")
  BY <1>1 DEF Elsewhere, Coming, At
<1> QED
  BY <1>1, <1>2, <1>3, QueueUntold, Untold

-----------------------------------------------------------------------------
(* Steps of the connection and of the session.                             *)
LEMMA TodoKept ==
    ASSUME NEW Good, SInv(Good), UNCHANGED <<todo, lock, sub_cb, raced>>
    PROVE  /\ Named(Good)'
           /\ \A u \in AllThreads : HalfDone(u)' = HalfDone(u) /\ Coming(u)' = Coming(u)
           /\ Resubs' <=> Resubs
           /\ At(Io, "resubscribe")' <=> At(Io, "resubscribe")
<1>1. \A u \in AllThreads : /\ HalfDone(u)' = HalfDone(u) /\ Coming(u)' = Coming(u)
                            /\ HeadOK(Good, u)' <=> HeadOK(Good, u)
                            /\ \A do : At(u, do)' <=> At(u, do)
  BY SameThread
<1>2. TailsFresh(Good)'
  BY DEF SInv, Named, TailsFresh, Fresh
<1>3. Named(Good)'
  BY <1>1, <1>2 DEF SInv, Named
<1>4. Io \in AllThreads
  BY DEF AllThreads
<1> QED
  BY <1>1, <1>3, <1>4 DEF Resubs

LEMMA Untouched ==
    ASSUME NEW Good, SInv(Good),
           UNCHANGED <<todo, lock, sub_cb, raced, send_queue, writing, up, inbox, served>>
    PROVE  SInv(Good)'
<1>1. /\ Named(Good)'
      /\ \A u \in AllThreads : HalfDone(u)' = HalfDone(u) /\ Coming(u)' = Coming(u)
      /\ Resubs' <=> Resubs
      /\ At(Io, "resubscribe")' <=> At(Io, "resubscribe")
  BY TodoKept
<1>2. Bound'
  BY <1>1 DEF SInv, Bound
<1>3. Resubscribing'
  BY <1>1 DEF SInv, Resubscribing
<1>4. Agree'
  <2>1. \A x : Finally(x)' <=> Finally(x)
    BY DEF Finally, Rest
  <2> QED
    BY <1>1, <2>1 DEF SInv, Agree
<1> QED
  BY <1>1, <1>2, <1>3, <1>4 DEF SInv

LEMMA SyncDealReply ==
    ASSUME NEW Good, NamesOnly(Good), IInv, SInv(Good), DealReply
    PROVE  SInv(Good)'
<1>1. /\ todo[Io] = <<>> /\ Lists /\ Named(Good) /\ Io \in AllThreads
      /\ UNCHANGED <<sub_cb, raced, send_queue, writing, up, inbox, served>>
  BY DEF DealReply, IInv, SInv, linkVars, AllThreads
<1>2. PICK r : r = Head(outbox)
  OBVIOUS
<1>3. CASE UNCHANGED <<todo, lock>>
  BY <1>1, <1>3, Untouched
<1>4. CASE /\ r.id \in DOMAIN req_cb
           /\ todo' = [todo EXCEPT ![Io] = Append(Handlers[req_cb[r.id]], Unlock)]
           /\ DOMAIN lock' = DOMAIN lock
  <2>1. PICK c, q : c = req_cb[r.id] /\ q = Append(Handlers[c], Unlock)
    OBVIOUS
  <2>2. c \in Callbacks \cup Topics
    BY <1>4, <2>1 DEF IInv, Bindings
  <2>3. todo' = [todo EXCEPT ![Io] = q]
    BY <1>4, <2>1
  <2>4. OnlyThread(Good, Io) /\ HalfDone(Io)' = {} /\ Elsewhere(Io)'
    BY <1>1, <2>1, <2>2, <2>3, HandlerFresh DEF Elsewhere
  <2>5. Elsewhere(Io) /\ Coming(Io) = {} /\ ~At(Io, "resubscribe")
    BY <1>1 DEF Elsewhere, Coming, At
  <2> QED
    BY <1>1, <1>4, <2>4, <2>5, QueueUntold, Untold
<1>5. \/ UNCHANGED <<todo, lock>>
      \/ /\ r.id \in DOMAIN req_cb
         /\ todo' = [todo EXCEPT ![Io] = Append(Handlers[req_cb[r.id]], Unlock)]
         /\ DOMAIN lock' = DOMAIN lock
  BY <1>2 DEF DealReply
<1> QED
  BY <1>3, <1>4, <1>5

LEMMA SyncDealPublication ==
    ASSUME NEW Good, NamesOnly(Good), IInv, SInv(Good), DealPublication
    PROVE  SInv(Good)'
<1>1. /\ todo[Io] = <<>> /\ Lists /\ Named(Good) /\ Io \in AllThreads
      /\ UNCHANGED <<sub_cb, raced, send_queue, writing, up, inbox, served>>
  BY DEF DealPublication, IInv, SInv, linkVars, ghosts, AllThreads
<1>2. PICK pair : pair = Head(outbox).pair
  OBVIOUS
<1>3. CASE UNCHANGED <<todo, lock>>
  BY <1>1, <1>3, Untouched
<1>4. CASE /\ pair \in sub_cb
           /\ todo' = [todo EXCEPT ![Io] = Append(Handlers[pair[1]], Unlock)]
           /\ DOMAIN lock' = DOMAIN lock
  <2>1. PICK c, q : c = pair[1] /\ q = Append(Handlers[c], Unlock)
    OBVIOUS
  <2>2. c \in Callbacks \cup Topics
    BY <1>1, <1>4, <2>1 DEF Named
  <2>3. todo' = [todo EXCEPT ![Io] = q]
    BY <1>4, <2>1
  <2>4. OnlyThread(Good, Io) /\ HalfDone(Io)' = {} /\ Elsewhere(Io)'
    BY <1>1, <2>1, <2>2, <2>3, HandlerFresh DEF Elsewhere
  <2>5. Elsewhere(Io) /\ Coming(Io) = {} /\ ~At(Io, "resubscribe")
    BY <1>1 DEF Elsewhere, Coming, At
  <2> QED
    BY <1>1, <1>4, <2>4, <2>5, QueueUntold, Untold
<1>5. \/ UNCHANGED <<todo, lock>>
      \/ /\ pair \in sub_cb
         /\ todo' = [todo EXCEPT ![Io] = Append(Handlers[pair[1]], Unlock)]
         /\ DOMAIN lock' = DOMAIN lock
  BY <1>2 DEF DealPublication
<1> QED
  BY <1>3, <1>4, <1>5

LEMMA SyncSend ==
    ASSUME NEW Good, IInv, SInv(Good), Send
    PROVE  SInv(Good)'
<1>1. PICK h : h = Head(send_queue)
  OBVIOUS
<1>2. /\ send_queue # <<>> /\ ~writing /\ ~Resubs /\ List(send_queue) /\ List(inbox)
      /\ writing' = TRUE /\ inbox' = IF up THEN Append(inbox, h) ELSE inbox
      /\ UNCHANGED <<todo, lock, sub_cb, raced, send_queue, up, served>>
  BY <1>1 DEF Send, appVars, ghosts, IInv, Lists, Resubs
<1>3. /\ Named(Good)'
      /\ \A u \in AllThreads : HalfDone(u)' = HalfDone(u) /\ Coming(u)' = Coming(u)
      /\ Resubs' <=> Resubs
      /\ At(Io, "resubscribe")' <=> At(Io, "resubscribe")
  BY <1>2, TodoKept
<1>4. Bound'
  BY <1>2, <1>3 DEF SInv, Bound
<1>5. Resubscribing'
  BY <1>2, <1>3 DEF SInv, Resubscribing, Resubs
<1>6. Agree'
  <2> SUFFICES ASSUME up
               PROVE  \A x : Finally(x)' <=> Finally(x)
    BY <1>2, <1>3 DEF SInv, Agree
  <2>1. TAKE x
  <2>2. Rest = send_queue /\ Rest' = Tail(send_queue) /\ inbox' = Append(inbox, h)
    BY <1>2 DEF Rest
  <2>3. /\ LastSub(send_queue, x) <=> (LastSub(Tail(send_queue), x) \/ (Subs(h, x) /\ NoCancel(Tail(send_queue), x)))
        /\ NoCancel(send_queue, x) <=> (NoCancel(Tail(send_queue), x) /\ ~Cancels(h, x))
    BY <1>1, <1>2, SubsTail
  <2>4. /\ LastSub(inbox', x) <=> (Subs(h, x) \/ (LastSub(inbox, x) /\ ~Cancels(h, x)))
        /\ NoCancel(inbox', x) <=> (NoCancel(inbox, x) /\ ~Cancels(h, x))
    BY <1>2, <2>2, SubsAppend
  <2> QED
    BY <1>2, <2>2, <2>3, <2>4 DEF Finally
<1> QED
  BY <1>3, <1>4, <1>5, <1>6 DEF SInv

LEMMA SyncWritten ==
    ASSUME NEW Good, IInv, SInv(Good), Written
    PROVE  SInv(Good)'
<1>1. /\ writing /\ send_queue # <<>> /\ List(send_queue) /\ ~Resubs
      /\ writing' = FALSE /\ send_queue' = Tail(send_queue)
      /\ UNCHANGED <<todo, lock, sub_cb, raced, up, inbox, served>>
  BY DEF Written, appVars, serverVars, IInv, Lists, Resubs, At
<1>2. /\ Named(Good)'
      /\ \A u \in AllThreads : HalfDone(u)' = HalfDone(u) /\ Coming(u)' = Coming(u)
      /\ Resubs' <=> Resubs
      /\ At(Io, "resubscribe")' <=> At(Io, "resubscribe")
  BY <1>1, TodoKept
<1>3. \A x : LastSub(send_queue', x) => LastSub(send_queue, x)
  BY <1>1, SubsTail
<1>4. Bound'
  BY <1>1, <1>2, <1>3 DEF SInv, Bound
<1>5. Resubscribing'
  BY <1>1, <1>2 DEF SInv, Resubscribing, Resubs
<1>6. Agree'
  <2>1. Rest' = Rest
    BY <1>1 DEF Rest
  <2>2. \A x : Finally(x)' <=> Finally(x)
    BY <1>1, <2>1 DEF Finally
  <2> QED
    BY <1>1, <1>2, <2>2 DEF SInv, Agree
<1> QED
  BY <1>2, <1>4, <1>5, <1>6 DEF SInv

LEMMA SyncLose ==
    ASSUME NEW Good, IInv, SInv(Good), Lose
    PROVE  SInv(Good)'
<1>1. /\ up' = FALSE /\ inbox' = <<>> /\ served' = {}
      /\ UNCHANGED <<todo, lock, sub_cb, raced, send_queue, writing>>
  BY DEF Lose, appVars
<1>2. /\ Named(Good)'
      /\ \A u \in AllThreads : HalfDone(u)' = HalfDone(u) /\ Coming(u)' = Coming(u)
      /\ Resubs' <=> Resubs
      /\ At(Io, "resubscribe")' <=> At(Io, "resubscribe")
  BY <1>1, TodoKept
<1>3. Bound'
  BY <1>1, <1>2 DEF SInv, Bound
<1>4. Resubscribing'
  BY <1>1, <1>2 DEF SInv, Resubscribing
<1>5. Agree'
  BY <1>1 DEF Agree
<1> QED
  BY <1>2, <1>3, <1>4, <1>5 DEF SInv

LEMMA SyncReconnect ==
    ASSUME NEW Good, IInv, SInv(Good), Reconnect
    PROVE  SInv(Good)'
<1>1. /\ ~up /\ Lists /\ Named(Good) /\ Io \in AllThreads
      /\ writing' = FALSE /\ todo' = [todo EXCEPT ![Io] = <<Lock>>]
      /\ send_queue' = IF send_queue = <<>> THEN <<KeepAlived>> ELSE send_queue
      /\ UNCHANGED <<lock, sub_cb, raced, inbox, served>>
  BY DEF Reconnect, QueueAfterError, IInv, SInv, AllThreads
<1>2. PICK s, q : s = Lock /\ q = <<s>>
  OBVIOUS
<1>3. q # <<>> /\ Head(q) = s /\ Tail(q) = <<>> /\ s.do = "lock"
  BY <1>2 DEF Lock
<1>4. todo' = [todo EXCEPT ![Io] = q] /\ todo'[Io] = q
  BY <1>1, <1>2 DEF Lists
<1>5. /\ At(Io, "lock")' /\ ~At(Io, "resubscribe")' /\ HeadOK(Good, Io)'
      /\ HalfDone(Io)' = {}
  BY <1>3, <1>4 DEF At, HeadOK, HalfDone
<1>6. AllFresh(Good, Tail(q))
  BY <1>3, EmptyList DEF AllFresh
<1>7. OnlyThread(Good, Io)
  BY <1>1, <1>4, <1>5, <1>6, ThreadSet
<1>8. \A v \in AllThreads \ {Io} : HalfDone(v)' = HalfDone(v)
  BY <1>7, SameThread DEF OnlyThread
<1>9. Named(Good)'
  BY <1>1, <1>7 DEF OnlyThread, Named
<1>10. \A x : LastSub(send_queue', x) => LastSub(send_queue, x)
  <2>1. PICK p : p = KeepAlived
    OBVIOUS
  <2>2. \A x : ~LastSub(<<p>>, x)
    BY <2>1, SubsOne DEF KeepAlived
  <2> QED
    BY <1>1, <2>1, <2>2
<1>11. Bound'
  BY <1>1, <1>5, <1>8, <1>10 DEF SInv, Bound
<1>12. Resubscribing'
  BY <1>1, <1>5 DEF SInv, Resubscribing
<1>13. Agree'
  BY <1>5 DEF Agree, Resubs
<1> QED
  BY <1>9, <1>11, <1>12, <1>13 DEF SInv

LEMMA SyncServerDeal ==
    ASSUME NEW Good, IInv, SInv(Good), ServerDeal
    PROVE  SInv(Good)'
<1>1. PICK h : h = Head(inbox)
  OBVIOUS
<1>2. /\ inbox # <<>> /\ List(inbox) /\ inbox' = Tail(inbox)
      /\ UNCHANGED <<todo, lock, sub_cb, raced, send_queue, writing, up>>
  BY DEF ServerDeal, appVars, linkVars, ghosts, IInv, Lists
<1>3. \A x : x \in served' <=> (Subs(h, x) \/ (x \in served /\ ~Cancels(h, x)))
  BY <1>1 DEF ServerDeal, Subs, Cancels
<1>4. ~Resubs /\ up
  BY <1>2 DEF SInv, Resubscribing
<1>5. /\ Named(Good)'
      /\ \A u \in AllThreads : HalfDone(u)' = HalfDone(u) /\ Coming(u)' = Coming(u)
      /\ Resubs' <=> Resubs
      /\ At(Io, "resubscribe")' <=> At(Io, "resubscribe")
  BY <1>2, TodoKept
<1>6. Bound'
  BY <1>2, <1>5 DEF SInv, Bound
<1>7. Resubscribing'
  BY <1>2, <1>4, <1>5 DEF Resubscribing, Resubs
<1>8. Agree'
  <2>1. \A x : /\ LastSub(inbox, x) <=> (LastSub(inbox', x) \/ (Subs(h, x) /\ NoCancel(inbox', x)))
               /\ NoCancel(inbox, x) <=> (NoCancel(inbox', x) /\ ~Cancels(h, x))
    BY <1>1, <1>2, SubsTail
  <2>2. Rest' = Rest
    BY <1>2 DEF Rest
  <2>3. \A x : ~(Subs(h, x) /\ Cancels(h, x))
    BY DEF Subs, Cancels
  <2>4. \A x : Finally(x)' <=> Finally(x)
    BY <1>3, <2>1, <2>2, <2>3 DEF Finally
  <2> QED
    BY <1>2, <1>5, <2>4 DEF SInv, Agree
<1> QED
  BY <1>5, <1>6, <1>7, <1>8 DEF SInv

-----------------------------------------------------------------------------
LEMMA InitSync ==
    ASSUME NEW Good, NamesOnly(Good), Init
    PROVE  SInv(Good)
<1>1. PICK p \in Programs : todo = [t \in AllThreads |-> IF t = Io THEN <<>> ELSE p[t]]
  BY DEF Init
<1>2. \A t \in AllThreads : List(todo[t]) /\ AllFresh(Good, todo[t])
  <2>1. TAKE t \in AllThreads
  <2>2. CASE t = Io
    BY <1>1, <2>2, EmptyList DEF AllFresh
  <2>3. CASE t # Io
    <3>1. t \in Threads /\ todo[t] = p[t]
      BY <1>1, <2>3 DEF AllThreads
    <3>2. p[t] \in Seq(ApiStep)
      BY <3>1, ApiAssumption
    <3> QED
      BY <3>1, <3>2, ListOf DEF NamesOnly, AllFresh
  <2> QED
    BY <2>2, <2>3
<1>3. \A t \in AllThreads : todo[t] # <<>> => Fresh(Good, Head(todo[t])) /\ AllFresh(Good, Tail(todo[t]))
  BY <1>2, ListTail DEF AllFresh
<1>4. TailsFresh(Good)
  BY <1>3 DEF TailsFresh, AllFresh
<1>5. ASSUME NEW t \in AllThreads
      PROVE  /\ HeadOK(Good, t) /\ HalfDone(t) = {}
             /\ ~At(t, "lock") /\ ~At(t, "resubscribe")
  <2>1. ~At(t, "lock") /\ ~At(t, "resubscribe") /\ ~At(t, "write")
    BY <1>3 DEF At, Fresh
  <2>2. At(t, "subscribe") => Fresh(Good, Head(todo[t])) /\ Head(todo[t]).do = "subscribe"
    BY <1>3 DEF At
  <2>3. HalfDone(t) = {}
    BY <2>1, <2>2 DEF HalfDone, Fresh
  <2>4. HeadOK(Good, t)
    BY <2>1, <2>2 DEF HeadOK, Fresh
  <2> QED
    BY <2>1, <2>3, <2>4
<1>6. ~Resubs /\ ~At(Io, "resubscribe")
  BY <1>5 DEF Resubs, AllThreads
<1>7. /\ DOMAIN lock = {"req", "sub"} /\ sub_cb = {} /\ send_queue = <<>> /\ writing = FALSE
      /\ up = TRUE /\ inbox = <<>> /\ served = {}
  BY DEF Init
<1>8. Named(Good)
  BY <1>4, <1>5, <1>7 DEF Named
<1>9. Bound
  BY <1>5, <1>7, SubsEmpty DEF Bound
<1>10. Resubscribing
  BY <1>6, <1>7 DEF Resubscribing
<1>11. Agree
  BY <1>7, SubsEmpty DEF Agree, Finally, Rest
<1> QED
  BY <1>8, <1>9, <1>10, <1>11 DEF SInv

LEMMA NextSync ==
    ASSUME NEW Good, NamesOnly(Good), Good \subseteq WholeTags
    PROVE  IInv /\ TInv /\ SInv(Good) /\ [Next]_vars => SInv(Good)'
<1> SUFFICES ASSUME IInv, TInv, SInv(Good), [Next]_vars
             PROVE  SInv(Good)'
  OBVIOUS
<1>1. ASSUME NEW t \in AllThreads, Step(t)
      PROVE  SInv(Good)'
  BY <1>1, SyncBindCb, SyncWritePacket, SyncSetCallback, SyncCancelSubscribe DEF Step
<1>2. CASE IoStep
  BY <1>2, SyncLockSubs, SyncReSubscribeTopic, SyncReSubscribeSend, SyncRelease DEF IoStep
<1>3. CASE DealReply \/ DealPublication
  BY <1>3, SyncDealReply, SyncDealPublication
<1>4. CASE Send \/ Written \/ Lose \/ Reconnect
  BY <1>4, SyncSend, SyncWritten, SyncLose, SyncReconnect
<1>5. CASE ServerDeal
  BY <1>5, SyncServerDeal
<1>6. CASE Respond \/ Publish
  BY <1>6, Untouched DEF Respond, Publish, appVars, linkVars, ghosts
<1>7. CASE UNCHANGED vars
  BY <1>7, Untouched DEF vars, appVars, linkVars, serverVars, ghosts
<1> QED
  BY <1>1, <1>2, <1>3, <1>4, <1>5, <1>6, <1>7 DEF Next

LEMMA SyncWhenQuiet ==
    ASSUME NEW Good, IInv, SInv(Good)
    PROVE  SubsInSync
<1> SUFFICES ASSUME Quiet
             PROVE  sub_cb \ raced = served \ raced
  BY DEF SubsInSync
<1>1. \A u \in AllThreads : todo[u] = <<>>
  BY DEF Quiet
<1>2. (\A u \in AllThreads : Coming(u) = {}) /\ ~Resubs /\ up
  BY <1>1 DEF Coming, At, Resubs, Quiet, AllThreads
<1>3. ~writing /\ send_queue = <<>> /\ inbox = <<>>
  BY DEF Quiet, IInv, Lists
<1>4. \A x : Finally(x) <=> x \in served
  BY <1>3, SubsEmpty DEF Finally, Rest
<1>5. \A x : x \notin raced => (x \in served <=> x \in sub_cb)
  BY <1>2, <1>4 DEF SInv, Agree
<1> QED
  BY <1>5

(* The tags that applications and handlers subscribe to, once subscribe()  *)
(* has cut them out of what it is given, do not end in a bar.              *)
Whole(s) ==
    s.do = "subscribe" => \A i \in DOMAIN Split(s.tags) : ~EndsInBar(Split(s.tags)[i])

NoBarAtTheEnd ==
    /\ \A p \in Programs, t \in Threads : \A s \in ElementsOf(p[t]) : Whole(s)
    /\ \A c \in Callbacks \cup Topics : \A s \in ElementsOf(Handlers[c]) : Whole(s)

LEMMA WholeNames ==
    ASSUME NoBarAtTheEnd
    PROVE  NamesOnly(WholeTags)
<1>1. ASSUME NEW s \in ApiStep, Whole(s)
      PROVE  Fresh(WholeTags, s)
  <2>1. CASE s.do = "subscribe"
    <3>1. s.topic \in Topics /\ s.tags \in Seq(Characters) /\ s.left = Split(s.tags)
      BY <2>1 DEF ApiStep
    <3>2. PICK q : q = Split(s.tags)
      OBVIOUS
    <3>3. q \in Seq(Plain(Characters)) /\ q # <<>>
      BY <3>1, <3>2, SplitIsPlain
    <3>4. ElementsOf(q) \subseteq WholeTags
      <4>1. \A i \in DOMAIN q : q[i] \in Plain(Characters)
        BY <3>3, ElementOfSeq, LenProperties
      <4>2. \A i \in DOMAIN q : ~EndsInBar(q[i])
        BY <1>1, <2>1, <3>2 DEF Whole
      <4> QED
        BY <4>1, <4>2 DEF ElementsOf, WholeTags
    <3>5. q \in Seq(WholeTags)
      BY <3>3, <3>4, ListOf, SeqMonotonic DEF List
    <3> QED
      BY <2>1, <3>1, <3>2, <3>3, <3>5 DEF Fresh
  <2>2. CASE s.do # "subscribe"
    BY <2>2 DEF ApiStep, Fresh
  <2> QED
    BY <2>1, <2>2
<1>2. ASSUME NEW p \in Programs, NEW t \in Threads, NEW s \in ElementsOf(p[t])
      PROVE  Fresh(WholeTags, s)
  <2>1. p[t] \in Seq(ApiStep)
    BY ApiAssumption
  <2>2. s \in ApiStep
    BY <2>1, ListOf
  <2> QED
    BY <1>1, <2>2 DEF NoBarAtTheEnd
<1>3. ASSUME NEW c \in Callbacks \cup Topics, NEW s \in ElementsOf(Handlers[c])
      PROVE  Fresh(WholeTags, s)
  <2>1. Handlers[c] \in Seq(ApiStep)
    BY ApiAssumption
  <2>2. s \in ApiStep
    BY <2>1, ListOf
  <2> QED
    BY <1>1, <2>2 DEF NoBarAtTheEnd
<1> QED
  BY <1>2, <1>3 DEF NamesOnly

(* When nothing is left to do, the session has the subscriptions that the  *)
(* client has callbacks for: for any number of threads and of losses,      *)
(* whatever callbacks do, and for any topics and tags, but for tags that   *)
(* end in a bar, which re_subscribe() changes.  A pair that is cancelled   *)
(* inside another thread's subscribe() is left out.                        *)
THEOREM SubscriptionsAgree ==
    ASSUME NoBarAtTheEnd
    PROVE  Spec => []SubsInSync
<1>1. Init => SInv(WholeTags)
  BY WholeNames, InitSync
<1>2. IInv /\ TInv /\ SInv(WholeTags) /\ [Next]_vars => SInv(WholeTags)'
  BY WholeNames, NextSync
<1>3. IInv /\ SInv(WholeTags) => SubsInSync
  BY SyncWhenQuiet
<1> QED
  BY <1>1, <1>2, <1>3, Inductive, TypedAlways, PTL DEF Spec
=============================================================================
