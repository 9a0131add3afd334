------------------------- MODULE ClientApi_proofs --------------------------
(***************************************************************************)
(* Proofs about the callbacks of calls, for any threads, programs and      *)
(* handlers, and any number of losses.                                     *)
(***************************************************************************)
EXTENDS ClientApi, TagList_proofs

-----------------------------------------------------------------------------
(* Every request that is written, on its way, worked on or answered has an *)
(* id that was given to it alone: if a callback is bound to the id, it is  *)
(* that of the request.                                                    *)
Owned(p) ==
    /\ p.id \in 1 .. message_id - 1
    /\ p.id \in DOMAIN req_cb => req_cb[p.id] = p.call

StepOK(s) ==
    /\ s.do = "call" => s.call \in Callbacks
    /\ s.do = "subscribe" => s.topic \in Topics
    /\ (s.do = "write" /\ s.packet.type = "req_res") => Owned(s.packet)

PacketOK(p) == p.type = "req_res" => Owned(p)

Lists ==
    /\ DOMAIN todo = AllThreads
    /\ \A t \in AllThreads : List(todo[t])
    /\ List(send_queue) /\ List(inbox) /\ List(outbox) /\ List(answers)
    /\ writing => send_queue # <<>>

Bindings ==
    /\ message_id \in Nat \ {0}
    /\ DOMAIN req_cb \subseteq 1 .. message_id - 1
    /\ \A id \in DOMAIN req_cb : req_cb[id] \in Callbacks
    /\ \A pair \in sub_cb : pair[1] \in Topics

StepsOK == \A t \in AllThreads : \A s \in ElementsOf(todo[t]) : StepOK(s)

Packets == ElementsOf(send_queue) \cup ElementsOf(inbox) \cup running \cup ElementsOf(outbox)

PacketsOK == \A p \in Packets : PacketOK(p)

(* What has been answered was given an id, and has no callback any more.   *)
Answered ==
    \A i \in DOMAIN answers :
        answers[i].id \in 1 .. message_id - 1 /\ answers[i].id \notin DOMAIN req_cb

IInv == Lists /\ Bindings /\ StepsOK /\ PacketsOK /\ Answered /\ OwnReply /\ CalledOnce

(* Programs and handlers consist of steps in order.                        *)
LEMMA ApiSteps ==
    ASSUME NEW q \in Seq(ApiStep)
    PROVE  List(q) /\ \A s \in ElementsOf(q) : StepOK(s)
<1>1. List(q) /\ ElementsOf(q) \subseteq ApiStep
  BY ListOf
<1>2. \A s \in ApiStep : StepOK(s)
  BY DEF ApiStep, StepOK
<1> QED
  BY <1>1, <1>2

LEMMA InitIInv == Init => IInv
<1> SUFFICES ASSUME Init PROVE IInv
  OBVIOUS
<1>1. PICK p \in Programs : todo = [t \in AllThreads |-> IF t = Io THEN <<>> ELSE p[t]]
  BY DEF Init
<1>2. ASSUME NEW t \in AllThreads
      PROVE  List(todo[t]) /\ \A s \in ElementsOf(todo[t]) : StepOK(s)
  <2>1. CASE t = Io
    <3>1. todo[t] = <<>>
      BY <1>1, <2>1
    <3> QED
      BY <3>1, EmptyList
  <2>2. CASE t # Io
    <3>1. p \in [Threads -> Seq(ApiStep)] /\ t \in Threads
      BY <2>2, ApiAssumption DEF AllThreads
    <3>2. todo[t] = p[t] /\ p[t] \in Seq(ApiStep)
      BY <1>1, <2>2, <3>1
    <3> QED
      BY <3>2, ApiSteps
  <2> QED
    BY <2>1, <2>2
<1>3. Lists
  BY <1>1, <1>2, EmptyList DEF Init, Lists
<1>4. DOMAIN req_cb = {} /\ DOMAIN answers = {}
  BY DEF Init
<1> QED
  BY <1>2, <1>3, <1>4, EmptyList
  DEF Init, IInv, Bindings, StepsOK, PacketsOK, Packets, Answered, OwnReply, CalledOnce

-----------------------------------------------------------------------------
(* What is owned stays owned, as long as ids are only handed out and       *)
(* callbacks are only bound to the id handed out, or removed.              *)
Onwards ==
    /\ message_id' \in {message_id, message_id + 1}
    /\ \A id \in DOMAIN req_cb' :
          id # message_id => id \in DOMAIN req_cb /\ req_cb'[id] = req_cb[id]

LEMMA OwnedStays ==
    ASSUME Bindings, Onwards, NEW p, Owned(p)
    PROVE  Owned(p)'
BY DEF Bindings, Onwards, Owned

LEMMA StepStays ==
    ASSUME Bindings, Onwards, NEW s, StepOK(s)
    PROVE  StepOK(s)'
BY OwnedStays DEF StepOK

LEMMA PacketStays ==
    ASSUME Bindings, Onwards, NEW p, PacketOK(p)
    PROVE  PacketOK(p)'
BY OwnedStays DEF PacketOK

LEMMA AnsweredStays ==
    ASSUME Bindings, Onwards, Answered, UNCHANGED answers
    PROVE  Answered'
BY DEF Bindings, Onwards, Answered

(* What is left to do of thread t is now q; or steps come before the rest. *)
TodoOK ==
    /\ DOMAIN todo = AllThreads
    /\ \A u \in AllThreads : List(todo[u])
    /\ StepsOK

LEMMA TodoSet ==
    ASSUME TodoOK, Bindings, Onwards, NEW t \in AllThreads,
           NEW q, todo' = [todo EXCEPT ![t] = q],
           List(q), \A s \in ElementsOf(q) : StepOK(s)'
    PROVE  TodoOK'
<1>1. DOMAIN todo' = AllThreads
  BY DEF TodoOK
<1>2. ASSUME NEW u \in AllThreads
      PROVE  List(todo'[u]) /\ \A s \in ElementsOf(todo'[u]) : StepOK(s)'
  <2>1. CASE u = t
    BY <2>1 DEF TodoOK
  <2>2. CASE u # t
    <3>1. todo'[u] = todo[u]
      BY <2>2 DEF TodoOK
    <3> QED
      BY <3>1, StepStays DEF TodoOK, StepsOK
  <2> QED
    BY <2>1, <2>2
<1> QED
  BY <1>1, <1>2 DEF TodoOK, StepsOK

LEMMA GoesOK ==
    ASSUME TodoOK, Bindings, Onwards, NEW t \in AllThreads, todo[t] # <<>>,
           NEW steps, Goes(t, steps), List(steps), \A s \in ElementsOf(steps) : StepOK(s)'
    PROVE  TodoOK'
<1> DEFINE q == steps \o Tail(todo[t])
<1>1. todo' = [todo EXCEPT ![t] = q]
  BY DEF Goes
<1>2. List(Tail(todo[t])) /\ ElementsOf(Tail(todo[t])) \subseteq ElementsOf(todo[t])
  BY ListTail DEF TodoOK
<1>3. List(q) /\ ElementsOf(q) \subseteq ElementsOf(steps) \cup ElementsOf(todo[t])
  BY <1>2, ListConcat
<1>4. \A s \in ElementsOf(todo[t]) : StepOK(s)'
  BY StepStays DEF TodoOK, StepsOK
<1>5. \A s \in ElementsOf(q) : StepOK(s)'
  BY <1>3, <1>4
<1> HIDE DEF q
<1> QED
  BY <1>1, <1>3, <1>5, TodoSet

LEMMA GoesOne ==
    ASSUME Lists, StepsOK, Bindings, Onwards, NEW t \in AllThreads, todo[t] # <<>>,
           NEW s, Goes(t, <<s>>), StepOK(s)'
    PROVE  TodoOK'
<1>1. List(<<s>>) /\ \A e \in ElementsOf(<<s>>) : StepOK(e)'
  BY OneElement
<1>2. TodoOK
  BY DEF TodoOK, Lists
<1> QED
  BY <1>1, <1>2, GoesOK

LEMMA GoesAway ==
    ASSUME Lists, StepsOK, Bindings, Onwards, NEW t \in AllThreads, todo[t] # <<>>,
           Goes(t, <<>>)
    PROVE  TodoOK'
<1>1. TodoOK
  BY DEF TodoOK, Lists
<1> QED
  BY <1>1, EmptyList, GoesOK

(* A callback is called.                                                   *)
LEMMA TodoHandler ==
    ASSUME Lists, StepsOK, Bindings, Onwards, NEW h \in Seq(ApiStep),
           NEW q, q = Append(h, Unlock), todo' = [todo EXCEPT ![Io] = q]
    PROVE  TodoOK'
<1>1. List(h) /\ \A s \in ElementsOf(h) : StepOK(s)'
  BY ApiSteps, StepStays
<1>2. PICK u : u = Unlock
  OBVIOUS
<1>3. StepOK(u)'
  BY <1>2 DEF StepOK, Unlock
<1>4. List(q) /\ ElementsOf(q) \subseteq ElementsOf(h) \cup {u}
  BY <1>1, <1>2, ListAppend
<1>5. Io \in AllThreads /\ TodoOK
  BY DEF AllThreads, TodoOK, Lists
<1> QED
  BY <1>1, <1>3, <1>4, <1>5, TodoSet

LEMMA TodoSame ==
    ASSUME TodoOK, Bindings, Onwards, UNCHANGED todo
    PROVE  TodoOK'
BY StepStays DEF TodoOK, StepsOK

(* Packets move from one place to another; one may be new.               *)
LEMMA PacketsStay ==
    ASSUME PacketsOK, Bindings, Onwards,
           NEW p, Packets' \subseteq Packets \cup {p}, PacketOK(p)'
    PROVE  PacketsOK'
BY PacketStays DEF PacketsOK

LEMMA PacketsSame ==
    ASSUME PacketsOK, Bindings, Onwards, Packets' \subseteq Packets
    PROVE  PacketsOK'
BY PacketStays DEF PacketsOK

(* Without an answer, these are all the facts.                             *)
LEMMA Quietly ==
    ASSUME IInv, Onwards, Bindings', TodoOK', PacketsOK', UNCHANGED answers,
           List(send_queue'), List(inbox'), List(outbox'), writing' => send_queue' # <<>>
    PROVE  IInv'
<1>1. Answered'
  BY AnsweredStays DEF IInv
<1>2. OwnReply' /\ CalledOnce'
  BY DEF IInv, OwnReply, CalledOnce
<1>3. Lists'
  BY DEF IInv, Lists, TodoOK
<1> QED
  BY <1>1, <1>2, <1>3 DEF IInv, TodoOK

LEMMA HeadStep ==
    ASSUME IInv, NEW t \in AllThreads, todo[t] # <<>>
    PROVE  StepOK(Head(todo[t]))
BY ListTail DEF IInv, Lists, StepsOK

-----------------------------------------------------------------------------
(* The steps of threads.                                                   *)
LEMMA StepBindCb ==
    ASSUME IInv, NEW t \in AllThreads, BindCb(t)
    PROVE  IInv'
<1>0. PICK k, r, w : k = Head(todo[t]).call /\ r = Request(message_id, k) /\ w = Write(r)
  OBVIOUS
<1>1. todo[t] # <<>> /\ k \in Callbacks
  BY <1>0, HeadStep DEF BindCb, At, StepOK
<1>2. /\ message_id' = message_id + 1
      /\ DOMAIN req_cb' \subseteq DOMAIN req_cb \cup {message_id}
      /\ \A id \in DOMAIN req_cb' : req_cb'[id] = IF id = message_id THEN k ELSE req_cb[id]
  BY <1>0 DEF BindCb, NextId, IInv, Bindings
<1>3. Onwards
  BY <1>2 DEF Onwards
<1>4. Bindings'
  <2>1. DOMAIN req_cb' \subseteq 1 .. message_id' - 1
    BY <1>2 DEF IInv, Bindings
  <2>2. \A id \in DOMAIN req_cb' : req_cb'[id] \in Callbacks
    BY <1>1, <1>2 DEF IInv, Bindings
  <2>3. message_id' \in Nat \ {0} /\ \A pair \in sub_cb' : pair[1] \in Topics
    BY <1>2 DEF BindCb, IInv, Bindings
  <2> QED
    BY <2>1, <2>2, <2>3 DEF Bindings
<1>5. Owned(r)'
  BY <1>0, <1>2 DEF Owned, Request, IInv, Bindings
<1>6. StepOK(w)'
  BY <1>0, <1>5 DEF StepOK, Write
<1>7. Goes(t, <<w>>)
  BY <1>0 DEF BindCb
<1>8. TodoOK'
  BY <1>1, <1>3, <1>6, <1>7, GoesOne DEF IInv
<1>9. PacketsOK'
  BY <1>3, PacketsSame DEF BindCb, linkVars, serverVars, IInv, Packets
<1> QED
  BY <1>3, <1>4, <1>8, <1>9, Quietly DEF BindCb, linkVars, serverVars, ghosts, IInv, Lists

LEMMA StepWritePacket ==
    ASSUME IInv, NEW t \in AllThreads, WritePacket(t)
    PROVE  IInv'
<1>0. PICK p : p = Head(todo[t]).packet
  OBVIOUS
<1>1. todo[t] # <<>> /\ PacketOK(p)
  BY <1>0, HeadStep DEF WritePacket, At, StepOK, PacketOK
<1>2. Onwards /\ Bindings'
  BY DEF WritePacket, Onwards, IInv, Bindings
<1>3. TodoOK'
  BY <1>1, <1>2, GoesAway DEF WritePacket, IInv
<1>4. /\ List(send_queue') /\ send_queue' # <<>>
      /\ ElementsOf(send_queue') \subseteq ElementsOf(send_queue) \cup {p}
  BY <1>0, ListAppend DEF WritePacket, IInv, Lists
<1>5. PacketOK(p)'
  BY <1>1, <1>2, PacketStays DEF IInv
<1>6. Packets' \subseteq Packets \cup {p}
  BY <1>4 DEF WritePacket, serverVars, Packets
<1>7. PacketsOK'
  BY <1>2, <1>5, <1>6, PacketsStay DEF IInv
<1> QED
  BY <1>2, <1>3, <1>4, <1>7, Quietly DEF WritePacket, serverVars, ghosts, IInv, Lists

LEMMA StepSetCallback ==
    ASSUME IInv, NEW t \in AllThreads, SetCallback(t)
    PROVE  IInv'
<1>0. PICK s, e :
        /\ s = Head(todo[t])
        /\ e = IF Len(s.left) > 1
               THEN Subscribing(s.topic, s.tags, Tail(s.left))
               ELSE Write(Sub(s.topic, s.tags))
  OBVIOUS
<1>1. todo[t] # <<>> /\ s.topic \in Topics
  BY <1>0, HeadStep DEF SetCallback, At, StepOK
<1>2. Onwards /\ Bindings'
  <2>1. sub_cb' = sub_cb \cup {<<s.topic, Head(s.left)>>}
    BY <1>0 DEF SetCallback
  <2>2. \A pair \in sub_cb' : pair[1] \in Topics
    BY <1>1, <2>1 DEF IInv, Bindings
  <2> QED
    BY <2>2 DEF SetCallback, Onwards, IInv, Bindings
<1>3. StepOK(e)'
  <2>1. StepOK(Subscribing(s.topic, s.tags, Tail(s.left)))'
    BY <1>1 DEF StepOK, Subscribing
  <2>2. StepOK(Write(Sub(s.topic, s.tags)))'
    BY DEF StepOK, Write, Sub
  <2> QED
    BY <1>0, <2>1, <2>2
<1>4. Goes(t, <<e>>)
  BY <1>0 DEF SetCallback
<1>6. TodoOK'
  BY <1>1, <1>2, <1>3, <1>4, GoesOne DEF IInv
<1>7. PacketsOK'
  BY <1>2, PacketsSame DEF SetCallback, linkVars, serverVars, IInv, Packets
<1> QED
  BY <1>2, <1>6, <1>7, Quietly DEF SetCallback, linkVars, serverVars, ghosts, IInv, Lists

LEMMA StepCancelSubscribe ==
    ASSUME IInv, NEW t \in AllThreads, CancelSubscribe(t)
    PROVE  IInv'
<1>0. PICK p : p = CancelSub(Head(todo[t]).topic, Head(todo[t]).tags)
  OBVIOUS
<1>1. todo[t] # <<>> /\ Goes(t, <<>>)
  BY DEF CancelSubscribe, At
<1>2. sub_cb' \subseteq sub_cb
  BY DEF CancelSubscribe
<1>3. Onwards /\ Bindings'
  BY <1>2 DEF CancelSubscribe, Onwards, IInv, Bindings
<1>4. TodoOK'
  BY <1>1, <1>3, GoesAway DEF IInv
<1>5. send_queue' = send_queue \/ send_queue' = Append(send_queue, p)
  BY <1>0 DEF CancelSubscribe
<1>6. PacketOK(p)'
  BY <1>0 DEF PacketOK, CancelSub
<1>7. /\ List(send_queue') /\ (writing' => send_queue' # <<>>)
      /\ ElementsOf(send_queue') \subseteq ElementsOf(send_queue) \cup {p}
  BY <1>5, ListAppend DEF CancelSubscribe, IInv, Lists
<1>8. Packets' \subseteq Packets \cup {p}
  BY <1>7 DEF CancelSubscribe, serverVars, Packets
<1>9. PacketsOK'
  BY <1>3, <1>6, <1>8, PacketsStay DEF IInv
<1>10. UNCHANGED <<inbox, outbox, answers>>
  BY DEF CancelSubscribe, serverVars
<1> QED
  BY <1>3, <1>4, <1>7, <1>9, <1>10, Quietly DEF IInv, Lists

-----------------------------------------------------------------------------
(* The steps of the io thread.                                             *)
LEMMA StepIo ==
    ASSUME IInv, IoStep
    PROVE  IInv'
<1>0. Io \in AllThreads
  BY DEF AllThreads
<1>1. Onwards /\ Bindings'
  BY DEF IoStep, LockSubs, ReSubscribeTopic, ReSubscribeSend, Release, Onwards, IInv, Bindings
<1>2. todo[Io] # <<>>
  BY DEF IoStep, LockSubs, ReSubscribeTopic, ReSubscribeSend, Release, At
<1>3. CASE LockSubs
  <2>1. PICK d, e : d = ReSubscribing(TopicsOf(sub_cb)) /\ e = Unlock
    OBVIOUS
  <2>2. StepOK(d)' /\ StepOK(e)' /\ Goes(Io, <<d, e>>)
    BY <1>3, <2>1 DEF LockSubs, StepOK, ReSubscribing, Unlock
  <2>3. List(<<d, e>>) /\ \A s \in ElementsOf(<<d, e>>) : StepOK(s)'
    BY <2>2, TwoElements
  <2>4. TodoOK'
    BY <1>0, <1>1, <1>2, <2>2, <2>3, GoesOK DEF IInv, TodoOK, Lists
  <2>5. PacketsOK'
    BY <1>1, <1>3, PacketsSame DEF LockSubs, linkVars, serverVars, IInv, Packets
  <2> QED
    BY <1>1, <1>3, <2>4, <2>5, Quietly
    DEF LockSubs, linkVars, serverVars, ghosts, IInv, Lists
<1>4. CASE ReSubscribeTopic
  <2>1. PICK topic \in Head(todo[Io]).topics :
          /\ \E list \in Orders(TagsOf(sub_cb, topic)) :
                send_queue' = Append(send_queue, Sub(topic, Join(list)))
          /\ Goes(Io, <<ReSubscribing(Head(todo[Io]).topics \ {topic})>>)
    BY <1>4 DEF ReSubscribeTopic
  <2>2. PICK list : send_queue' = Append(send_queue, Sub(topic, Join(list)))
    BY <2>1
  <2>3. PICK d, p :
          /\ d = ReSubscribing(Head(todo[Io]).topics \ {topic})
          /\ p = Sub(topic, Join(list))
    OBVIOUS
  <2>4. /\ StepOK(d)' /\ PacketOK(p)'
        /\ Goes(Io, <<d>>) /\ send_queue' = Append(send_queue, p)
    BY <2>1, <2>2, <2>3 DEF StepOK, PacketOK, ReSubscribing, Sub
  <2>5. TodoOK'
    BY <1>0, <1>1, <1>2, <2>4, GoesOne DEF IInv
  <2>6. /\ List(send_queue') /\ send_queue' # <<>>
        /\ ElementsOf(send_queue') \subseteq ElementsOf(send_queue) \cup {p}
    BY <2>4, ListAppend DEF IInv, Lists
  <2>7. Packets' \subseteq Packets \cup {p}
    BY <1>4, <2>6 DEF ReSubscribeTopic, serverVars, Packets
  <2>8. PacketsOK'
    BY <1>1, <2>4, <2>7, PacketsStay DEF IInv
  <2> QED
    BY <1>1, <1>4, <2>5, <2>6, <2>8, Quietly
    DEF ReSubscribeTopic, serverVars, ghosts, IInv, Lists
<1>5. CASE ReSubscribeSend \/ Release
  <2>1. TodoOK'
    BY <1>0, <1>1, <1>2, <1>5, GoesAway DEF ReSubscribeSend, Release, IInv
  <2>2. PacketsOK'
    BY <1>1, <1>5, PacketsSame
    DEF ReSubscribeSend, Release, linkVars, serverVars, IInv, Packets
  <2> QED
    BY <1>1, <1>5, <2>1, <2>2, Quietly
    DEF ReSubscribeSend, Release, linkVars, serverVars, ghosts, IInv, Lists
<1> QED
  BY <1>3, <1>4, <1>5 DEF IoStep

-----------------------------------------------------------------------------
(* The client deals with what arrives.                                     *)
LEMMA StepDealReply ==
    ASSUME IInv, DealReply
    PROVE  IInv'
<1>0. PICK r : r = Head(outbox)
  OBVIOUS
<1>1. /\ PacketOK(r) /\ List(outbox') /\ ElementsOf(outbox') \subseteq ElementsOf(outbox)
  BY <1>0, ListTail DEF DealReply, IInv, Lists, PacketsOK, Packets
<1>2. Owned(r)
  BY <1>0, <1>1 DEF DealReply, PacketOK
<1>3. CASE r.id \notin DOMAIN req_cb
  <2>1. UNCHANGED <<todo, lock, req_cb, answers>>
    BY <1>0, <1>3 DEF DealReply
  <2>2. Onwards /\ Bindings'
    BY <2>1 DEF DealReply, Onwards, IInv, Bindings
  <2>3. TodoOK'
    BY <2>1, <2>2, TodoSame DEF IInv, TodoOK, Lists
  <2>4. PacketsOK'
    BY <1>1, <2>2, PacketsSame DEF DealReply, linkVars, IInv, Packets
  <2> QED
    BY <1>1, <2>1, <2>2, <2>3, <2>4, Quietly DEF DealReply, linkVars, IInv, Lists
<1>4. CASE r.id \in DOMAIN req_cb
  <2>0. PICK k, q, x :
          /\ k = req_cb[r.id] /\ q = Append(Handlers[k], Unlock)
          /\ x = [id |-> r.id, cb |-> k, reply |-> r.call]
    OBVIOUS
  <2>1. /\ req_cb' = [id \in DOMAIN req_cb \ {r.id} |-> req_cb[id]]
        /\ answers' = Append(answers, x)
        /\ todo' = [todo EXCEPT ![Io] = q]
    BY <1>0, <1>4, <2>0 DEF DealReply, CallbacksAfter
  <2>2. k \in Callbacks /\ x.cb = x.reply /\ x.id = r.id
    BY <1>2, <1>4, <2>0 DEF Owned, IInv, Bindings
  <2>3. Onwards /\ Bindings'
    BY <2>1 DEF DealReply, Onwards, IInv, Bindings
  <2>4. TodoOK'
    <3>1. Handlers[k] \in Seq(ApiStep)
      BY <2>2, ApiAssumption
    <3> QED
      BY <2>0, <2>1, <2>3, <3>1, TodoHandler DEF IInv
  <2>5. PacketsOK'
    BY <1>1, <2>3, PacketsSame DEF DealReply, linkVars, IInv, Packets
  <2>6. /\ List(answers') /\ Len(answers) \in Nat /\ DOMAIN answers = 1 .. Len(answers)
        /\ DOMAIN answers' = 1 .. Len(answers) + 1
        /\ \A i \in DOMAIN answers : answers'[i] = answers[i]
        /\ answers'[Len(answers) + 1] = x
    <3>1. List(answers)
      BY DEF IInv, Lists
    <3> QED
      BY <2>1, <3>1, ListAppendAt
  <2>7. \A i \in DOMAIN answers' : i \in DOMAIN answers \/ i = Len(answers) + 1
    BY <2>6
  <2>8. OwnReply'
    BY <2>2, <2>6, <2>7 DEF IInv, OwnReply
  <2>9. \A i \in DOMAIN answers : answers[i].id # r.id
    BY <1>4 DEF IInv, Answered
  <2>10. CalledOnce'
    BY <2>2, <2>6, <2>7, <2>9 DEF IInv, CalledOnce
  <2>11. Answered'
    <3>1. ASSUME NEW i \in DOMAIN answers
          PROVE  answers'[i].id \in 1 .. message_id' - 1 /\ answers'[i].id \notin DOMAIN req_cb'
      BY <2>1, <2>6 DEF DealReply, IInv, Answered
    <3>2. r.id \in 1 .. message_id' - 1 /\ r.id \notin DOMAIN req_cb'
      BY <1>2, <2>1 DEF DealReply, Owned
    <3> QED
      BY <2>2, <2>6, <2>7, <3>1, <3>2 DEF Answered
  <2>12. Lists'
    BY <1>1, <2>4, <2>6 DEF DealReply, linkVars, IInv, Lists, TodoOK
  <2> QED
    BY <2>3, <2>4, <2>5, <2>8, <2>10, <2>11, <2>12 DEF IInv, TodoOK
<1> QED
  BY <1>3, <1>4

LEMMA StepDealPublication ==
    ASSUME IInv, DealPublication
    PROVE  IInv'
<1>1. List(outbox') /\ ElementsOf(outbox') \subseteq ElementsOf(outbox)
  BY ListTail DEF DealPublication, IInv, Lists
<1>2. Onwards /\ Bindings'
  BY DEF DealPublication, Onwards, IInv, Bindings
<1>3. TodoOK'
  <2>1. CASE Head(outbox).pair \in sub_cb
    <3>1. PICK k, q : k = Head(outbox).pair[1] /\ q = Append(Handlers[k], Unlock)
      OBVIOUS
    <3>2. k \in Topics
      BY <2>1, <3>1 DEF IInv, Bindings
    <3>3. Handlers[k] \in Seq(ApiStep)
      BY <3>2, ApiAssumption
    <3>4. todo' = [todo EXCEPT ![Io] = q]
      BY <2>1, <3>1 DEF DealPublication
    <3> QED
      BY <1>2, <3>1, <3>3, <3>4, TodoHandler DEF IInv
  <2>2. CASE Head(outbox).pair \notin sub_cb
    BY <1>2, <2>2, TodoSame DEF DealPublication, IInv, TodoOK, Lists
  <2> QED
    BY <2>1, <2>2
<1>4. PacketsOK'
  BY <1>1, <1>2, PacketsSame DEF DealPublication, linkVars, IInv, Packets
<1> QED
  BY <1>1, <1>2, <1>3, <1>4, Quietly DEF DealPublication, linkVars, ghosts, IInv, Lists

-----------------------------------------------------------------------------
(* The connection and the server.                                          *)
LEMMA StepSend ==
    ASSUME IInv, Send
    PROVE  IInv'
<1>1. Onwards /\ Bindings'
  BY DEF Send, appVars, Onwards, IInv, Bindings
<1>2. TodoOK'
  BY <1>1, TodoSame DEF Send, appVars, IInv, TodoOK, Lists
<1>3. PICK p : p = Head(send_queue)
  OBVIOUS
<1>4. p \in ElementsOf(send_queue)
  BY <1>3, ListTail DEF Send, IInv, Lists
<1>5. List(inbox') /\ ElementsOf(inbox') \subseteq ElementsOf(inbox) \cup {p}
  BY <1>3, ListAppend DEF Send, IInv, Lists
<1>6. PacketsOK'
  BY <1>1, <1>4, <1>5, PacketsSame DEF Send, IInv, Packets
<1> QED
  BY <1>1, <1>2, <1>5, <1>6, Quietly DEF Send, ghosts, IInv, Lists

LEMMA StepWritten ==
    ASSUME IInv, Written
    PROVE  IInv'
<1>1. Onwards /\ Bindings'
  BY DEF Written, appVars, Onwards, IInv, Bindings
<1>2. TodoOK'
  BY <1>1, TodoSame DEF Written, appVars, IInv, TodoOK, Lists
<1>3. List(send_queue') /\ ElementsOf(send_queue') \subseteq ElementsOf(send_queue)
  BY ListTail DEF Written, IInv, Lists
<1>4. PacketsOK'
  BY <1>1, <1>3, PacketsSame DEF Written, serverVars, IInv, Packets
<1> QED
  BY <1>1, <1>2, <1>3, <1>4, Quietly DEF Written, serverVars, IInv, Lists

LEMMA StepLose ==
    ASSUME IInv, Lose
    PROVE  IInv'
<1>1. Onwards /\ Bindings'
  BY DEF Lose, appVars, Onwards, IInv, Bindings
<1>2. TodoOK'
  BY <1>1, TodoSame DEF Lose, appVars, IInv, TodoOK, Lists
<1>3. PacketsOK'
  BY <1>1, EmptyList, PacketsSame DEF Lose, IInv, Packets
<1> QED
  BY <1>1, <1>2, <1>3, EmptyList, Quietly DEF Lose, IInv, Lists

LEMMA StepReconnect ==
    ASSUME IInv, Reconnect
    PROVE  IInv'
<1>0. Io \in AllThreads
  BY DEF AllThreads
<1>1. Onwards /\ Bindings'
  BY DEF Reconnect, Onwards, IInv, Bindings
<1>2. PICK l, p : l = Lock /\ p = KeepAlived
  OBVIOUS
<1>3. StepOK(l)' /\ PacketOK(p)'
  BY <1>2 DEF StepOK, PacketOK, Lock, KeepAlived
<1>4. TodoOK'
  <2>1. todo' = [todo EXCEPT ![Io] = <<l>>]
    BY <1>2 DEF Reconnect
  <2>2. List(<<l>>) /\ \A s \in ElementsOf(<<l>>) : StepOK(s)'
    BY <1>3, OneElement
  <2>3. TodoOK
    BY DEF IInv, TodoOK, Lists
  <2> QED
    BY <1>0, <1>1, <2>1, <2>2, <2>3, TodoSet DEF IInv
<1>5. List(send_queue') /\ ElementsOf(send_queue') \subseteq ElementsOf(send_queue) \cup {p}
  BY <1>2, OneElement DEF Reconnect, QueueAfterError, IInv, Lists
<1>6. Packets' \subseteq Packets \cup {p}
  BY <1>5, EmptyList DEF Reconnect, Packets
<1>7. PacketsOK'
  BY <1>1, <1>3, <1>6, PacketsStay DEF IInv
<1> QED
  BY <1>1, <1>4, <1>5, <1>7, EmptyList, Quietly DEF Reconnect, IInv, Lists

LEMMA StepServer ==
    ASSUME IInv, ServerDeal \/ Respond \/ Publish
    PROVE  IInv'
<1>1. Onwards /\ Bindings'
  BY DEF ServerDeal, Respond, Publish, appVars, Onwards, IInv, Bindings
<1>2. TodoOK'
  BY <1>1, TodoSame DEF ServerDeal, Respond, Publish, appVars, IInv, TodoOK, Lists
<1>3. CASE ServerDeal
  <2>1. PICK p : p = Head(inbox)
    OBVIOUS
  <2>2. /\ p \in ElementsOf(inbox) /\ List(inbox')
        /\ ElementsOf(inbox') \subseteq ElementsOf(inbox)
    BY <1>3, <2>1, ListTail DEF ServerDeal, IInv, Lists
  <2>3. running' \subseteq running \cup {p}
    BY <1>3, <2>1 DEF ServerDeal
  <2>4. PacketsOK'
    BY <1>1, <1>3, <2>2, <2>3, PacketsSame DEF ServerDeal, linkVars, IInv, Packets
  <2> QED
    BY <1>1, <1>2, <1>3, <2>2, <2>4, Quietly DEF ServerDeal, linkVars, ghosts, IInv, Lists
<1>4. CASE Respond
  <2>1. PICK r \in running : running' = running \ {r} /\ outbox' = Append(outbox, r)
    BY <1>4 DEF Respond
  <2>2. List(outbox') /\ ElementsOf(outbox') \subseteq ElementsOf(outbox) \cup {r}
    BY <2>1, ListAppend DEF IInv, Lists
  <2>3. PacketsOK'
    BY <1>1, <1>4, <2>1, <2>2, PacketsSame DEF Respond, linkVars, IInv, Packets
  <2> QED
    BY <1>1, <1>2, <1>4, <2>2, <2>3, Quietly DEF Respond, linkVars, ghosts, IInv, Lists
<1>5. CASE Publish
  <2>1. PICK pair \in served : outbox' = Append(outbox, [type |-> "sub_pub", pair |-> pair])
    BY <1>5 DEF Publish
  <2>2. PICK p : p = [type |-> "sub_pub", pair |-> pair]
    OBVIOUS
  <2>3. List(outbox') /\ ElementsOf(outbox') \subseteq ElementsOf(outbox) \cup {p}
    BY <2>1, <2>2, ListAppend DEF IInv, Lists
  <2>4. PacketOK(p)'
    BY <2>2 DEF PacketOK
  <2>5. Packets' \subseteq Packets \cup {p}
    BY <1>5, <2>3 DEF Publish, linkVars, Packets
  <2>6. PacketsOK'
    BY <1>1, <2>4, <2>5, PacketsStay DEF IInv
  <2> QED
    BY <1>1, <1>2, <1>5, <2>3, <2>6, Quietly DEF Publish, linkVars, ghosts, IInv, Lists
<1> QED
  BY <1>3, <1>4, <1>5

LEMMA StepStutter ==
    ASSUME IInv, UNCHANGED vars
    PROVE  IInv'
<1>1. UNCHANGED <<appVars, linkVars, serverVars, ghosts>>
  BY DEF vars
<1>2. Onwards /\ Bindings'
  BY <1>1 DEF appVars, Onwards, IInv, Bindings
<1>3. TodoOK'
  BY <1>1, <1>2, TodoSame DEF appVars, IInv, TodoOK, Lists
<1>4. PacketsOK'
  BY <1>1, <1>2, PacketsSame DEF linkVars, serverVars, IInv, Packets
<1> QED
  BY <1>1, <1>2, <1>3, <1>4, Quietly DEF linkVars, serverVars, ghosts, IInv, Lists

-----------------------------------------------------------------------------
LEMMA NextIInv == IInv /\ [Next]_vars => IInv'
<1> SUFFICES ASSUME IInv, [Next]_vars PROVE IInv'
  OBVIOUS
<1>1. ASSUME NEW t \in AllThreads, Step(t)
      PROVE  IInv'
  BY <1>1, StepBindCb, StepWritePacket, StepSetCallback, StepCancelSubscribe DEF Step
<1>2. CASE IoStep
  BY <1>2, StepIo
<1>3. CASE DealReply \/ DealPublication
  BY <1>3, StepDealReply, StepDealPublication
<1>4. CASE Send \/ Written \/ Lose \/ Reconnect
  BY <1>4, StepSend, StepWritten, StepLose, StepReconnect
<1>5. CASE ServerDeal \/ Respond \/ Publish
  BY <1>5, StepServer
<1>6. CASE UNCHANGED vars
  BY <1>6, StepStutter
<1> QED
  BY <1>1, <1>2, <1>3, <1>4, <1>5, <1>6 DEF Next

LEMMA Inductive == Spec => []IInv
BY InitIInv, NextIInv, PTL DEF Spec

(* A callback is only ever called with the reply to its own request: for   *)
(* any number of threads that call at the same time, handlers that respond *)
(* in any order and requests written again after a loss.                   *)
THEOREM RepliesToOwnRequest == Spec => []OwnReply
<1>1. IInv => OwnReply
  BY DEF IInv
<1> QED
  BY <1>1, Inductive, PTL

(* ... and at most once, however often the request is written.             *)
THEOREM AtMostOneCallback == Spec => []CalledOnce
<1>1. IInv => CalledOnce
  BY DEF IInv
<1> QED
  BY <1>1, Inductive, PTL

-----------------------------------------------------------------------------
(* What the strings are.  The tags that have a callback are finitely many  *)
(* and have no separator: subscribe() has cut them out of what it was given*)
StepTyped(s) ==
    /\ s.do \in {"subscribe", "cancel"} => s.topic \in Topics /\ s.tags \in Seq(Characters)
    /\ s.do = "subscribe" => s.left \in Seq(Plain(Characters)) /\ s.left # <<>>
    /\ s.do = "write" => s.packet \in Packet
    /\ s.do = "resubscribe" => s.topics \subseteq Topics

StepsTyped == \A t \in AllThreads : \A s \in ElementsOf(todo[t]) : StepTyped(s)

Subscribed ==
    /\ IsFiniteSet(sub_cb) /\ sub_cb \subseteq Topics \X Plain(Characters)
    /\ served \subseteq Topics \X Seq(Characters)

Queues ==
    /\ send_queue \in Seq(Packet) /\ inbox \in Seq(Packet)
    /\ writing \in BOOLEAN /\ up \in BOOLEAN

Locks == lock \in [{"req", "sub"} -> AllThreads \cup {Free}]

TInv == StepsTyped /\ Subscribed /\ Queues /\ Locks

LEMMA ApiTyped ==
    ASSUME NEW q \in Seq(ApiStep)
    PROVE  \A s \in ElementsOf(q) : StepTyped(s)
<1>1. ElementsOf(q) \subseteq ApiStep
  BY ListOf
<1>2. ASSUME NEW s \in ApiStep
      PROVE  StepTyped(s)
  <2>1. CASE s.do = "subscribe"
    <3>1. s.topic \in Topics /\ s.tags \in Seq(Characters) /\ s.left = Split(s.tags)
      BY <2>1 DEF ApiStep
    <3>2. s.left \in Seq(Plain(Characters)) /\ s.left # <<>>
      BY <3>1, SplitIsPlain
    <3> QED
      BY <2>1, <3>1, <3>2 DEF StepTyped
  <2>2. CASE s.do # "subscribe"
    BY <2>2 DEF ApiStep, StepTyped
  <2> QED
    BY <2>1, <2>2
<1> QED
  BY <1>1, <1>2

LEMMA PacketTypes ==
    /\ \A id \in Nat, k \in Callbacks : Request(id, k) \in Packet
    /\ \A topic \in Topics, tags \in Seq(Characters) :
          Sub(topic, tags) \in Packet /\ CancelSub(topic, tags) \in Packet
    /\ KeepAlived \in Packet
BY DEF Packet, Request, Sub, CancelSub, KeepAlived

LEMMA PairsTyped ==
    ASSUME NEW topic \in Topics, NEW S, NEW list \in Seq(S)
    PROVE  Pairs(topic, list) \subseteq Topics \X S
<1>1. \A i \in DOMAIN list : list[i] \in S
  BY ElementOfSeq, LenProperties
<1> QED
  BY <1>1 DEF Pairs

(* The tags of a topic that have a callback, and what they are joined to.  *)
LEMMA TagsTyped ==
    ASSUME Subscribed, NEW topic
    PROVE  IsFiniteSet(TagsOf(sub_cb, topic)) /\ TagsOf(sub_cb, topic) \subseteq Plain(Characters)
<1>1. PICK Q, T : Q = {q \in sub_cb : q[1] = topic} /\ T = TagsOf(sub_cb, topic)
  OBVIOUS
<1>2. T = {pair[2] : pair \in Q}
  BY <1>1 DEF TagsOf
<1>3. IsFiniteSet(Q)
  BY <1>1, FS_Subset DEF Subscribed
<1>4. PICK f : f = [pair \in Q |-> pair[2]]
  OBVIOUS
<1>5. f \in Surjection(Q, T)
  BY <1>2, <1>4 DEF Surjection
<1>6. IsFiniteSet(T)
  BY <1>3, <1>5, FS_Surjection
<1>7. T \subseteq Plain(Characters)
  BY <1>1, <1>2 DEF Subscribed
<1> QED
  BY <1>1, <1>6, <1>7

LEMMA JoinTyped ==
    ASSUME NEW T, IsFiniteSet(T), T \subseteq Plain(Characters), NEW list \in Orders(T)
    PROVE  Join(list) \in Seq(Characters) /\ list \in Seq(Plain(Characters))
<1>1. list \in Seq(T)
  BY OrderIsList
<1>2. list \in Seq(Plain(Characters)) /\ list \in Seq(Seq(Characters))
  <2>1. Plain(Characters) \subseteq Seq(Characters) /\ T \subseteq Seq(Characters)
    BY DEF Plain
  <2> QED
    BY <1>1, <2>1, SeqMonotonic
<1>3. Characters \cup {"|"} = Characters
  BY ApiAssumption
<1>4. CASE list # <<>>
  <2>1. Join(list) \in Seq(Characters \cup {"|"})
    BY <1>2, <1>4, JoinUnfold
  <2> QED
    BY <1>2, <1>3, <2>1
<1>5. CASE list = <<>>
  <2>1. Join(list) = <<>>
    BY <1>5, JoinOfNone
  <2> QED
    BY <1>2, <2>1, EmptySeq
<1> QED
  BY <1>4, <1>5

(* Steps come before the rest of a thread, or take its place.              *)
LEMMA TypedSet ==
    ASSUME Lists, StepsTyped, NEW t \in AllThreads,
           NEW q, todo' = [todo EXCEPT ![t] = q], \A s \in ElementsOf(q) : StepTyped(s)
    PROVE  StepsTyped'
<1>1. \A u \in AllThreads : todo'[u] = IF u = t THEN q ELSE todo[u]
  BY DEF Lists
<1>2. ASSUME NEW u \in AllThreads
      PROVE  \A s \in ElementsOf(todo'[u]) : StepTyped(s)
  BY <1>1 DEF StepsTyped
<1> QED
  BY <1>2 DEF StepsTyped, StepTyped

LEMMA TypedGoes ==
    ASSUME Lists, StepsTyped, NEW t \in AllThreads, todo[t] # <<>>,
           NEW steps, Goes(t, steps), List(steps), \A s \in ElementsOf(steps) : StepTyped(s)
    PROVE  StepsTyped'
<1>1. PICK r, q : r = Tail(todo[t]) /\ q = steps \o r
  OBVIOUS
<1>2. todo' = [todo EXCEPT ![t] = q]
  BY <1>1 DEF Goes
<1>3. List(r) /\ ElementsOf(r) \subseteq ElementsOf(todo[t])
  BY <1>1, ListTail DEF Lists
<1>4. ElementsOf(q) \subseteq ElementsOf(steps) \cup ElementsOf(r)
  BY <1>1, <1>3, ListConcat
<1>5. \A s \in ElementsOf(q) : StepTyped(s)
  BY <1>3, <1>4 DEF StepsTyped
<1> QED
  BY <1>2, <1>5, TypedSet

LEMMA TypedGoesOne ==
    ASSUME Lists, StepsTyped, NEW t \in AllThreads, todo[t] # <<>>,
           NEW s, Goes(t, <<s>>), StepTyped(s)
    PROVE  StepsTyped'
<1>1. List(<<s>>) /\ \A e \in ElementsOf(<<s>>) : StepTyped(e)
  BY OneElement
<1> QED
  BY <1>1, TypedGoes

LEMMA TypedGoesAway ==
    ASSUME Lists, StepsTyped, NEW t \in AllThreads, todo[t] # <<>>, Goes(t, <<>>)
    PROVE  StepsTyped'
<1>1. List(<<>>) /\ \A e \in ElementsOf(<<>>) : StepTyped(e)
  BY EmptyList
<1> QED
  BY <1>1, TypedGoes

LEMMA TypedHandler ==
    ASSUME Lists, StepsTyped, NEW h \in Seq(ApiStep), todo' = [todo EXCEPT ![Io] = Append(h, Unlock)]
    PROVE  StepsTyped'
<1>1. PICK u, q : u = Unlock /\ q = Append(h, u)
  OBVIOUS
<1>2. StepTyped(u)
  BY <1>1 DEF StepTyped, Unlock
<1>3. List(h) /\ \A s \in ElementsOf(h) : StepTyped(s)
  BY ApiSteps, ApiTyped
<1>4. ElementsOf(q) \subseteq ElementsOf(h) \cup {u}
  BY <1>1, <1>3, ListAppend
<1>5. \A s \in ElementsOf(q) : StepTyped(s)
  BY <1>2, <1>3, <1>4
<1>6. Io \in AllThreads /\ todo' = [todo EXCEPT ![Io] = q]
  BY <1>1 DEF AllThreads
<1> QED
  BY <1>5, <1>6, TypedSet

LEMMA TypedHead ==
    ASSUME Lists, StepsTyped, NEW t \in AllThreads, todo[t] # <<>>
    PROVE  StepTyped(Head(todo[t]))
BY ListTail DEF Lists, StepsTyped

LEMMA PacketAppended ==
    ASSUME NEW q \in Seq(Packet), NEW p \in Packet
    PROVE  Append(q, p) \in Seq(Packet)
OBVIOUS

LEMMA PacketTaken ==
    ASSUME NEW q \in Seq(Packet), q # <<>>
    PROVE  Head(q) \in Packet /\ Tail(q) \in Seq(Packet)
OBVIOUS

LEMMA InitTInv == Init => TInv
<1> SUFFICES ASSUME Init PROVE TInv
  OBVIOUS
<1>1. PICK p \in Programs : todo = [t \in AllThreads |-> IF t = Io THEN <<>> ELSE p[t]]
  BY DEF Init
<1>2. StepsTyped
  <2> SUFFICES ASSUME NEW t \in AllThreads
               PROVE  \A s \in ElementsOf(todo[t]) : StepTyped(s)
    BY DEF StepsTyped
  <2>1. CASE t = Io
    BY <1>1, <2>1, EmptyList
  <2>2. CASE t # Io
    <3>1. p \in [Threads -> Seq(ApiStep)] /\ t \in Threads
      BY <2>2, ApiAssumption DEF AllThreads
    <3>2. todo[t] = p[t] /\ p[t] \in Seq(ApiStep)
      BY <1>1, <2>2, <3>1
    <3> QED
      BY <3>2, ApiTyped
  <2> QED
    BY <2>1, <2>2
<1>3. Subscribed
  BY FS_EmptySet DEF Init, Subscribed
<1>4. Queues /\ Locks
  BY EmptySeq DEF Init, Queues, Locks
<1> QED
  BY <1>2, <1>3, <1>4 DEF TInv

(* What a thread does.                                                     *)
LEMMA TypedBindCb ==
    ASSUME IInv, TInv, NEW t \in AllThreads, BindCb(t)
    PROVE  TInv'
<1>1. PICK k, w : k = Head(todo[t]).call /\ w = Write(Request(message_id, k))
  OBVIOUS
<1>2. todo[t] # <<>> /\ Goes(t, <<w>>) /\ Lists /\ StepsTyped
  BY <1>1 DEF BindCb, At, IInv, TInv
<1>3. k \in Callbacks /\ message_id \in Nat
  BY <1>1, HeadStep DEF BindCb, At, StepOK, IInv, Bindings
<1>4. StepTyped(w)
  BY <1>1, <1>3, PacketTypes DEF StepTyped, Write
<1>5. StepsTyped'
  BY <1>2, <1>4, TypedGoesOne
<1> QED
  BY <1>5 DEF BindCb, linkVars, serverVars, TInv, Subscribed, Queues, Locks

LEMMA TypedWritePacket ==
    ASSUME IInv, TInv, NEW t \in AllThreads, WritePacket(t)
    PROVE  TInv'
<1>1. PICK p : p = Head(todo[t]).packet
  OBVIOUS
<1>2. todo[t] # <<>> /\ Goes(t, <<>>) /\ Lists /\ StepsTyped
  BY DEF WritePacket, At, IInv, TInv
<1>3. p \in Packet
  BY <1>1, <1>2, TypedHead DEF WritePacket, At, StepTyped
<1>4. send_queue' \in Seq(Packet)
  BY <1>1, <1>3, PacketAppended DEF WritePacket, TInv, Queues
<1>5. StepsTyped'
  BY <1>2, TypedGoesAway
<1> QED
  BY <1>4, <1>5 DEF WritePacket, serverVars, TInv, Subscribed, Queues, Locks

LEMMA TypedSetCallback ==
    ASSUME IInv, TInv, NEW t \in AllThreads, SetCallback(t)
    PROVE  TInv'
<1>1. PICK s, new, n :
        /\ s = Head(todo[t]) /\ new = <<s.topic, Head(s.left)>>
        /\ n = IF Len(s.left) > 1
               THEN Subscribing(s.topic, s.tags, Tail(s.left))
               ELSE Write(Sub(s.topic, s.tags))
  OBVIOUS
<1>2. /\ todo[t] # <<>> /\ Goes(t, <<n>>) /\ sub_cb' = sub_cb \cup {new}
      /\ s.do = "subscribe" /\ Lists /\ StepsTyped
  BY <1>1 DEF SetCallback, At, IInv, TInv
<1>3. PICK topic, tags, left : topic = s.topic /\ tags = s.tags /\ left = s.left
  OBVIOUS
<1>4. topic \in Topics /\ tags \in Seq(Characters) /\ left \in Seq(Plain(Characters)) /\ left # <<>>
  BY <1>1, <1>2, <1>3, TypedHead DEF StepTyped
<1>5. Head(left) \in Plain(Characters) /\ Tail(left) \in Seq(Plain(Characters))
      /\ (Len(left) > 1 => Tail(left) # <<>>)
  <2>1. /\ Head(left) \in Plain(Characters) /\ Tail(left) \in Seq(Plain(Characters))
        /\ Len(Tail(left)) = Len(left) - 1 /\ Len(left) \in Nat
    BY <1>4, HeadTailProperties, LenProperties
  <2> QED
    BY <2>1, EmptySeq, SMTT(30)
<1>6. StepTyped(n)
  <2>1. CASE Len(left) > 1
    BY <1>1, <1>3, <1>4, <1>5, <2>1 DEF StepTyped, Subscribing
  <2>2. CASE ~(Len(left) > 1)
    <3>1. n.do = "write" /\ n.packet = Sub(topic, tags)
      BY <1>1, <1>3, <2>2 DEF Write
    <3> QED
      BY <1>4, <3>1, PacketTypes DEF StepTyped
  <2> QED
    BY <2>1, <2>2
<1>7. StepsTyped'
  BY <1>2, <1>6, TypedGoesOne
<1>8. Subscribed'
  <2>1. new \in Topics \X Plain(Characters)
    BY <1>1, <1>3, <1>4, <1>5
  <2>2. IsFiniteSet(sub_cb')
    BY <1>2, FS_AddElement DEF TInv, Subscribed
  <2> QED
    BY <1>2, <2>1, <2>2 DEF SetCallback, serverVars, TInv, Subscribed
<1> QED
  BY <1>7, <1>8 DEF SetCallback, linkVars, serverVars, TInv, Queues, Locks

LEMMA TypedCancelSubscribe ==
    ASSUME IInv, TInv, NEW t \in AllThreads, CancelSubscribe(t)
    PROVE  TInv'
<1>1. PICK c, p : c = Head(todo[t]) /\ p = CancelSub(c.topic, c.tags)
  OBVIOUS
<1>2. todo[t] # <<>> /\ Goes(t, <<>>) /\ c.do = "cancel" /\ Lists /\ StepsTyped
  BY <1>1 DEF CancelSubscribe, At, IInv, TInv
<1>3. p \in Packet
  <2>1. c.topic \in Topics /\ c.tags \in Seq(Characters)
    BY <1>1, <1>2, TypedHead DEF StepTyped
  <2> QED
    BY <1>1, <2>1, PacketTypes
<1>4. send_queue' \in Seq(Packet)
  <2>1. send_queue' = send_queue \/ send_queue' = Append(send_queue, p)
    BY <1>1 DEF CancelSubscribe
  <2> QED
    BY <1>3, <2>1, PacketAppended DEF TInv, Queues
<1>5. StepsTyped'
  BY <1>2, TypedGoesAway
<1>6. Subscribed'
  <2>1. sub_cb' \subseteq sub_cb
    BY DEF CancelSubscribe
  <2>2. IsFiniteSet(sub_cb')
    BY <2>1, FS_Subset DEF TInv, Subscribed
  <2> QED
    BY <2>1, <2>2 DEF CancelSubscribe, serverVars, TInv, Subscribed
<1> QED
  BY <1>4, <1>5, <1>6 DEF CancelSubscribe, serverVars, TInv, Queues, Locks

(* What the io thread does.                                                *)
LEMMA TypedIo ==
    ASSUME IInv, TInv, IoStep
    PROVE  TInv'
<1>1. Io \in AllThreads /\ todo[Io] # <<>> /\ Lists /\ StepsTyped
  BY DEF IoStep, LockSubs, ReSubscribeTopic, ReSubscribeSend, Release, At, AllThreads, IInv, TInv
<1>2. Subscribed'
  BY DEF IoStep, LockSubs, ReSubscribeTopic, ReSubscribeSend, Release, serverVars, TInv, Subscribed
<1>3. Locks'
  BY <1>1 DEF IoStep, LockSubs, ReSubscribeTopic, ReSubscribeSend, Release, TInv, Locks
<1>4. CASE LockSubs
  <2>1. PICK d, e : d = ReSubscribing(TopicsOf(sub_cb)) /\ e = Unlock
    OBVIOUS
  <2>2. TopicsOf(sub_cb) \subseteq Topics
    BY DEF TopicsOf, TInv, Subscribed
  <2>3. StepTyped(d) /\ StepTyped(e) /\ Goes(Io, <<d, e>>)
    BY <1>4, <2>1, <2>2 DEF LockSubs, StepTyped, ReSubscribing, Unlock
  <2>4. List(<<d, e>>) /\ \A s \in ElementsOf(<<d, e>>) : StepTyped(s)
    BY <2>3, TwoElements
  <2>5. StepsTyped'
    BY <1>1, <2>3, <2>4, TypedGoes
  <2> QED
    BY <1>2, <1>3, <1>4, <2>5 DEF LockSubs, linkVars, serverVars, TInv, Queues
<1>5. CASE ReSubscribeTopic
  <2>1. PICK topic, list, d, p :
          /\ topic \in Head(todo[Io]).topics
          /\ list \in Orders(TagsOf(sub_cb, topic))
          /\ p = Sub(topic, Join(list))
          /\ send_queue' = Append(send_queue, p)
          /\ d = ReSubscribing(Head(todo[Io]).topics \ {topic})
          /\ Goes(Io, <<d>>)
    BY <1>5 DEF ReSubscribeTopic
  <2>2. Head(todo[Io]).topics \subseteq Topics
    BY <1>1, <1>5, TypedHead DEF ReSubscribeTopic, At, StepTyped
  <2>3. StepTyped(d)
    BY <2>1, <2>2 DEF StepTyped, ReSubscribing
  <2>4. StepsTyped'
    BY <1>1, <2>1, <2>3, TypedGoesOne
  <2>5. Join(list) \in Seq(Characters)
    BY <2>1, TagsTyped, JoinTyped DEF TInv
  <2>6. p \in Packet
    BY <2>1, <2>2, <2>5, PacketTypes
  <2>7. send_queue' \in Seq(Packet)
    BY <2>1, <2>6, PacketAppended DEF TInv, Queues
  <2> QED
    BY <1>2, <1>3, <1>5, <2>4, <2>7 DEF ReSubscribeTopic, serverVars, TInv, Queues
<1>6. CASE ReSubscribeSend \/ Release
  <2>1. StepsTyped'
    BY <1>1, <1>6, TypedGoesAway DEF ReSubscribeSend, Release
  <2> QED
    BY <1>2, <1>3, <1>6, <2>1 DEF ReSubscribeSend, Release, linkVars, serverVars, TInv, Queues
<1> QED
  BY <1>4, <1>5, <1>6 DEF IoStep

LEMMA TypedDeal ==
    ASSUME IInv, TInv, DealReply \/ DealPublication
    PROVE  TInv'
<1>1. Lists /\ StepsTyped /\ Io \in AllThreads
  BY DEF IInv, TInv, AllThreads
<1>2. CASE UNCHANGED <<todo, lock>>
  BY <1>2 DEF DealReply, DealPublication, linkVars, TInv, StepsTyped, StepTyped, Subscribed, Queues, Locks
<1>3. CASE \E c \in Callbacks \cup Topics : todo' = [todo EXCEPT ![Io] = Append(Handlers[c], Unlock)]
  <2>1. PICK c \in Callbacks \cup Topics : todo' = [todo EXCEPT ![Io] = Append(Handlers[c], Unlock)]
    BY <1>3
  <2>2. Handlers[c] \in Seq(ApiStep)
    BY ApiAssumption
  <2>3. StepsTyped'
    BY <1>1, <2>1, <2>2, TypedHandler
  <2>4. Locks'
    <3>1. CASE DealReply
      BY <1>1, <3>1 DEF DealReply, HeldInReply, TInv, Locks
    <3>2. CASE DealPublication
      BY <1>1, <3>2 DEF DealPublication, TInv, Locks
    <3> QED
      BY <3>1, <3>2
  <2> QED
    BY <2>3, <2>4 DEF DealReply, DealPublication, linkVars, TInv, Subscribed, Queues
<1>4. CASE DealReply
  <2>1. PICK r : r = Head(outbox)
    OBVIOUS
  <2>2. CASE r.id \notin DOMAIN req_cb
    BY <1>2, <1>4, <2>1, <2>2 DEF DealReply
  <2>3. CASE r.id \in DOMAIN req_cb
    <3>1. req_cb[r.id] \in Callbacks
      BY <2>3 DEF IInv, Bindings
    <3>2. todo' = [todo EXCEPT ![Io] = Append(Handlers[req_cb[r.id]], Unlock)]
      BY <1>4, <2>1, <2>3 DEF DealReply
    <3> QED
      BY <1>3, <3>1, <3>2
  <2> QED
    BY <2>2, <2>3
<1>5. CASE DealPublication
  <2>1. PICK pair : pair = Head(outbox).pair
    OBVIOUS
  <2>2. CASE pair \notin sub_cb
    BY <1>2, <1>5, <2>1, <2>2 DEF DealPublication
  <2>3. CASE pair \in sub_cb
    <3>1. pair[1] \in Topics
      BY <2>3 DEF IInv, Bindings
    <3>2. todo' = [todo EXCEPT ![Io] = Append(Handlers[pair[1]], Unlock)]
      BY <1>5, <2>1, <2>3 DEF DealPublication
    <3> QED
      BY <1>3, <3>1, <3>2
  <2> QED
    BY <2>2, <2>3
<1> QED
  BY <1>4, <1>5

(* The connection and the server.                                          *)
LEMMA TypedLink ==
    ASSUME IInv, TInv, Send \/ Written \/ Lose \/ Reconnect
    PROVE  TInv'
<1>1. /\ Lists /\ StepsTyped /\ send_queue \in Seq(Packet) /\ inbox \in Seq(Packet)
      /\ writing => send_queue # <<>>
  BY DEF IInv, TInv, Lists, Queues
<1>2. StepsTyped'
  <2>1. CASE Send \/ Written \/ Lose
    BY <2>1 DEF Send, Written, Lose, appVars, TInv, StepsTyped, StepTyped
  <2>2. CASE Reconnect
    <3>1. PICK l, q : l = Lock /\ q = <<l>>
      OBVIOUS
    <3>2. StepTyped(l)
      BY <3>1 DEF StepTyped, Lock
    <3>3. \A s \in ElementsOf(q) : StepTyped(s)
      BY <3>1, <3>2, OneElement
    <3>4. todo' = [todo EXCEPT ![Io] = q] /\ Io \in AllThreads
      BY <2>2, <3>1 DEF Reconnect, AllThreads
    <3> QED
      BY <1>1, <3>3, <3>4, TypedSet
  <2> QED
    BY <2>1, <2>2
<1>3. send_queue' \in Seq(Packet) /\ inbox' \in Seq(Packet)
  <2>1. CASE Send
    BY <1>1, <2>1, PacketTaken, PacketAppended DEF Send
  <2>2. CASE Written
    BY <1>1, <2>2, PacketTaken DEF Written, serverVars
  <2>3. CASE Lose
    BY <1>1, <2>3, EmptySeq DEF Lose
  <2>4. CASE Reconnect
    <3>1. PICK p : p = KeepAlived
      OBVIOUS
    <3>2. p \in Packet
      BY <3>1, PacketTypes
    <3>3. send_queue' = send_queue \/ send_queue' = <<p>>
      BY <2>4, <3>1 DEF Reconnect, QueueAfterError
    <3>4. <<p>> \in Seq(Packet)
      BY <3>2
    <3> QED
      BY <1>1, <2>4, <3>3, <3>4 DEF Reconnect
  <2> QED
    BY <2>1, <2>2, <2>3, <2>4
<1>4. writing' \in BOOLEAN /\ up' \in BOOLEAN
  BY DEF Send, Written, Lose, Reconnect, appVars, TInv, Queues
<1>5. Subscribed'
  BY DEF Send, Written, Lose, Reconnect, appVars, serverVars, TInv, Subscribed
<1>6. Locks'
  BY DEF Send, Written, Lose, Reconnect, appVars, TInv, Locks
<1> QED
  BY <1>2, <1>3, <1>4, <1>5, <1>6 DEF TInv, Queues

LEMMA TypedServer ==
    ASSUME IInv, TInv, ServerDeal \/ Respond \/ Publish
    PROVE  TInv'
<1>1. inbox' \in Seq(Packet)
  <2>1. CASE ServerDeal
    BY <2>1, PacketTaken DEF ServerDeal, TInv, Queues
  <2>2. CASE Respond \/ Publish
    BY <2>2 DEF Respond, Publish, TInv, Queues
  <2> QED
    BY <2>1, <2>2
<1>2. served' \subseteq Topics \X Seq(Characters)
  <2>1. CASE ServerDeal
    <3>1. PICK p : p = Head(inbox)
      OBVIOUS
    <3>2. p \in Packet
      BY <2>1, <3>1, PacketTaken DEF ServerDeal, TInv, Queues
    <3>3. ASSUME p.type = "sub_pub"
          PROVE  Pairs(p.topic, Split(p.tags)) \subseteq Topics \X Seq(Characters)
      <4>1. p.topic \in Topics /\ p.tags \in Seq(Characters)
        BY <3>2, <3>3 DEF Packet
      <4>2. Split(p.tags) \in Seq(Plain(Characters))
        BY <4>1, SplitIsPlain
      <4>3. Pairs(p.topic, Split(p.tags)) \subseteq Topics \X Plain(Characters)
        BY <4>1, <4>2, PairsTyped
      <4> QED
        BY <4>3 DEF Plain
    <3>4. \/ p.type = "sub_pub" /\ served' = served \cup Pairs(p.topic, Split(p.tags))
          \/ served' \subseteq served
      BY <2>1, <3>1 DEF ServerDeal
    <3> QED
      BY <3>3, <3>4 DEF TInv, Subscribed
  <2>2. CASE Respond \/ Publish
    BY <2>2 DEF Respond, Publish, TInv, Subscribed
  <2> QED
    BY <2>1, <2>2
<1>3. UNCHANGED <<todo, lock, sub_cb, send_queue, writing, up>>
  BY DEF ServerDeal, Respond, Publish, appVars, linkVars
<1> QED
  BY <1>1, <1>2, <1>3 DEF TInv, StepsTyped, StepTyped, Subscribed, Queues, Locks

LEMMA NextTInv == IInv /\ TInv /\ [Next]_vars => TInv'
<1> SUFFICES ASSUME IInv, TInv, [Next]_vars PROVE TInv'
  OBVIOUS
<1>1. ASSUME NEW t \in AllThreads, Step(t)
      PROVE  TInv'
  BY <1>1, TypedBindCb, TypedWritePacket, TypedSetCallback, TypedCancelSubscribe DEF Step
<1>2. CASE IoStep
  BY <1>2, TypedIo
<1>3. CASE DealReply \/ DealPublication
  BY <1>3, TypedDeal
<1>4. CASE Send \/ Written \/ Lose \/ Reconnect
  BY <1>4, TypedLink
<1>5. CASE ServerDeal \/ Respond \/ Publish
  BY <1>5, TypedServer
<1>6. CASE UNCHANGED vars
  BY <1>6
  DEF vars, appVars, linkVars, serverVars, TInv, StepsTyped, StepTyped, Subscribed, Queues, Locks
<1> QED
  BY <1>1, <1>2, <1>3, <1>4, <1>5, <1>6 DEF Next

LEMMA TypedAlways == Spec => []TInv
BY Inductive, InitTInv, NextTInv, PTL DEF Spec

(* The state of the model has its type: in particular the tags that        *)
(* re_subscribe() joins and deal() splits again are strings.               *)
THEOREM TypeCorrect == Spec => []TypeOK
<1>1. IInv /\ TInv => TypeOK
  <2> SUFFICES ASSUME IInv, TInv PROVE TypeOK
    OBVIOUS
  <2>1. sub_cb \subseteq Topics \X Seq(Characters)
    BY DEF TInv, Subscribed, Plain
  <2>2. message_id \in Nat /\ DOMAIN req_cb \subseteq 1 .. message_id - 1
    BY DEF IInv, Bindings
  <2>3. writing => send_queue # <<>>
    BY DEF IInv, Lists
  <2> QED
    BY <2>1, <2>2, <2>3 DEF TInv, Subscribed, Queues, Locks, TypeOK
<1> QED
  BY <1>1, Inductive, TypedAlways, PTL

(* A message of re_subscribe() brings the session the tags that have a     *)
(* callback, each of them whole, whatever tags there are, if and only if   *)
(* none but the last one joined ends in a bar.                             *)
THEOREM TagsComeBack == Spec => []TagsSurvive
<1>1. TInv => TagsSurvive
  <2> SUFFICES ASSUME TInv, NEW topic, NEW tag \in Tag(Characters, MaxTag),
                      NEW list \in Orders(TagsOf(sub_cb, topic) \cup {tag})
               PROVE  Split(Join(list)) = list <=> \A i \in 1 .. Len(list) - 1 : ~EndsInBar(list[i])
    BY DEF TagsSurvive
  <2>1. PICK T : T = TagsOf(sub_cb, topic) \cup {tag}
    OBVIOUS
  <2>2. tag \in Plain(Characters)
    <3>1. tag \in BoundedSeq(Characters, MaxTag) /\ Separators(tag) = {}
      BY DEF Tag
    <3>2. PICK m \in 0 .. MaxTag : tag \in [1 .. m -> Characters]
      BY <3>1 DEF BoundedSeq, SeqOf
    <3>3. m \in Nat
      BY ApiAssumption
    <3>4. tag \in Seq(Characters)
      BY <3>2, <3>3, FunctionIsSeq
    <3> QED
      BY <3>1, <3>4 DEF Plain
  <2>3. IsFiniteSet(T) /\ T \subseteq Plain(Characters) /\ T # {}
    BY <2>1, <2>2, TagsTyped, FS_AddElement DEF TInv
  <2>4. list \in Orders(T)
    BY <2>1
  <2>5. list \in Seq(Plain(Characters)) /\ list # <<>>
    BY <2>3, <2>4, OrderIsList, JoinTyped
  <2> QED
    BY <2>5, JoinSplit
<1> QED
  BY <1>1, TypedAlways, PTL

-----------------------------------------------------------------------------
(* Mutexes.  What the io thread holds it gives back: the last of the steps *)
(* it has still to take is an Unlock, and it takes no mutex before that.   *)
Ends(q) == q # <<>> /\ q[Len(q)].do = "unlock"
Locking(q) == \E s \in ElementsOf(q) : s.do = "lock"

LInv ==
    /\ lock["req"] = Free /\ lock["sub"] \in {Free, Io}
    /\ lock["sub"] = Io => Ends(todo[Io])
    /\ Locking(todo[Io]) => lock["sub"] = Free /\ Tail(todo[Io]) = <<>>

LEMMA InitLInv == Init => LInv
<1> SUFFICES ASSUME Init PROVE LInv
  OBVIOUS
<1>1. todo[Io] = <<>> /\ lock["req"] = Free /\ lock["sub"] = Free
  BY DEF Init, AllThreads
<1>2. Io # Free
  BY ApiAssumption DEF AllThreads
<1> QED
  BY <1>1, <1>2, EmptyList DEF LInv, Locking

LEMMA EndStays ==
    ASSUME NEW q, List(q), Ends(q), Head(q).do # "unlock", NEW steps, List(steps)
    PROVE  Ends(steps \o Tail(q))
<1>1. PICK E, r : q \in Seq(E) /\ steps \in Seq(E) /\ r = Tail(q) /\ E = ElementsOf(q) \cup ElementsOf(steps)
  <2>1. q \in Seq(ElementsOf(q)) /\ steps \in Seq(ElementsOf(steps))
    BY DEF List
  <2> QED
    BY <2>1, SeqMonotonic
<1>2. /\ Len(q) \in Nat \ {0} /\ Head(q) = q[1] /\ r \in Seq(E) /\ Len(r) = Len(q) - 1
      /\ \A i \in 1 .. Len(r) : r[i] = q[i + 1]
  BY <1>1, EmptySeq, HeadTailProperties, LenProperties DEF Ends
<1>3. Len(q) # 1
  BY <1>2 DEF Ends
<1>4. Len(r) \in 1 .. Len(r) /\ Len(r) + 1 = Len(q) /\ r[Len(r)] = q[Len(q)]
  BY <1>2, <1>3
<1>5. /\ Len(steps \o r) = Len(steps) + Len(r) /\ Len(steps) \in Nat
      /\ (steps \o r)[Len(steps) + Len(r)] = r[Len(r)]
  BY <1>1, <1>2, <1>4
<1>6. steps \o r # <<>>
  <2>1. Len(steps) + Len(r) # 0
    BY <1>2, <1>4, <1>5
  <2>2. Len(<<>>) = 0
    OBVIOUS
  <2> QED
    BY <1>5, <2>1, <2>2
<1> QED
  BY <1>1, <1>4, <1>5, <1>6 DEF Ends

(* The io thread goes on without having to do with a mutex, or another     *)
(* thread does.                                                            *)
LEMMA LocksGoOn ==
    ASSUME Lists, LInv, lock' = lock, NEW t \in AllThreads,
           todo[t] # <<>>, Head(todo[t]).do \notin {"lock", "unlock"},
           NEW steps, Goes(t, steps), List(steps), ~Locking(steps)
    PROVE  LInv'
<1>1. todo' = [todo EXCEPT ![t] = steps \o Tail(todo[t])] /\ Io \in AllThreads
  BY DEF Goes, AllThreads
<1>2. CASE t # Io
  <2>1. todo'[Io] = todo[Io]
    BY <1>1, <1>2 DEF Lists
  <2> QED
    BY <2>1 DEF LInv
<1>3. CASE t = Io
  <2>1. PICK q, r, n : q = todo[Io] /\ r = Tail(q) /\ n = steps \o r
    OBVIOUS
  <2>2. todo'[Io] = n
    BY <1>1, <1>3, <2>1 DEF Lists
  <2>3. List(q) /\ q # <<>> /\ Head(q) \in ElementsOf(q) /\ List(r) /\ ElementsOf(r) \subseteq ElementsOf(q)
    BY <1>3, <2>1, ListTail DEF Lists
  <2>4. ~Locking(r)
    BY <2>1, <2>3, EmptyList DEF LInv, Locking
  <2>5. ~Locking(n)
    BY <2>1, <2>3, <2>4, ListConcat DEF Locking
  <2>6. lock["sub"] = Io => Ends(n)
    BY <1>3, <2>1, <2>3, EndStays DEF LInv
  <2> QED
    BY <2>2, <2>5, <2>6 DEF LInv
<1> QED
  BY <1>2, <1>3

LEMMA LocksStep ==
    ASSUME IInv, LInv, NEW t \in AllThreads, Step(t)
    PROVE  LInv'
<1>1. /\ Lists /\ lock' = lock
      /\ todo[t] # <<>> /\ Head(todo[t]).do \notin {"lock", "unlock"}
  BY DEF IInv, Step, BindCb, WritePacket, SetCallback, CancelSubscribe, At
<1>2. ASSUME NEW s, s.do # "lock"
      PROVE  List(<<s>>) /\ ~Locking(<<s>>)
  BY <1>2, OneElement DEF Locking
<1>3. List(<<>>) /\ ~Locking(<<>>)
  BY EmptyList DEF Locking
<1>4. \/ Goes(t, <<>>)
      \/ \E s : s.do # "lock" /\ Goes(t, <<s>>)
  <2>1. CASE BindCb(t)
    <3>1. PICK s : s = Write(Request(message_id, Head(todo[t]).call)) /\ Goes(t, <<s>>)
      BY <2>1 DEF BindCb
    <3>2. s.do = "write"
      BY <3>1 DEF Write
    <3> QED
      BY <3>1, <3>2
  <2>2. CASE WritePacket(t) \/ CancelSubscribe(t)
    BY <2>2 DEF WritePacket, CancelSubscribe
  <2>3. CASE SetCallback(t)
    <3>1. PICK s : s = Head(todo[t])
      OBVIOUS
    <3>2. PICK a, b : /\ a = Subscribing(s.topic, s.tags, Tail(s.left))
                      /\ b = Write(Sub(s.topic, s.tags))
      OBVIOUS
    <3>3. Goes(t, IF Len(s.left) > 1 THEN <<a>> ELSE <<b>>)
      BY <2>3, <3>1, <3>2 DEF SetCallback
    <3>4. a.do = "subscribe" /\ b.do = "write"
      BY <3>2 DEF Subscribing, Write
    <3> QED
      BY <3>3, <3>4
  <2> QED
    BY <2>1, <2>2, <2>3 DEF Step
<1>5. CASE Goes(t, <<>>)
  BY <1>1, <1>3, <1>5, LocksGoOn
<1>6. CASE \E s : s.do # "lock" /\ Goes(t, <<s>>)
  <2>1. PICK s : s.do # "lock" /\ Goes(t, <<s>>)
    BY <1>6
  <2> QED
    BY <1>1, <1>2, <2>1, LocksGoOn
<1> QED
  BY <1>4, <1>5, <1>6

LEMMA LocksIo ==
    ASSUME IInv, TInv, LInv, IoStep
    PROVE  LInv'
<1>1. /\ Lists /\ Io \in AllThreads /\ Io # Free
      /\ lock \in [{"req", "sub"} -> AllThreads \cup {Free}]
  BY ApiAssumption DEF IInv, TInv, Locks, AllThreads
<1>2. List(todo[Io]) /\ DOMAIN todo = AllThreads /\ todo[Io] # <<>>
  BY <1>1 DEF Lists, IoStep, LockSubs, ReSubscribeTopic, ReSubscribeSend, Release, At
<1>3. Head(todo[Io]) \in ElementsOf(todo[Io])
  BY <1>2, ListTail
<1>4. CASE LockSubs
  <2>1. PICK d, e, n : /\ d = ReSubscribing(TopicsOf(sub_cb)) /\ e = Unlock
                       /\ n = <<d, e>> \o Tail(todo[Io])
    OBVIOUS
  <2>2. Tail(todo[Io]) = <<>>
    BY <1>3, <1>4 DEF LInv, Locking, LockSubs, At
  <2>3. n = <<d, e>>
    <3>1. \A E : \A q \in Seq(E) : q \o <<>> = q
      OBVIOUS
    <3>2. <<d, e>> \in Seq(ElementsOf(<<d, e>>))
      BY TwoElements DEF List
    <3> QED
      BY <2>1, <2>2, <3>1, <3>2
  <2>4. d.do = "resubscribe" /\ e.do = "unlock"
    BY <2>1 DEF ReSubscribing, Unlock
  <2>5. Ends(n) /\ ~Locking(n)
    BY <2>3, <2>4, TwoElements DEF Ends, Locking
  <2>6. todo'[Io] = n /\ lock'["req"] = Free /\ lock'["sub"] = Io
    BY <1>1, <1>2, <1>4, <2>1 DEF LockSubs, Goes, LInv
  <2> QED
    BY <1>1, <2>5, <2>6 DEF LInv
<1>5. CASE ReSubscribeTopic \/ ReSubscribeSend
  <2>1. lock' = lock /\ Head(todo[Io]).do \notin {"lock", "unlock"}
    BY <1>5 DEF ReSubscribeTopic, ReSubscribeSend, At
  <2>2. CASE ReSubscribeTopic
    <3>1. PICK d : Goes(Io, <<d>>) /\ d.do = "resubscribe"
      BY <2>2 DEF ReSubscribeTopic, ReSubscribing
    <3>2. List(<<d>>) /\ ~Locking(<<d>>)
      BY <3>1, OneElement DEF Locking
    <3> QED
      BY <1>1, <1>2, <2>1, <3>1, <3>2, LocksGoOn
  <2>3. CASE ReSubscribeSend
    <3>1. Goes(Io, <<>>) /\ List(<<>>) /\ ~Locking(<<>>)
      BY <2>3, EmptyList DEF ReSubscribeSend, Locking
    <3> QED
      BY <1>1, <1>2, <2>1, <3>1, LocksGoOn
  <2> QED
    BY <1>5, <2>2, <2>3
<1>6. CASE Release
  <2>1. PICK r : r = Tail(todo[Io])
    OBVIOUS
  <2>2. List(r) /\ ElementsOf(r) \subseteq ElementsOf(todo[Io])
    BY <1>2, <2>1, ListTail
  <2>3. ~Locking(r)
    BY <2>1, <2>2, EmptyList DEF LInv, Locking
  <2>4. r \in Seq(ElementsOf(r)) /\ <<>> \o r = r
    BY <2>2 DEF List
  <2>5. todo'[Io] = r
    BY <1>1, <1>2, <1>6, <2>1, <2>4 DEF Release, Goes
  <2>6. lock'["req"] = Free /\ lock'["sub"] = Free
    BY <1>1, <1>6 DEF Release, LInv
  <2> QED
    BY <1>1, <2>3, <2>5, <2>6 DEF LInv
<1> QED
  BY <1>4, <1>5, <1>6 DEF IoStep

(* A callback begins when the io thread holds nothing.                     *)
LEMMA LocksHandler ==
    ASSUME Lists, LInv, todo[Io] = <<>>, NEW h \in Seq(ApiStep),
           todo' = [todo EXCEPT ![Io] = Append(h, Unlock)],
           lock'["req"] = Free, lock'["sub"] \in {Free, Io}
    PROVE  LInv'
<1>1. PICK u, q : u = Unlock /\ q = Append(h, u)
  OBVIOUS
<1>2. u.do = "unlock" /\ todo'[Io] = q
  BY <1>1 DEF Unlock, Lists, AllThreads
<1>3. Ends(q)
  BY <1>1, <1>2 DEF Ends
<1>4. List(h) /\ \A s \in ElementsOf(h) : s.do # "lock"
  <2>1. List(h) /\ ElementsOf(h) \subseteq ApiStep
    BY ListOf
  <2>2. \A s \in ApiStep : s.do # "lock"
    BY DEF ApiStep
  <2> QED
    BY <2>1, <2>2
<1>5. ~Locking(q)
  BY <1>1, <1>2, <1>4, ListAppend DEF Locking
<1> QED
  BY <1>2, <1>3, <1>5 DEF LInv

LEMMA LocksDeal ==
    ASSUME IInv, TInv, LInv, DealReply \/ DealPublication
    PROVE  LInv'
<1>1. /\ Lists /\ Io # Free /\ todo[Io] = <<>>
      /\ lock \in [{"req", "sub"} -> AllThreads \cup {Free}] /\ Io \in AllThreads
  BY ApiAssumption DEF IInv, TInv, Locks, AllThreads, DealReply, DealPublication
<1>2. lock["req"] = Free /\ lock["sub"] = Free
  BY <1>1 DEF LInv, Ends
<1>3. CASE UNCHANGED <<todo, lock>>
  BY <1>3 DEF LInv
<1>4. CASE DealReply
  <2>1. PICK r : r = Head(outbox)
    OBVIOUS
  <2>2. CASE r.id \in DOMAIN req_cb
    <3>1. PICK h : h = Handlers[req_cb[r.id]]
      OBVIOUS
    <3>2. h \in Seq(ApiStep)
      BY <2>2, <3>1, ApiAssumption DEF IInv, Bindings
    <3>3. /\ todo' = [todo EXCEPT ![Io] = Append(h, Unlock)]
          /\ lock' = [m \in DOMAIN lock |-> lock[m]]
      BY <1>4, <2>1, <2>2, <3>1 DEF DealReply, HeldInReply
    <3> QED
      BY <1>1, <1>2, <3>2, <3>3, LocksHandler
  <2>3. CASE r.id \notin DOMAIN req_cb
    BY <1>3, <1>4, <2>1, <2>3 DEF DealReply
  <2> QED
    BY <2>2, <2>3
<1>5. CASE DealPublication
  <2>1. PICK pair : pair = Head(outbox).pair
    OBVIOUS
  <2>2. CASE pair \in sub_cb
    <3>1. PICK h : h = Handlers[pair[1]]
      OBVIOUS
    <3>2. h \in Seq(ApiStep)
      BY <2>2, <3>1, ApiAssumption DEF IInv, Bindings
    <3>3. /\ todo' = [todo EXCEPT ![Io] = Append(h, Unlock)]
          /\ lock' = [lock EXCEPT !["sub"] = Io]
      BY <1>5, <2>1, <2>2, <3>1 DEF DealPublication
    <3> QED
      BY <1>1, <1>2, <3>2, <3>3, LocksHandler
  <2>3. CASE pair \notin sub_cb
    BY <1>3, <1>5, <2>1, <2>3 DEF DealPublication
  <2> QED
    BY <2>2, <2>3
<1> QED
  BY <1>4, <1>5

LEMMA LocksReconnect ==
    ASSUME IInv, LInv, Reconnect
    PROVE  LInv'
<1>1. Lists /\ Io # Free /\ Io \in AllThreads /\ todo[Io] = <<>>
  BY ApiAssumption DEF IInv, AllThreads, Reconnect
<1>2. lock["req"] = Free /\ lock["sub"] = Free
  BY <1>1 DEF LInv, Ends
<1>3. PICK l : l = Lock
  OBVIOUS
<1>4. todo'[Io] = <<l>> /\ lock' = lock
  BY <1>1, <1>3 DEF Reconnect, Lists
<1>5. Tail(<<l>>) = <<>>
  OBVIOUS
<1> QED
  BY <1>1, <1>2, <1>4, <1>5 DEF LInv

LEMMA NextLInv == IInv /\ TInv /\ LInv /\ [Next]_vars => LInv'
<1> SUFFICES ASSUME IInv, TInv, LInv, [Next]_vars PROVE LInv'
  OBVIOUS
<1>1. ASSUME NEW t \in AllThreads, Step(t)
      PROVE  LInv'
  BY <1>1, LocksStep
<1>2. CASE IoStep
  BY <1>2, LocksIo
<1>3. CASE DealReply \/ DealPublication
  BY <1>3, LocksDeal
<1>4. CASE Reconnect
  BY <1>4, LocksReconnect
<1>5. CASE Send \/ Written \/ Lose \/ ServerDeal \/ Respond \/ Publish \/ UNCHANGED vars
  <2>1. todo' = todo /\ lock' = lock
    BY <1>5 DEF Send, Written, Lose, ServerDeal, Respond, Publish, vars, appVars
  <2> QED
    BY <2>1 DEF LInv
<1> QED
  BY <1>1, <1>2, <1>3, <1>4, <1>5 DEF Next

(* Whatever programs and callbacks do, nobody waits for a mutex in vain    *)
(* unless a callback of a subscription subscribes or cancels.              *)
THEOREM NoDeadlock == Spec => []MutexesComeFree
<1>1. IInv /\ LInv => MutexesComeFree
  <2> SUFFICES ASSUME IInv, LInv PROVE MutexesComeFree
    OBVIOUS
  <2>1. ASSUME NEW m \in {"req", "sub"}, lock[m] # Free
        PROVE  lock[m] = Io /\ todo[Io] # <<>>
    BY <2>1 DEF LInv, Ends
  <2>2. ASSUME Waits(Io)
        PROVE  Reentered
    <3>1. CASE At(Io, "lock") /\ lock["sub"] # Free
      <4>1. List(todo[Io]) /\ todo[Io] # <<>> /\ Head(todo[Io]).do = "lock"
        BY <3>1 DEF At, IInv, Lists, AllThreads
      <4>2. Head(todo[Io]) \in ElementsOf(todo[Io])
        BY <4>1, ListTail
      <4> QED
        BY <3>1, <4>1, <4>2 DEF LInv, Locking
    <3> QED
      BY <2>2, <3>1 DEF Waits, LInv, Reentered
  <2> QED
    BY <2>1, <2>2 DEF MutexesComeFree
<1>2. IInv /\ TInv /\ LInv /\ [Next]_vars => LInv'
  BY NextLInv
<1> QED
  BY Inductive, TypedAlways, InitLInv, <1>1, <1>2, PTL DEF Spec
=============================================================================
