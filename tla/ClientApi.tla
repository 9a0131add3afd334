----------------------------- MODULE ClientApi -----------------------------
(***************************************************************************)
(* What an application does with a client, and what the server makes of it:*)
(* calls, subscriptions and cancellations by several threads and from      *)
(* inside callbacks, over a connection that breaks and is made again.      *)
(* (include/rpc_client.hpp; deal() of include/rpc_server_session.hpp.)     *)
(*                                                                         *)
(* A thread is the list of the steps it still has to take.  A call of the  *)
(* interface is replaced by what is left of it whenever it is between two  *)
(* critical sections.  ClientLink has the details of connecting and of     *)
(* sending; here the connection is up or down, and the queue goes out in   *)
(* order.                                                                  *)
(***************************************************************************)
EXTENDS TagList

CONSTANTS Threads,    \* application threads
          Io,         \* ioc_thread_, which runs every callback
          Free,       \* a mutex that nobody holds
          Programs,   \* what the threads may be about to do
          Handlers,   \* Handlers[c]: what callback c does
          Callbacks,  \* names of calls, and of their callbacks
          Topics,     \* topics; also the names of their callbacks
          Characters, \* what tags are made of, the bar among them
          Silent,     \* calls with nullptr for a callback
          Unanswered, \* calls of methods that are not registered, or fail
          MaxLosses,  \* bound: how often the connection breaks
          MaxPublish, \* bound: publications
          MaxTag      \* bound: length of the tags that TagsSurvive tries besides

AllThreads == Threads \cup {Io}

(* What an application may call; all tags are still to be bound.           *)
ApiStep ==
    [do : {"call"}, call : Callbacks]
        \cup {s \in [do : {"subscribe"}, topic : Topics,
                     tags : Seq(Characters), left : Seq(Seq(Characters))] : s.left = Split(s.tags)}
        \cup [do : {"cancel"}, topic : Topics, tags : Seq(Characters)]

ASSUME ApiAssumption ==
    /\ \A p \in Programs : p \in [Threads -> Seq(ApiStep)]
    /\ Handlers \in [Callbacks \cup Topics -> Seq(ApiStep)]
    /\ Io \notin Threads
    /\ Free \notin AllThreads
    /\ Silent \subseteq Callbacks /\ Unanswered \subseteq Callbacks
    /\ "|" \in Characters
    /\ MaxLosses \in Nat /\ MaxPublish \in Nat /\ MaxTag \in Nat

VARIABLES todo,        \* todo[t]: the steps thread t has still to take
          lock,        \* holders of req_cb_mtx_ and sub_cb_mtx_
          message_id,  \* message_id_
          req_cb,      \* req_cb_map_: whose callback is bound to an id
          sub_cb,      \* sub_cb_map_: the (topic, tag) pairs with a callback
          send_queue,  \* send_queue_
          writing,     \* the front of send_queue_ is being written
          up,          \* the connection is whole
          inbox,       \* on the way to the session, or not dealt with
          served,      \* the pairs the session is subscribed to
          running,     \* requests in the hands of handlers
          outbox,      \* on the way to the client
          bounds,      \* losses and publications so far
          answers,     \* history: callbacks run, with the reply they got
          gone,        \* history: bound ids whose request or reply is lost
          raced         \* history: pairs cancelled while being subscribed to

appVars == <<todo, lock, message_id, req_cb, sub_cb>>
linkVars == <<send_queue, writing, up>>
serverVars == <<inbox, served, running, outbox>>
ghosts == <<answers, gone, raced>>
vars == <<appVars, linkVars, serverVars, bounds, ghosts>>

Init ==
    /\ \E p \in Programs : todo = [t \in AllThreads |-> IF t = Io THEN <<>> ELSE p[t]]
    /\ lock = [m \in {"req", "sub"} |-> Free]
    /\ message_id = 1
    /\ req_cb = <<>>
    /\ sub_cb = {}
    /\ send_queue = <<>>
    /\ writing = FALSE
    /\ up = TRUE
    /\ inbox = <<>>
    /\ served = {}
    /\ running = {}
    /\ outbox = <<>>
    /\ bounds = [losses |-> 0, published |-> 0]
    /\ answers = <<>>
    /\ gone = {}
    /\ raced = {}

-----------------------------------------------------------------------------
(* Steps and packets.                                                      *)
Call(k) == [do |-> "call", call |-> k]
Subscribing(topic, tags, left) ==
    [do |-> "subscribe", topic |-> topic, tags |-> tags, left |-> left]
Subscribe(topic, tags) == Subscribing(topic, tags, Split(tags))
Cancel(topic, tags) == [do |-> "cancel", topic |-> topic, tags |-> tags]
Write(packet) == [do |-> "write", packet |-> packet]
Lock == [do |-> "lock"]
ReSubscribing(topics) == [do |-> "resubscribe", topics |-> topics]
Unlock == [do |-> "unlock"]

Request(id, k) == [type |-> "req_res", id |-> id, call |-> k]
Sub(topic, tags) == [type |-> "sub_pub", topic |-> topic, tags |-> tags]
CancelSub(topic, tags) == [type |-> "cancel_sub_pub", topic |-> topic, tags |-> tags]
KeepAlived == [type |-> "keepalived"]

Pairs(topic, list) == {<<topic, list[i]>> : i \in DOMAIN list}

TopicsOf(pairs) == {pair[1] : pair \in pairs}
TagsOf(pairs, topic) == {pair[2] : pair \in {q \in pairs : q[1] = topic}}

(* Thread t is at a step of this kind; what replaces it.                   *)
At(t, do) == todo[t] # <<>> /\ Head(todo[t]).do = do

Goes(t, steps) == todo' = [todo EXCEPT ![t] = steps \o Tail(@)]

-----------------------------------------------------------------------------
(* remote_call_async(), first half: bind_cb().                             *)
NextIdSame(id) == id
NextId(id) == id + 1

BindCb(t) ==
    /\ At(t, "call")
    /\ lock["req"] = Free
    /\ LET k == Head(todo[t]).call IN
        /\ req_cb' = IF k \in Silent THEN req_cb
                     ELSE [i \in DOMAIN req_cb \cup {message_id} |->
                              IF i = message_id THEN k ELSE req_cb[i]]
        /\ Goes(t, <<Write(Request(message_id, k))>>)
    /\ message_id' = NextId(message_id)
    /\ UNCHANGED <<lock, sub_cb, linkVars, serverVars, bounds, ghosts>>

(* write(): the packet is appended; the queue goes out by itself (Send).   *)
WritePacket(t) ==
    /\ At(t, "write")
    /\ send_queue' = Append(send_queue, Head(todo[t]).packet)
    /\ Goes(t, <<>>)
    /\ UNCHANGED <<lock, message_id, req_cb, sub_cb, writing, up, serverVars, bounds, ghosts>>

(* subscribe(): one tag gets its callback; behind the last, the message.   *)
SetCallback(t) ==
    /\ At(t, "subscribe")
    /\ lock["sub"] = Free
    /\ LET s == Head(todo[t]) IN
        /\ sub_cb' = sub_cb \cup {<<s.topic, Head(s.left)>>}
        /\ Goes(t, IF Len(s.left) > 1
                   THEN <<Subscribing(s.topic, s.tags, Tail(s.left))>>
                   ELSE <<Write(Sub(s.topic, s.tags))>>)
    /\ UNCHANGED <<lock, message_id, req_cb, linkVars, serverVars, bounds, ghosts>>

(* The pairs that thread u has given a callback and not yet written of.    *)
HalfDone(u) ==
    IF At(u, "subscribe")
    THEN LET s == Head(todo[u])
         IN  Pairs(s.topic, Split(s.tags)) \ Pairs(s.topic, s.left)
    ELSE IF At(u, "write") /\ Head(todo[u]).packet.type = "sub_pub"
    THEN Pairs(Head(todo[u]).packet.topic, Split(Head(todo[u]).packet.tags))
    ELSE {}

(* cancel_subscribe(): all of it under the mutex, the push included.       *)
CancelSubscribe(t) ==
    /\ At(t, "cancel")
    /\ lock["sub"] = Free
    /\ LET c == Head(todo[t])
           ps == Pairs(c.topic, Split(c.tags))
       IN  IF c.topic \notin TopicsOf(sub_cb)
           THEN UNCHANGED <<sub_cb, send_queue, raced>>
           ELSE /\ sub_cb' = sub_cb \ ps
                /\ send_queue' = Append(send_queue, CancelSub(c.topic, c.tags))
                /\ raced' = raced \cup UNION {ps \cap HalfDone(u) : u \in AllThreads \ {t}}
    /\ Goes(t, <<>>)
    /\ UNCHANGED <<lock, message_id, req_cb, writing, up, serverVars, bounds, answers, gone>>

(* re_subscribe(): the mutex, ...                                          *)
LockSubs ==
    /\ At(Io, "lock")
    /\ lock["sub"] = Free
    /\ lock' = [lock EXCEPT !["sub"] = Io]
    /\ Goes(Io, <<ReSubscribing(TopicsOf(sub_cb)), Unlock>>)
    /\ UNCHANGED <<message_id, req_cb, sub_cb, linkVars, serverVars, bounds, ghosts>>

(* ... one message per topic, with all its tags, ...                       *)
ReSubscribeTopic ==
    /\ At(Io, "resubscribe")
    /\ \E topic \in Head(todo[Io]).topics :
        /\ \E list \in Orders(TagsOf(sub_cb, topic)) :
              send_queue' = Append(send_queue, Sub(topic, Join(list)))
        /\ Goes(Io, <<ReSubscribing(Head(todo[Io]).topics \ {topic})>>)
    /\ UNCHANGED <<lock, message_id, req_cb, sub_cb, writing, up, serverVars, bounds, ghosts>>

(* ... and send(), which sets the queue going again.                       *)
ReSubscribeSend ==
    /\ At(Io, "resubscribe")
    /\ Head(todo[Io]).topics = {}
    /\ Goes(Io, <<>>)
    /\ UNCHANGED <<lock, message_id, req_cb, sub_cb, linkVars, serverVars, bounds, ghosts>>

(* The end of a scope on the io thread.                                    *)
Release ==
    /\ At(Io, "unlock")
    /\ lock' = [lock EXCEPT !["req"] = IF @ = Io THEN Free ELSE @, !["sub"] = Free]
    /\ Goes(Io, <<>>)
    /\ UNCHANGED <<message_id, req_cb, sub_cb, linkVars, serverVars, bounds, ghosts>>

Step(t) == BindCb(t) \/ WritePacket(t) \/ SetCallback(t) \/ CancelSubscribe(t)

IoStep == LockSubs \/ ReSubscribeTopic \/ ReSubscribeSend \/ Release

-----------------------------------------------------------------------------
(* The client's deal(): a reply.  The callback leaves the map, the mutex   *)
(* is released, the callback runs.                                         *)
HeldInReplyToo == {"req"}
HeldInReply == {}

CallbacksKept(id) == req_cb
CallbacksAfter(id) == [i \in DOMAIN req_cb \ {id} |-> req_cb[i]]

DealReply ==
    /\ todo[Io] = <<>> /\ outbox # <<>> /\ Head(outbox).type = "req_res"
    /\ lock["req"] = Free
    /\ LET r == Head(outbox) IN
        IF r.id \notin DOMAIN req_cb
        THEN UNCHANGED <<todo, lock, req_cb, answers>>
        ELSE /\ req_cb' = CallbacksAfter(r.id)
             /\ answers' = Append(answers, [id |-> r.id, cb |-> req_cb[r.id], reply |-> r.call])
             /\ todo' = [todo EXCEPT ![Io] = Append(Handlers[req_cb[r.id]], Unlock)]
             /\ lock' = [m \in DOMAIN lock |-> IF m \in HeldInReply THEN Io ELSE lock[m]]
    /\ outbox' = Tail(outbox)
    /\ UNCHANGED <<message_id, sub_cb, linkVars, inbox, served, running, bounds, gone, raced>>

(* The client's deal(): a publication.  The callback runs under the mutex. *)
DealPublication ==
    /\ todo[Io] = <<>> /\ outbox # <<>> /\ Head(outbox).type = "sub_pub"
    /\ lock["sub"] = Free
    /\ IF Head(outbox).pair \in sub_cb
       THEN /\ lock' = [lock EXCEPT !["sub"] = Io]
            /\ todo' = [todo EXCEPT ![Io] = Append(Handlers[Head(outbox).pair[1]], Unlock)]
       ELSE UNCHANGED <<todo, lock>>
    /\ outbox' = Tail(outbox)
    /\ UNCHANGED <<message_id, req_cb, sub_cb, linkVars, inbox, served, running, bounds, ghosts>>

-----------------------------------------------------------------------------
(* send().  On a connection that has broken unnoticed a write may still    *)
(* end well; the packet goes nowhere.  The chain of writes starts again    *)
(* when re_subscribe() is through.                                         *)
Ids(packets) == {packets[i].id : i \in {j \in DOMAIN packets : packets[j].type = "req_res"}}

(* What is lost of these is not sent again, nor is its callback called.    *)
LostOf(ids) == (ids \cap DOMAIN req_cb) \ (IF writing THEN Ids(<<Head(send_queue)>>) ELSE {})

Send ==
    /\ send_queue # <<>> /\ ~writing
    /\ ~At(Io, "lock") /\ ~At(Io, "resubscribe")
    /\ writing' = TRUE
    /\ inbox' = IF up THEN Append(inbox, Head(send_queue)) ELSE inbox
    /\ UNCHANGED <<appVars, send_queue, up, served, running, outbox, bounds, ghosts>>

(* The write has ended well.                                               *)
Written ==
    /\ writing /\ todo[Io] = <<>>
    /\ writing' = FALSE
    /\ send_queue' = Tail(send_queue)
    /\ gone' = IF up THEN gone
               ELSE gone \cup ((Ids(<<Head(send_queue)>>) \cap DOMAIN req_cb) \ Ids(outbox))
    /\ UNCHANGED <<appVars, up, serverVars, bounds, answers, raced>>

(* The connection breaks.  What the server has received of it is dealt     *)
(* with or not, and cannot be answered any more; what the client has       *)
(* received can still be dealt with.                                       *)
Lose ==
    /\ up /\ bounds.losses < MaxLosses
    /\ up' = FALSE
    /\ gone' = gone \cup LostOf({r.id : r \in running} \cup Ids(inbox))
    /\ inbox' = <<>> /\ served' = {} /\ running' = {}
    /\ bounds' = [bounds EXCEPT !.losses = @ + 1]
    /\ UNCHANGED <<appVars, send_queue, writing, outbox, answers, raced>>

(* A write fails, at the latest that of a keepalive, its packet stays; the *)
(* client connects again, to a new session, and calls re_subscribe().      *)
QueueAfterErrorPopped(q) == Tail(q)
QueueAfterError(q) == q

Reconnect ==
    /\ ~up /\ todo[Io] = <<>>
    /\ up' = TRUE
    /\ writing' = FALSE
    /\ send_queue' = IF send_queue = <<>> THEN <<KeepAlived>> ELSE QueueAfterError(send_queue)
    /\ todo' = [todo EXCEPT ![Io] = <<Lock>>]
    /\ outbox' = <<>>
    /\ gone' = gone \cup LostOf(Ids(outbox))
    /\ UNCHANGED <<lock, message_id, req_cb, sub_cb, inbox, served, running, bounds, answers, raced>>

-----------------------------------------------------------------------------
(* The session's deal().                                                   *)
ServerDeal ==
    /\ inbox # <<>>
    /\ LET p == Head(inbox) IN
        /\ served' = CASE p.type = "sub_pub"        -> served \cup Pairs(p.topic, Split(p.tags))
                       [] p.type = "cancel_sub_pub" -> served \ Pairs(p.topic, Split(p.tags))
                       [] OTHER                     -> served
        /\ running' = IF p.type = "req_res" /\ p.call \notin Unanswered
                      THEN running \cup {p} ELSE running
    /\ inbox' = Tail(inbox)
    /\ UNCHANGED <<appVars, linkVars, outbox, bounds, ghosts>>

(* A handler responds, at once or later and in any order.                  *)
Respond ==
    /\ \E r \in running :
        /\ running' = running \ {r}
        /\ outbox' = Append(outbox, r)
    /\ UNCHANGED <<appVars, linkVars, inbox, served, bounds, ghosts>>

(* rpc_server::publish() finds the session.                                *)
Publish ==
    /\ bounds.published < MaxPublish
    /\ bounds' = [bounds EXCEPT !.published = @ + 1]
    /\ \E pair \in served : outbox' = Append(outbox, [type |-> "sub_pub", pair |-> pair])
    /\ UNCHANGED <<appVars, linkVars, inbox, served, running, ghosts>>

Next ==
    \/ \E t \in AllThreads : Step(t)
    \/ IoStep
    \/ DealReply \/ DealPublication
    \/ Send \/ Written
    \/ Lose \/ Reconnect
    \/ ServerDeal \/ Respond \/ Publish

Spec == Init /\ [][Next]_vars

(* Threads go on, the io thread runs what is ready, the server deals with  *)
(* what arrives and its handlers answer; a client that has lost its        *)
(* connection gets a new one (ClientLink).  Nothing is assumed of losses   *)
(* and of publishers.                                                      *)
Fairness ==
    /\ \A t \in AllThreads : WF_vars(Step(t))
    /\ WF_vars(IoStep)
    /\ WF_vars(DealReply) /\ WF_vars(DealPublication)
    /\ WF_vars(Send) /\ WF_vars(Written)
    /\ WF_vars(Reconnect)
    /\ WF_vars(ServerDeal) /\ WF_vars(Respond)

FairSpec == Spec /\ Fairness

-----------------------------------------------------------------------------
Packet ==
    [type : {"req_res"}, id : Nat, call : Callbacks]
        \cup [type : {"sub_pub", "cancel_sub_pub"}, topic : Topics, tags : Seq(Characters)]
        \cup [type : {"keepalived"}]

TypeOK ==
    /\ lock \in [{"req", "sub"} -> AllThreads \cup {Free}]
    /\ message_id \in Nat
    /\ DOMAIN req_cb \subseteq 1 .. message_id - 1
    /\ sub_cb \subseteq Topics \X Seq(Characters)
    /\ send_queue \in Seq(Packet) /\ inbox \in Seq(Packet)
    /\ writing \in BOOLEAN /\ up \in BOOLEAN
    /\ writing => send_queue # <<>>
    /\ served \subseteq Topics \X Seq(Characters)

(* A callback is called with the reply to its own request, whichever       *)
(* threads call at the same time and in whatever order handlers respond.   *)
OwnReply == \A i \in DOMAIN answers : answers[i].cb = answers[i].reply

(* ... and once, although a request that is written again after a loss may *)
(* be answered twice.                                                      *)
CalledOnce ==
    \A i, j \in DOMAIN answers : answers[i].id = answers[j].id => i = j

(* Where a request or its reply may be.                                    *)
Underway ==
    {Head(todo[t]).packet.id : t \in {u \in AllThreads : At(u, "write") /\ Head(todo[u]).packet.type = "req_res"}}
        \cup Ids(send_queue) \cup Ids(inbox) \cup {r.id : r \in running} \cup Ids(outbox)

(* As long as the callback of a call that the server answers is waiting,   *)
(* its request or its reply is underway, or one of them was lost with a    *)
(* connection; a request that is still to be written again is not lost.    *)
NothingForgotten ==
    \A id \in DOMAIN req_cb :
        req_cb[id] \notin Unanswered => (id \in gone) # (id \in Underway)

(* Nothing is left to do.                                                  *)
Quiet ==
    /\ \A t \in AllThreads : todo[t] = <<>>
    /\ send_queue = <<>> /\ inbox = <<>> /\ up

(* When nothing is left to do, the session has the subscriptions that the  *)
(* client has callbacks for, over any number of reconnections, except for  *)
(* a pair that one thread has cancelled inside another one's subscribe().  *)
SubsInSync == Quiet => sub_cb \ raced = served \ raced

(* What re_subscribe() joins the session splits into the same tags again,  *)
(* whatever tag there were besides, if and only if none but the last ends  *)
(* in a bar: that bar is taken for the first of the separator.             *)
TagsSurvive ==
    At(Io, "resubscribe") =>
        \A topic \in Head(todo[Io]).topics, tag \in Tag(Characters, MaxTag) :
            \A list \in Orders(TagsOf(sub_cb, topic) \cup {tag}) :
                Split(Join(list)) = list <=> \A i \in 1 .. Len(list) - 1 : ~EndsInBar(list[i])

(* A callback of a subscription is about to subscribe or cancel.           *)
Reentered == lock["sub"] = Io /\ (At(Io, "subscribe") \/ At(Io, "cancel"))

(* The next step of thread t has to wait for a mutex.                      *)
Waits(t) ==
    \/ At(t, "call") /\ lock["req"] # Free
    \/ (At(t, "subscribe") \/ At(t, "cancel") \/ At(t, "lock")) /\ lock["sub"] # Free

(* Nobody waits in vain: a mutex that is held across steps is held by the  *)
(* io thread, which is not through with what it is doing and waits for no  *)
(* mutex itself, but for the callbacks that subscribe or cancel.           *)
MutexesComeFree ==
    /\ \A m \in {"req", "sub"} : lock[m] # Free => lock[m] = Io /\ todo[Io] # <<>>
    /\ Waits(Io) => Reentered

(* Every call of the interface returns and everything is sent in the end,  *)
(* whatever callbacks do, unless a callback of a subscription subscribes   *)
(* or cancels: it runs under the mutex that it then waits for.             *)
Settles == <>[](Quiet \/ Reentered)
=============================================================================
