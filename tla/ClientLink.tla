----------------------------- MODULE ClientLink -----------------------------
(***************************************************************************)
(* The connection of a client and the queue it sends from                  *)
(* (include/rpc_client.hpp), over losses and reconnections.                *)
(*                                                                         *)
(* All handlers run on the one thread of ioc_, in the order in which their *)
(* operations have completed.  None of them knows which connection it was  *)
(* started for: they use socket_ and timer_, whatever these are by then.   *)
(* Closing the socket or connecting again does not recall a completion     *)
(* that is already waiting in the io_context.                              *)
(***************************************************************************)
EXTENDS Naturals, Sequences, FiniteSets

CONSTANTS Threads,     \* application threads
          Keeper,      \* keepalive_thread_
          Io,          \* ioc_thread_
          Modes,       \* the values the application gives to auto_reconnect_
          Callback,    \* BOOLEAN: discon_callback_ is set, and reconnects
          FaultKinds,  \* what may go wrong, see Kinds
          MaxFaults,   \* bound: how often something goes wrong
          MaxConnects, \* bound: calls of connect_async
          MaxQueue     \* bound: packets in send_queue_

(* The connection breaks; an endpoint refuses; the name is not resolved;   *)
(* the timer runs out.                                                     *)
Kinds == {"lose", "refuse", "resolve", "timeout"}

ASSUME LinkAssumption ==
    /\ Keeper \notin Threads
    /\ Io \notin Threads \cup {Keeper}
    /\ Modes \subseteq BOOLEAN /\ Modes # {}
    /\ Callback \in BOOLEAN
    /\ FaultKinds \subseteq Kinds
    /\ MaxFaults \in Nat
    /\ MaxConnects \in Nat \ {0}
    /\ MaxQueue \in Nat \ {0}

AllThreads == Threads \cup {Keeper, Io}

VARIABLES link,           \* socket_, what it and timer_ are doing, what is ready
          att,            \* calls of connect_async so far
          alive,          \* conn_alived_
          auto_reconnect, \* auto_reconnect_
          started,        \* con_cb of the application's connect_async has run
          queued,         \* send_queue_.size()
          pc,             \* pc[t]: where thread t is in write(), re_subscribe()
          faults          \* what has gone wrong so far

vars == <<link, att, alive, auto_reconnect, started, queued, pc, faults>>

(* An operation belongs to the call of connect_async it descends from.     *)
Op == [kind : {"connect", "wait", "read", "write"}, att : 1 .. MaxConnects]

Completion == [op : Op, ok : BOOLEAN]

(* "lost": the connection is broken and the client has not noticed;        *)
(* "unresolved": closed, and connect_async() went no further than the name.*)
Closed == {"closed", "unresolved"}

Sockets == Closed \cup {"connecting", "up", "lost"}

(* "send": has unlocked the mutex of the queue and will call send();       *)
(* "resub": inside re_subscribe(); "resub_send": both.                     *)
Places == {"idle", "send", "resub", "resub_send"}

TypeOK ==
    /\ link \in [sock : Sockets, ops : SUBSET Op, ready : Seq(SUBSET Completion)]
    /\ att \in 0 .. MaxConnects
    /\ alive \in BOOLEAN
    /\ auto_reconnect \in Modes
    /\ started \in BOOLEAN
    /\ queued \in 0 .. MaxQueue
    /\ pc \in [AllThreads -> Places]
    /\ faults \in 0 .. MaxFaults

Init ==
    /\ link = [sock |-> "closed", ops |-> {}, ready |-> <<>>]
    /\ att = 0
    /\ alive = FALSE
    /\ auto_reconnect \in Modes
    /\ started = FALSE
    /\ queued = 0
    /\ pc = [t \in AllThreads |-> "idle"]
    /\ faults = 0

-----------------------------------------------------------------------------
(* An operation that is in progress, or whose handler has still to run.    *)
Has(l, kind) ==
    \/ \E o \in l.ops : o.kind = kind
    \/ \E i \in 1 .. Len(l.ready) : \E c \in l.ready[i] : c.op.kind = kind

(* The io_context: what is posted together may run in any order.           *)
Post(l, cs) == IF cs = {} THEN l ELSE [l EXCEPT !.ready = Append(@, cs)]

Complete(l, os, ok) ==
    Post([l EXCEPT !.ops = @ \ os], {[op |-> o, ok |-> ok] : o \in os})

(* An operation on a socket that is not open fails; on one that is still   *)
(* connecting it fails or waits, depending on the platform.                *)
Starts(l, o) ==
    LET waits == [l EXCEPT !.ops = @ \cup {o}]
        fails == Post(l, {[op |-> o, ok |-> FALSE]})
    IN  CASE l.sock \in Closed     -> {fails}
          [] l.sock = "connecting" -> {waits, fails}
          [] OTHER                 -> {waits}

(* close_socket(): whatever the socket was doing is aborted.               *)
CloseSocket(l) ==
    Complete([l EXCEPT !.sock = IF @ = "unresolved" THEN @ ELSE "closed"],
             {o \in l.ops : o.kind # "wait"}, FALSE)

(* timer_.cancel(): the handler of a cancelled wait returns at once.  One  *)
(* whose time was up before stays ready.                                   *)
CancelTimer(l) == [l EXCEPT !.ops = {o \in @ : o.kind # "wait"}]

Fault(kind) ==
    /\ kind \in FaultKinds
    /\ faults < MaxFaults
    /\ faults' = faults + 1

(* connect_async() on the link l: reset_socket(), resolve, async_connect,  *)
(* and the timer.                                                          *)
ConnectAsync(l) ==
    /\ att < MaxConnects
    /\ att' = att + 1
    /\ \/ /\ Fault("resolve")
          /\ link' = [CloseSocket(l) EXCEPT !.sock = "unresolved"]
       \/ /\ link' = [CancelTimer(CloseSocket(l)) EXCEPT
                        !.sock = "connecting",
                        !.ops = @ \cup {[kind |-> "connect", att |-> att + 1],
                                        [kind |-> "wait", att |-> att + 1]}]
          /\ UNCHANGED faults

(* discon_callback_, as the example sets it after the first connect.       *)
DisconnectedUnheard(l) == link' = l /\ UNCHANGED <<att, faults>>

Disconnected(l) ==
    IF Callback /\ started
    THEN ConnectAsync(l)
    ELSE link' = l /\ UNCHANGED <<att, faults>>

-----------------------------------------------------------------------------
(* The application connects, and again if that has failed ("maybe connect  *)
(* timeout ,then async_connect again").                                    *)
Connect ==
    /\ ~started
    /\ ~Has(link, "connect")
    /\ ConnectAsync(link)
    /\ UNCHANGED <<alive, auto_reconnect, started, queued, pc>>

(* enable_auto_reconnect(), disable_auto_reconnect()                       *)
SetAutoReconnect(mode) ==
    /\ auto_reconnect # mode
    /\ auto_reconnect' = mode
    /\ UNCHANGED <<link, att, alive, started, queued, pc, faults>>

(* The test of write() under the mutex, after the push.                    *)
StartsChainAlways(n) == TRUE
StartsChain(n) == n <= 1

(* write() by thread t, up to the release of the mutex.                    *)
Push(t) ==
    /\ pc[t] = "idle"
    /\ queued < MaxQueue
    /\ queued' = queued + 1
    /\ pc' = [pc EXCEPT ![t] = IF StartsChain(queued') THEN "send" ELSE "idle"]
    /\ UNCHANGED <<link, att, alive, auto_reconnect, started, faults>>

(* Calls and subscriptions, by any thread, after the first connect.        *)
Write(t) == t # Keeper /\ started /\ Push(t)

(* One turn of the keepalive thread.  If the connection breaks between its *)
(* test and its push, the push is one like those of Write.                 *)
KeepAlive == alive /\ Push(Keeper)

(* send(): async_write of the front packet.                                *)
StartWrite == link' \in Starts(link, [kind |-> "write", att |-> att])

Send(t) ==
    /\ pc[t] \in {"send", "resub_send"}
    /\ StartWrite
    /\ pc' = [pc EXCEPT ![t] = IF @ = "send" THEN "idle" ELSE "resub"]
    /\ UNCHANGED <<att, alive, auto_reconnect, started, queued, faults>>

(* re_subscribe(): one write() per topic there is ...                      *)
ReSubscribeTopic ==
    /\ pc[Io] = "resub"
    /\ queued < MaxQueue
    /\ queued' = queued + 1
    /\ pc' = [pc EXCEPT ![Io] = IF StartsChain(queued') THEN "resub_send" ELSE @]
    /\ UNCHANGED <<link, att, alive, auto_reconnect, started, faults>>

(* ... and a send(), whatever was found.                                   *)
ReSubscribeSend ==
    /\ pc[Io] = "resub"
    /\ StartWrite
    /\ pc' = [pc EXCEPT ![Io] = "idle"]
    /\ UNCHANGED <<att, alive, auto_reconnect, started, queued, faults>>

-----------------------------------------------------------------------------
(* The handlers.  The io thread takes the first completion that is ready;  *)
(* l is the link without it.                                               *)
Ready == IF link.ready = <<>> THEN {} ELSE Head(link.ready)

Rest(q, c) == IF Head(q) = {c} THEN Tail(q) ELSE [q EXCEPT ![1] = @ \ {c}]

Without(c) == [link EXCEPT !.ready = Rest(@, c)]

Handler(c, kind, ok) == pc[Io] = "idle" /\ c.op.kind = kind /\ c.ok = ok

(* async_connect has succeeded (it reports a failure if the socket has     *)
(* been closed in the meantime): spawn the read coroutine, which starts    *)
(* reading; then con_cb, which is re_subscribe() in a reconnection.        *)
Connected(c) ==
    /\ Handler(c, "connect", TRUE)
    /\ link.sock \notin Closed
    /\ link' \in {CancelTimer(l) : l \in Starts(Without(c), [c.op EXCEPT !.kind = "read"])}
    /\ alive' = TRUE
    /\ started' = TRUE
    /\ pc' = [pc EXCEPT ![Io] = IF started THEN "resub" ELSE "idle"]
    /\ UNCHANGED <<att, auto_reconnect, queued, faults>>

ConnectFailed(c) ==
    /\ Handler(c, "connect", c.ok)
    /\ ~c.ok \/ link.sock \in Closed
    /\ Disconnected(CancelTimer(Without(c)))
    /\ UNCHANGED <<alive, auto_reconnect, started, queued, pc>>

(* The time is up.                                                         *)
TimedOut(c) ==
    /\ Handler(c, "wait", TRUE)
    /\ link' = CloseSocket(Without(c))
    /\ UNCHANGED <<att, alive, auto_reconnect, started, queued, pc, faults>>

(* The read coroutine has a message: deal(), and the next async_read.      *)
Received(c) ==
    /\ Handler(c, "read", TRUE)
    /\ link' \in Starts(Without(c), c.op)
    /\ UNCHANGED <<att, alive, auto_reconnect, started, queued, pc, faults>>

(* conn_alived_ after an error of the read coroutine.  The first is the    *)
(* line that is commented out.                                             *)
AliveAfterReadErrorCleared == FALSE
AliveAfterReadError == alive

ReadFailed(c) ==
    /\ Handler(c, "read", FALSE)
    /\ link' = CloseSocket(Without(c))
    /\ alive' = AliveAfterReadError
    /\ UNCHANGED <<att, auto_reconnect, started, queued, pc, faults>>

(* A write has ended well: pop, and send the next packet if there is one.  *)
ContinuesNever(n) == FALSE
ContinuesAlways(n) == TRUE
Continues(n) == n > 0

Written(c) ==
    /\ Handler(c, "write", TRUE)
    /\ link' = Without(c)
    /\ queued' = queued - 1
    /\ pc' = [pc EXCEPT ![Io] = IF Continues(queued') THEN "send" ELSE "idle"]
    /\ UNCHANGED <<att, alive, auto_reconnect, started, faults>>

(* A write has failed: the packet stays, close, reconnect.                 *)
QueueAfterErrorPopped == queued - 1
QueueAfterError == queued

WriteFailed(c) ==
    /\ Handler(c, "write", FALSE)
    /\ alive' = FALSE
    /\ queued' = QueueAfterError
    /\ IF auto_reconnect
       THEN ConnectAsync(CloseSocket(Without(c)))
       ELSE Disconnected(CloseSocket(Without(c)))
    /\ UNCHANGED <<auto_reconnect, started, pc>>

Handle(c) ==
    \/ Connected(c) \/ ConnectFailed(c)
    \/ TimedOut(c)
    \/ Received(c)  \/ ReadFailed(c)
    \/ Written(c)   \/ WriteFailed(c)

-----------------------------------------------------------------------------
(* The operating system.                                                   *)
Ends(kind, ok) ==
    /\ \E o \in link.ops : o.kind = kind /\ link' = Complete(link, {o}, ok)
    /\ UNCHANGED <<att, alive, auto_reconnect, started, queued, pc>>

EndsConnect ==
    /\ link.sock = "connecting"
    /\ \E o \in link.ops :
          /\ o.kind = "connect"
          /\ link' = [Complete(link, {o}, TRUE) EXCEPT !.sock = "up"]
    /\ UNCHANGED <<att, alive, auto_reconnect, started, queued, pc, faults>>

Refuse ==
    /\ Fault("refuse")
    /\ \E o \in link.ops :
          /\ o.kind = "connect"
          /\ link' = CloseSocket(link)
    /\ UNCHANGED <<att, alive, auto_reconnect, started, queued, pc>>

EndsRead == link.sock = "up" /\ Ends("read", TRUE) /\ UNCHANGED faults

EndsWrite == link.sock \in {"up", "lost"} /\ Ends("write", TRUE) /\ UNCHANGED faults

FailsRead == link.sock = "lost" /\ Ends("read", FALSE) /\ UNCHANGED faults

FailsWrite == link.sock = "lost" /\ Ends("write", FALSE) /\ UNCHANGED faults

Timeout == Fault("timeout") /\ Ends("wait", TRUE)

Lose ==
    /\ link.sock = "up"
    /\ Fault("lose")
    /\ link' = [link EXCEPT !.sock = "lost"]
    /\ UNCHANGED <<att, alive, auto_reconnect, started, queued, pc>>

Next ==
    \/ Connect
    \/ \E mode \in Modes : SetAutoReconnect(mode)
    \/ \E t \in AllThreads : Write(t) \/ Send(t)
    \/ KeepAlive
    \/ ReSubscribeTopic \/ ReSubscribeSend
    \/ \E c \in Ready : Handle(c)
    \/ EndsConnect \/ Refuse
    \/ EndsRead \/ FailsRead
    \/ EndsWrite \/ FailsWrite
    \/ Timeout \/ Lose

Spec == Init /\ [][Next]_vars

(* Threads go on; ioc_ runs what is ready; the keepalive thread wakes up   *)
(* again and again; a server that is there accepts, and reads; writing     *)
(* again and again to a connection that is gone fails some time.  Nothing  *)
(* is assumed of a read: a silent loss never wakes it.                     *)
Fairness ==
    /\ \A t \in AllThreads : WF_vars(Send(t))
    /\ WF_vars(ReSubscribeSend)
    /\ SF_vars(\E c \in Ready : Handle(c))
    /\ SF_vars(KeepAlive)
    /\ WF_vars(EndsConnect)
    /\ WF_vars(EndsWrite)
    /\ SF_vars(FailsWrite)

FairSpec == Spec /\ Fairness

-----------------------------------------------------------------------------
(* Consumers of send_queue_: a thread on its way to send(), or a write     *)
(* that is in progress or has ended with its handler still to come.        *)
Senders == {t \in AllThreads : pc[t] \in {"send", "resub_send"}}

Writing == Has(link, "write")

(* The queue has at most one consumer, also while a write fails and the    *)
(* queue is taken over by re_subscribe() on the next connection.           *)
OneSender ==
    /\ \A t, u \in Senders : t = u
    /\ Senders = {} \/ ~Writing
    /\ pc[Io] = "resub" => Senders = {} /\ ~Writing

(* Who reads or pops the front of the queue finds one: the completion of a *)
(* write, failed or not ("here send_queue_ size must be >=1"), a thread on *)
(* its way to send(), and re_subscribe() ("at least has one msg").         *)
FrontStays == Senders # {} \/ Writing \/ pc[Io] = "resub" => queued > 0

(* While the client takes itself for connected, a packet in the queue has  *)
(* somebody who sends it, however many connections came before.            *)
BacklogHasSender ==
    alive /\ queued > 0 => Senders # {} \/ Writing \/ pc[Io] = "resub"

(* connect_async() replaces socket_ without a lock: no other thread is on  *)
(* its way to async_write on it.                                           *)
SocketReplacedAlone == [][att' # att => Senders = {}]_vars

(* A client whose callback reconnects and whose connection is gone always  *)
(* has the next attempt underway, unless the name was not resolved, and an *)
(* attempt that is waited for can still end: its socket is connecting.     *)
KeepsTrying ==
    /\ Callback /\ started /\ ~alive => Has(link, "connect") \/ link.sock = "unresolved"
    /\ \A o \in link.ops : o.kind = "connect" => link.sock = "connecting"

(* A client that takes itself for connected while its connection is gone,  *)
(* silently or not, connects again: the keepalive finds out.               *)
LossNoticed ==
    \A a \in 1 .. MaxConnects - 1 :
        alive /\ link.sock \in Closed \cup {"lost"} /\ att = a ~> att > a

(* After a write error the client connects again ("close the connection.   *)
(* Then reconnect"), whatever fails in between; only a name that is not    *)
(* resolved ends the attempts, as connect_async() then calls nobody back.  *)
Reconnected == started /\ ~alive ~> alive \/ link.sock = "unresolved"
=============================================================================
