---------------------------- MODULE SessionSend ----------------------------
(***************************************************************************)
(* The sending side of one server session (include/rpc_server_session.hpp).*)
(*                                                                         *)
(* A session has three ways to put a frame on its socket:                  *)
(*   "req_res"  respond(): write() appends to send_queue_ from any thread; *)
(*   "sub_pub"  publish(): publish_write() appends to pub_send_queue_;     *)
(*   "coro"     coro_respond(): the read coroutine calls async_write       *)
(*              itself and is suspended until it completes.                *)
(* Each queue is drained by a chain of asynchronous writes.  The thread    *)
(* whose push finds the queue empty starts the chain, the completion       *)
(* handler of a write continues it, and the hand-over between the two goes *)
(* through the length of the queue only.                                   *)
(***************************************************************************)
EXTENDS Naturals, Sequences

CONSTANTS Threads,  \* application threads that respond or publish
          Io,       \* the thread of the session's io_context
          Packets,  \* frames, whatever they contain
          Uses,     \* the ways of writing that the application uses
          Chunks,   \* async_write_some calls that one frame takes
          MaxPush   \* bound: packets accepted, all ways of writing together

Channels == {"req_res", "sub_pub"}

Writers == Channels \cup {"coro"}

ASSUME SendAssumption ==
    /\ Io \notin Threads
    /\ Uses \subseteq Writers
    /\ Chunks \in Nat \ {0}
    /\ MaxPush \in Nat

AllThreads == Threads \cup {Io}

VARIABLES queue,   \* queue[c]: send_queue_, pub_send_queue_
          pc,      \* pc[t] = c: t has unlocked the queue and will call send<c>()
          writes,  \* the async_write operations outstanding on the socket
          wire,    \* history: what the socket has taken
          sent,    \* history: packets whose write completed without error
          open     \* socket_.is_open()

vars == <<queue, pc, writes, wire, sent, open>>

Write == [by : Writers, pkt : Packets, done : 0 .. Chunks]

Chunk == [by : Writers, pkt : Packets, nr : 1 .. Chunks]

TypeOK ==
    /\ queue \in [Channels -> Seq(Packets)]
    /\ pc \in [AllThreads -> Channels \cup {"idle"}]
    /\ writes \in SUBSET Write
    /\ wire \in Seq(Chunk)
    /\ sent \in [Writers -> Seq(Packets)]
    /\ open \in BOOLEAN

Init ==
    /\ queue = [c \in Channels |-> <<>>]
    /\ pc = [t \in AllThreads |-> "idle"]
    /\ writes = {}
    /\ wire = <<>>
    /\ sent = [w \in Writers |-> <<>>]
    /\ open = TRUE

-----------------------------------------------------------------------------
(* The test under the queue's mutex after a push: only the thread that has *)
(* found the queue empty goes on to send().                                *)
StartsChainAlways(q) == TRUE
StartsChain(q) == Len(q) = 1

(* The test under the mutex after pop_front in the completion handler.     *)
ContinuesNever(q) == FALSE
ContinuesAlways(q) == TRUE
Continues(q) == q # <<>>

(* pop_front                                                               *)
PopElement(q) == Head(q)
PopLast(q) == SubSeq(q, 1, Len(q) - 1)
Pop(q) == Tail(q)

(* What the bound counts.                                                  *)
Accepted ==
    Len(queue["req_res"]) + Len(queue["sub_pub"])
    + Len(sent["req_res"]) + Len(sent["sub_pub"]) + Len(sent["coro"])
    + (IF \E w \in writes : w.by = "coro" THEN 1 ELSE 0)

(* write(), publish_write() up to the release of the queue's mutex.  The   *)
(* io thread is a caller too: a handler may respond or publish.            *)
Push(t, c, p) ==
    /\ pc[t] = "idle"
    /\ Accepted < MaxPush
    /\ queue' = [queue EXCEPT ![c] = Append(@, p)]
    /\ pc' = [pc EXCEPT ![t] = IF StartsChain(queue'[c]) THEN c ELSE "idle"]
    /\ UNCHANGED <<writes, wire, sent, open>>

(* send<c>(): take the address of the front packet, start async_write.     *)
Send(t, c) ==
    /\ pc[t] = c
    /\ writes' = writes \cup {[by |-> c, pkt |-> Head(queue[c]), done |-> 0]}
    /\ pc' = [pc EXCEPT ![t] = "idle"]
    /\ UNCHANGED <<queue, wire, sent, open>>

(* coro_respond() -> coro_write(): the coroutine writes past the queues.   *)
CoroWrite(p) ==
    /\ pc[Io] = "idle"
    /\ \A w \in writes : w.by # "coro"
    /\ Accepted < MaxPush
    /\ writes' = writes \cup {[by |-> "coro", pkt |-> p, done |-> 0]}
    /\ UNCHANGED <<queue, pc, wire, sent, open>>

(* One async_write_some of the composed operation async_write.             *)
WriteSome(w) ==
    /\ open
    /\ w.done < Chunks
    /\ wire' = Append(wire, [by |-> w.by, pkt |-> w.pkt, nr |-> w.done + 1])
    /\ writes' = (writes \ {w}) \cup {[w EXCEPT !.done = @ + 1]}
    /\ UNCHANGED <<queue, pc, sent, open>>

(* Completion handler of send<c>() without error: pop, then go on to       *)
(* send() after the mutex is released if a packet is left.                 *)
WriteDone(w) ==
    LET c == w.by IN
    /\ c \in Channels
    /\ pc[Io] = "idle"
    /\ w.done = Chunks
    /\ queue' = [queue EXCEPT ![c] = Pop(@)]
    /\ pc' = [pc EXCEPT ![Io] = IF Continues(queue'[c]) THEN c ELSE "idle"]
    /\ writes' = writes \ {w}
    /\ sent' = [sent EXCEPT ![c] = Append(@, w.pkt)]
    /\ UNCHANGED <<wire, open>>

(* The coroutine resumes after its async_write.                            *)
CoroDone(w) ==
    /\ w.by = "coro"
    /\ pc[Io] = "idle"
    /\ w.done = Chunks
    /\ writes' = writes \ {w}
    /\ sent' = [sent EXCEPT !["coro"] = Append(@, w.pkt)]
    /\ UNCHANGED <<queue, pc, wire, open>>

(* A write ends with an error, of its own or because the socket has been   *)
(* closed: all three ways close the socket and leave the queue as it is.   *)
WriteFail(w) ==
    /\ pc[Io] = "idle"
    /\ w.done < Chunks
    /\ writes' = writes \ {w}
    /\ open' = FALSE
    /\ UNCHANGED <<queue, pc, wire, sent>>

(* close_socket() by the read coroutine, the kick timer or the application *)
CloseSocket ==
    /\ open
    /\ open' = FALSE
    /\ UNCHANGED <<queue, pc, writes, wire, sent>>

Next ==
    \/ \E t \in AllThreads, c \in Channels \cap Uses, p \in Packets : Push(t, c, p)
    \/ \E t \in AllThreads, c \in Channels : Send(t, c)
    \/ \E p \in Packets : "coro" \in Uses /\ CoroWrite(p)
    \/ \E w \in writes : WriteSome(w)
    \/ \E w \in writes : WriteDone(w)
    \/ \E w \in writes : CoroDone(w)
    \/ \E w \in writes : WriteFail(w)
    \/ CloseSocket

Spec == Init /\ [][Next]_vars

(* The writes of one way of writing.                                       *)
Ongoing(c) == {w \in writes : w.by = c}

Senders(c) == {t \in AllThreads : pc[t] = c}

(* A thread that has left the mutex calls send() at once; the peer keeps   *)
(* reading while the connection is open; the io_context runs its handlers  *)
(* in the order in which they became ready, so none of them waits forever. *)
Fairness ==
    /\ \A t \in AllThreads, c \in Channels : WF_vars(Send(t, c))
    /\ \A by \in Writers : WF_vars(\E w \in Ongoing(by) : WriteSome(w))
    /\ \A by \in Writers : SF_vars(\E w \in Ongoing(by) : WriteDone(w) \/ CoroDone(w))

FairSpec == Spec /\ Fairness

-----------------------------------------------------------------------------
(* Of one queue there is at most one consumer: a thread on its way to      *)
(* send() or an outstanding write, never two of them, whatever the         *)
(* interleaving of pushes and completions ("consumer must be only one").   *)
SingleConsumer ==
    \A c \in Channels :
        /\ \A t, u \in Senders(c) : t = u
        /\ \A v, w \in Ongoing(c) : v = w
        /\ Senders(c) = {} \/ Ongoing(c) = {}

(* The memory an outstanding write refers to is still in the queue: the    *)
(* write is of the front packet, and a thread on its way to send() will    *)
(* find a front packet.                                                    *)
FrontStable ==
    \A c \in Channels :
        /\ \A w \in Ongoing(c) : queue[c] # <<>> /\ w.pkt = Head(queue[c])
        /\ Senders(c) # {} => queue[c] # <<>>

(* No push is lost between the test of a pusher and the test of a          *)
(* completion handler: while the socket is open, a queue that is not empty *)
(* has a consumer.                                                         *)
NoLostWakeup ==
    \A c \in Channels :
        open /\ queue[c] # <<>> => Senders(c) # {} \/ Ongoing(c) # {}

(* A frame is on the wire in one piece: its chunks follow one another with *)
(* nothing in between, so that the peer, which reads a header and then the *)
(* lengths in it, finds the frames that were sent.                         *)
FramesIntact ==
    \A i \in 1 .. Len(wire) :
        IF wire[i].nr = 1
        THEN i = 1 \/ wire[i - 1].nr = Chunks
        ELSE i > 1 /\ wire[i - 1] = [wire[i] EXCEPT !.nr = @ - 1]

(* As long as only one of the three ways of writing has been used, whole   *)
(* frames are all there is on the wire, although a frame may take several  *)
(* partial writes and several threads push.                                *)
OneWayIntact ==
    LET used == {w.by : w \in writes} \cup {wire[i].by : i \in 1 .. Len(wire)}
    IN  (\A by, other \in used : by = other) => FramesIntact

(* What a session promises of each of its queues.                          *)
Respond == INSTANCE FifoChannel
               WITH pending <- queue["req_res"], delivered <- sent["req_res"]

Publish == INSTANCE FifoChannel
               WITH pending <- queue["sub_pub"], delivered <- sent["sub_pub"]

(* Responses leave in the order of the calls of respond(), each once, and  *)
(* all of them while the connection is open.                               *)
RespondIsFifo == Respond!Spec

(* The same of the packets published to this session.                      *)
PublishIsFifo == Publish!Spec
=============================================================================
