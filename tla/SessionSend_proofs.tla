------------------------- MODULE SessionSend_proofs -------------------------
(***************************************************************************)
(* Proofs about the sending side of a session, for any number of threads,  *)
(* any packets, any subset of the ways of writing and any number of chunks.*)
(***************************************************************************)
EXTENDS SessionSend, TLAPS

(* The hand-over through the length of the queue is correct because four   *)
(* facts hold together: no packet is stranded because of NoLostWakeup, a   *)
(* push that finds the queue empty starts the only chain because of        *)
(* FrontStable, and a completion pops what it wrote because of both.       *)
IInv == TypeOK /\ SingleConsumer /\ FrontStable /\ NoLostWakeup

LEMMA InitIInv == Init => IInv
<1> SUFFICES ASSUME Init PROVE IInv
  OBVIOUS
<1>1. TypeOK
  BY DEF Init, TypeOK, Write, Chunk
<1>2. \A c \in Channels : Senders(c) = {} /\ Ongoing(c) = {} /\ queue[c] = <<>>
  BY DEF Init, Senders, Ongoing, Channels
<1> QED
  BY <1>1, <1>2 DEF IInv, SingleConsumer, FrontStable, NoLostWakeup

LEMMA PushStep ==
    ASSUME IInv, NEW t \in AllThreads, NEW c \in Channels \cap Uses, NEW p \in Packets,
           Push(t, c, p)
    PROVE  IInv'
<1>1. TypeOK'
  BY DEF IInv, TypeOK, Push, AllThreads
<1>2. /\ queue[c] \in Seq(Packets)
      /\ queue'[c] = Append(queue[c], p)
      /\ \A d \in Channels \ {c} : queue'[d] = queue[d]
  BY DEF IInv, TypeOK, Push
<1>3. \A d \in Channels : Ongoing(d)' = Ongoing(d)
  BY DEF Push, Ongoing
<1>4. \A d \in Channels \ {c} : Senders(d)' = Senders(d)
  BY DEF IInv, TypeOK, Push, Senders, Channels
<1>5. queue'[c] # <<>> /\ Head(queue'[c]) \in Packets
  BY <1>2, SMTT(30)
<1>6. CASE queue[c] = <<>>
  <2>1. Senders(c) = {} /\ Ongoing(c) = {}
    BY <1>6 DEF IInv, FrontStable
  <2>2. StartsChain(queue'[c])
    BY <1>2, <1>6 DEF StartsChain
  <2>3. Senders(c)' = {t}
    BY <2>1, <2>2 DEF IInv, TypeOK, Push, Senders, AllThreads
  <2> QED
    BY <1>1, <1>2, <1>3, <1>4, <1>5, <2>1, <2>3, SMTT(30)
    DEF IInv, SingleConsumer, FrontStable, NoLostWakeup, Push
<1>7. CASE queue[c] # <<>>
  <2>1. ~StartsChain(queue'[c])
    BY <1>2, <1>7 DEF StartsChain
  <2>2. Senders(c)' = Senders(c)
    BY <2>1 DEF IInv, TypeOK, Push, Senders, Channels
  <2>3. Head(queue'[c]) = Head(queue[c])
    BY <1>2, <1>7
  <2> QED
    BY <1>1, <1>2, <1>3, <1>4, <1>5, <1>7, <2>2, <2>3, SMTT(30)
    DEF IInv, SingleConsumer, FrontStable, NoLostWakeup, Push
<1> QED
  BY <1>6, <1>7

LEMMA SendStep ==
    ASSUME IInv, NEW t \in AllThreads, NEW c \in Channels, Send(t, c)
    PROVE  IInv'
<1> DEFINE w == [by |-> c, pkt |-> Head(queue[c]), done |-> 0]
<1>1. t \in Senders(c) /\ queue[c] # <<>> /\ Ongoing(c) = {}
  BY DEF IInv, Send, Senders, FrontStable, SingleConsumer
<1>2. w \in Write
  BY <1>1, SendAssumption DEF IInv, TypeOK, Write, Writers
<1>3. TypeOK'
  BY <1>2 DEF IInv, TypeOK, Send
<1>4. Senders(c)' = {}
  BY <1>1 DEF IInv, TypeOK, SingleConsumer, Send, Senders, Channels
<1>5. Ongoing(c)' = {w}
  BY <1>1 DEF Send, Ongoing
<1>6. \A d \in Channels \ {c} : Senders(d)' = Senders(d) /\ Ongoing(d)' = Ongoing(d)
  BY DEF IInv, TypeOK, Send, Senders, Ongoing, Channels
<1>7. queue' = queue /\ open' = open /\ w.pkt = Head(queue[c])
  BY DEF Send
<1>8. SingleConsumer'
  BY <1>4, <1>5, <1>6 DEF IInv, SingleConsumer
<1>9. FrontStable'
  BY <1>1, <1>4, <1>5, <1>6, <1>7 DEF IInv, FrontStable
<1>10. NoLostWakeup'
  BY <1>5, <1>6, <1>7 DEF IInv, NoLostWakeup
<1> QED
  BY <1>3, <1>8, <1>9, <1>10 DEF IInv

LEMMA CoroWriteStep ==
    ASSUME IInv, NEW p \in Packets, CoroWrite(p)
    PROVE  IInv'
<1>1. TypeOK'
  BY SendAssumption DEF IInv, TypeOK, CoroWrite, Write, Writers
<1>2. \A d \in Channels : Senders(d)' = Senders(d) /\ Ongoing(d)' = Ongoing(d)
  BY DEF CoroWrite, Senders, Ongoing, Channels
<1> QED
  BY <1>1, <1>2 DEF IInv, SingleConsumer, FrontStable, NoLostWakeup, CoroWrite

LEMMA WriteSomeStep ==
    ASSUME IInv, NEW w \in writes, WriteSome(w)
    PROVE  IInv'
<1> DEFINE v == [w EXCEPT !.done = @ + 1]
<1>1. /\ w \in Write /\ w.by \in Writers /\ w.pkt \in Packets
      /\ w.done + 1 \in 1 .. Chunks
  <2>1. w \in [by : Writers, pkt : Packets, done : 0 .. Chunks]
    BY DEF IInv, TypeOK, Write
  <2>2. w.done \in 0 .. Chunks /\ w.done < Chunks
    BY <2>1 DEF WriteSome
  <2> QED
    BY <2>1, <2>2, SendAssumption DEF Write
<1>2. v \in Write /\ v.by = w.by /\ v.pkt = w.pkt
  BY <1>1, SendAssumption DEF Write
<1>3. [by |-> w.by, pkt |-> w.pkt, nr |-> w.done + 1] \in Chunk
  BY <1>1 DEF Chunk
<1>4. TypeOK'
  <2>1. wire' \in Seq(Chunk)
    BY <1>3 DEF IInv, TypeOK, WriteSome
  <2>2. writes' = (writes \ {w}) \cup {v}
    BY DEF WriteSome
  <2>3. writes' \in SUBSET Write
    BY <2>2, <1>2 DEF IInv, TypeOK
  <2> QED
    BY <2>1, <2>3 DEF IInv, TypeOK, WriteSome
<1>5. \A d \in Channels :
          /\ Senders(d)' = Senders(d)
          /\ Ongoing(d)' = IF d = w.by THEN (Ongoing(d) \ {w}) \cup {v} ELSE Ongoing(d)
          /\ w.by = d => w \in Ongoing(d)
  BY <1>2 DEF WriteSome, Senders, Ongoing
<1>6. queue' = queue /\ open' = open
  BY DEF WriteSome
<1>7. SingleConsumer'
  BY <1>5 DEF IInv, SingleConsumer
<1>8. FrontStable'
  BY <1>2, <1>5, <1>6 DEF IInv, FrontStable
<1>9. NoLostWakeup'
  BY <1>5, <1>6 DEF IInv, NoLostWakeup
<1> QED
  BY <1>4, <1>7, <1>8, <1>9 DEF IInv

LEMMA WriteDoneStep ==
    ASSUME IInv, NEW w \in writes, WriteDone(w)
    PROVE  IInv'
<1> DEFINE c == w.by
<1>1. c \in Channels /\ w \in Ongoing(c) /\ w.pkt \in Packets
  BY DEF IInv, TypeOK, Write, WriteDone, Ongoing
<1>2. /\ queue[c] \in Seq(Packets) /\ queue[c] # <<>>
      /\ Ongoing(c) = {w} /\ Senders(c) = {}
  BY <1>1 DEF IInv, TypeOK, SingleConsumer, FrontStable
<1>3. /\ queue'[c] = Tail(queue[c]) /\ queue'[c] \in Seq(Packets)
      /\ \A d \in Channels \ {c} : queue'[d] = queue[d]
  BY <1>1, <1>2 DEF IInv, TypeOK, WriteDone, Pop
<1>4. TypeOK'
  <2>1. queue' \in [Channels -> Seq(Packets)]
    BY <1>1, <1>2, <1>3 DEF IInv, TypeOK, WriteDone
  <2>2. pc' \in [AllThreads -> Channels \cup {"idle"}]
    BY <1>1 DEF IInv, TypeOK, WriteDone
  <2>3. sent' \in [Writers -> Seq(Packets)]
    BY <1>1 DEF IInv, TypeOK, WriteDone, Writers
  <2> QED
    BY <2>1, <2>2, <2>3 DEF IInv, TypeOK, WriteDone
<1>5. Ongoing(c)' = {}
  BY <1>2 DEF WriteDone, Ongoing
<1>6. Senders(c)' = IF queue'[c] # <<>> THEN {Io} ELSE {}
  BY <1>1, <1>2 DEF IInv, TypeOK, WriteDone, Continues, Senders, AllThreads, Channels
<1>7. \A d \in Channels \ {c} : Senders(d)' = Senders(d) /\ Ongoing(d)' = Ongoing(d)
  BY DEF IInv, TypeOK, WriteDone, Senders, Ongoing, AllThreads, Channels
<1> QED
  BY <1>1, <1>3, <1>4, <1>5, <1>6, <1>7
  DEF IInv, SingleConsumer, FrontStable, NoLostWakeup, WriteDone

LEMMA CoroDoneStep ==
    ASSUME IInv, NEW w \in writes, CoroDone(w)
    PROVE  IInv'
<1>1. TypeOK'
  BY DEF IInv, TypeOK, CoroDone, Write, Writers
<1>2. \A d \in Channels : Senders(d)' = Senders(d) /\ Ongoing(d)' = Ongoing(d)
  BY DEF CoroDone, Senders, Ongoing, Channels
<1> QED
  BY <1>1, <1>2 DEF IInv, SingleConsumer, FrontStable, NoLostWakeup, CoroDone

(* After a failed write the queue has lost its consumer, but the socket is *)
(* closed: this is the only way in which a queue is left to itself.        *)
LEMMA WriteFailStep ==
    ASSUME IInv, NEW w \in writes, WriteFail(w)
    PROVE  IInv'
<1>1. TypeOK'
  BY DEF IInv, TypeOK, WriteFail
<1>2. \A d \in Channels : Senders(d)' = Senders(d) /\ Ongoing(d)' \subseteq Ongoing(d)
  BY DEF WriteFail, Senders, Ongoing
<1> QED
  BY <1>1, <1>2 DEF IInv, SingleConsumer, FrontStable, NoLostWakeup, WriteFail

LEMMA CloseOrStutterStep ==
    ASSUME IInv, CloseSocket \/ UNCHANGED vars
    PROVE  IInv'
<1>1. \A d \in Channels : Senders(d)' = Senders(d) /\ Ongoing(d)' = Ongoing(d)
  BY DEF CloseSocket, vars, Senders, Ongoing
<1>2. queue' = queue /\ (open' => open)
  BY DEF CloseSocket, vars
<1>3. TypeOK'
  BY DEF IInv, TypeOK, CloseSocket, vars
<1> QED
  BY <1>1, <1>2, <1>3 DEF IInv, SingleConsumer, FrontStable, NoLostWakeup

LEMMA NextIInv == IInv /\ [Next]_vars => IInv'
<1> SUFFICES ASSUME IInv, [Next]_vars PROVE IInv'
  OBVIOUS
<1> QED
  BY PushStep, SendStep, CoroWriteStep, WriteSomeStep, WriteDoneStep, CoroDoneStep,
     WriteFailStep, CloseOrStutterStep
  DEF Next

(* The conjunction of the four invariants is itself inductive.             *)
THEOREM Invariance == Spec => []IInv
BY InitIInv, NextIInv, PTL DEF Spec

(* The variables keep their types: in particular no write ever refers to   *)
(* the front of an empty queue.                                            *)
THEOREM TypeCorrect == Spec => []TypeOK
BY Invariance, PTL DEF IInv

(* Two pushers, or a pusher and a completion handler, never both drive the *)
(* chain of one queue.                                                     *)
THEOREM AtMostOneConsumer == Spec => []SingleConsumer
BY Invariance, PTL DEF IInv

(* The packet an outstanding write refers to is not popped under it.       *)
THEOREM WrittenPacketStays == Spec => []FrontStable
BY Invariance, PTL DEF IInv

(* A push never leaves a packet in an open session that nobody will send.  *)
THEOREM NobodyStranded == Spec => []NoLostWakeup
BY Invariance, PTL DEF IInv

-----------------------------------------------------------------------------
(* Respond and Publish of SessionSend at once: the promise to queue c.     *)
Queue(c) == INSTANCE FifoChannel WITH pending <- queue[c], delivered <- sent[c]

(* Every step of the session is, seen through one of its queues, a step of *)
(* FifoChannel or changes nothing.                                         *)
LEMMA QueueStep ==
    ASSUME NEW c \in Channels, IInv, [Next]_vars
    PROVE  [Queue(c)!Next]_(Queue(c)!vars)
<1> DEFINE q == queue[c]
           d == sent[c]
<1>0. c \in Writers /\ c # "coro"
  BY DEF Channels, Writers
<1>1. ASSUME NEW t \in AllThreads, NEW b \in Channels \cap Uses, NEW p \in Packets,
             Push(t, b, p)
      PROVE  Queue(c)!Accept \/ UNCHANGED Queue(c)!vars
  <2>1. IF b = c THEN q' = Append(q, p) ELSE q' = q
    BY <1>0, <1>1 DEF IInv, TypeOK, Push
  <2>2. d' = d /\ open' = open
    BY <1>1 DEF Push
  <2> QED
    BY <2>1, <2>2 DEF Queue!Accept, Queue!vars
<1>2. ASSUME NEW w \in writes, WriteDone(w)
      PROVE  Queue(c)!Deliver \/ UNCHANGED Queue(c)!vars
  <2>1. w.by = c => q # <<>> /\ w.pkt = Head(q)
    BY <1>0 DEF IInv, FrontStable, Ongoing
  <2>2. IF w.by = c THEN q' = Tail(q) /\ d' = Append(d, w.pkt)
                    ELSE q' = q /\ d' = d
    BY <1>0, <1>2 DEF IInv, TypeOK, WriteDone, Pop
  <2>3. open' = open
    BY <1>2 DEF WriteDone
  <2> QED
    BY <2>1, <2>2, <2>3 DEF Queue!Deliver, Queue!vars
<1>3. ASSUME NEW w \in writes, CoroDone(w)
      PROVE  UNCHANGED Queue(c)!vars
  BY <1>0, <1>3 DEF IInv, TypeOK, CoroDone, Queue!vars
<1>4. ASSUME (\E w \in writes : WriteFail(w)) \/ CloseSocket
      PROVE  Queue(c)!Disconnect
  BY <1>4 DEF WriteFail, CloseSocket, Queue!Disconnect
<1>5. ASSUME \/ \E t \in AllThreads, b \in Channels : Send(t, b)
             \/ \E p \in Packets : CoroWrite(p)
             \/ \E w \in writes : WriteSome(w)
             \/ UNCHANGED vars
      PROVE  UNCHANGED Queue(c)!vars
  BY <1>5 DEF Send, CoroWrite, WriteSome, vars, Queue!vars
<1> QED
  BY <1>1, <1>2, <1>3, <1>4, <1>5 DEF Next, Queue!Next

(* The packets of each queue leave in the order in which they were         *)
(* appended, each once, for any interleaving of the threads that write (the*)
(* safety half of RespondIsFifo and PublishIsFifo; that they do leave is a matter of         *)
(* fairness).                                                              *)
THEOREM QueueOrder ==
    ASSUME NEW c \in Channels
    PROVE  Spec => Queue(c)!Init /\ [][Queue(c)!Next]_(Queue(c)!vars)
<1>1. Init => Queue(c)!Init
  BY DEF Init, Queue!Init, Channels, Writers
<1>2. IInv /\ [Next]_vars => [Queue(c)!Next]_(Queue(c)!vars)
  BY QueueStep
<1> QED
  BY <1>1, <1>2, Invariance, PTL DEF Spec

-----------------------------------------------------------------------------
(* Frames on the wire.  If one way of writing has all of the wire, its     *)
(* last chunk is the end of a frame, or that of the one write of this way  *)
(* that goes on.                                                           *)
OneWay == \A i, j \in 1 .. Len(wire) : wire[i].by = wire[j].by

SingleCoroWrite == \A v, w \in Ongoing("coro") : v = w

Begun == \A w \in writes : w.done > 0 => \E i \in 1 .. Len(wire) : wire[i].by = w.by

LastChunk(last) ==
    /\ \A w \in Ongoing(last.by) : w.done > 0 => last = [by |-> w.by, pkt |-> w.pkt, nr |-> w.done]
    /\ (\A w \in Ongoing(last.by) : w.done = 0) => last.nr = Chunks

Ends == OneWay /\ open /\ Len(wire) > 0 => LastChunk(wire[Len(wire)])

WInv ==
    /\ SingleCoroWrite
    /\ Begun
    /\ Ends
    /\ OneWay => FramesIntact

LEMMA WInvInit == Init => WInv
<1> SUFFICES ASSUME Init PROVE WInv
  OBVIOUS
<1>1. Len(wire) = 0 /\ writes = {} /\ 1 .. Len(wire) = {}
  BY DEF Init
<1> QED
  BY <1>1 DEF WInv, SingleCoroWrite, Ongoing, Begun, Ends, FramesIntact

(* A write starts behind the last one of its way.                          *)
LEMMA WInvStart ==
    ASSUME IInv, WInv, NEW w, w.by \in Writers, w.done = 0, Ongoing(w.by) = {},
           writes' = writes \cup {w}, wire' = wire, open' = open
    PROVE  WInv'
<1>1. SingleCoroWrite'
  BY DEF WInv, SingleCoroWrite, Ongoing
<1>2. Begun'
  BY DEF WInv, Begun
<1>3. ASSUME NEW last, LastChunk(last)
      PROVE  /\ \A v \in Ongoing(last.by)' : v.done > 0 => last = [by |-> v.by, pkt |-> v.pkt, nr |-> v.done]
             /\ (\A v \in Ongoing(last.by)' : v.done = 0) => last.nr = Chunks
  <2>1. \A v \in Ongoing(last.by)' : v \in Ongoing(last.by) \/ v = w
    BY DEF Ongoing
  <2>2. Ongoing(last.by) \subseteq Ongoing(last.by)'
    BY DEF Ongoing
  <2>3. ~(w.done > 0)
    OBVIOUS
  <2> QED
    BY <1>3, <2>1, <2>2, <2>3 DEF LastChunk
<1>4. Ends'
  BY <1>3, ZenonT(60) DEF WInv, Ends, OneWay, LastChunk
<1>5. (OneWay => FramesIntact)'
  BY DEF WInv, OneWay, FramesIntact
<1> QED
  BY <1>1, <1>2, <1>4, <1>5 DEF WInv

(* A write ends well: its last chunk is the end of its frame.              *)
LEMMA WInvEnd ==
    ASSUME IInv, WInv, NEW w \in writes, w.done = Chunks,
           writes' = writes \ {w}, wire' = wire, open' = open
    PROVE  WInv'
<1>1. SingleCoroWrite' /\ Begun'
  BY DEF WInv, SingleCoroWrite, Ongoing, Begun
<1>2. w.done > 0
  BY SendAssumption
<1>3. ASSUME NEW last, LastChunk(last)
      PROVE  /\ \A v \in Ongoing(last.by)' : v.done > 0 => last = [by |-> v.by, pkt |-> v.pkt, nr |-> v.done]
             /\ (\A v \in Ongoing(last.by)' : v.done = 0) => last.nr = Chunks
  <2>1. Ongoing(last.by)' = Ongoing(last.by) \ {w}
    BY DEF Ongoing
  <2>2. CASE w \in Ongoing(last.by)
    <3>1. last.nr = Chunks
      BY <1>2, <1>3, <2>2 DEF LastChunk
    <3> QED
      BY <1>3, <2>1, <3>1 DEF LastChunk
  <2>3. CASE w \notin Ongoing(last.by)
    <3>1. Ongoing(last.by)' = Ongoing(last.by)
      BY <2>1, <2>3
    <3> QED
      BY <1>3, <3>1 DEF LastChunk
  <2> QED
    BY <2>2, <2>3
<1>4. Ends'
  BY <1>3 DEF WInv, Ends, OneWay, LastChunk
<1>5. (OneWay => FramesIntact)'
  BY DEF WInv, OneWay, FramesIntact
<1> QED
  BY <1>1, <1>4, <1>5 DEF WInv

(* Behind a failure nothing is written any more.                           *)
LEMMA WInvClosed ==
    ASSUME IInv, WInv, writes' \subseteq writes, wire' = wire, ~open' \/ UNCHANGED vars
    PROVE  WInv'
<1>1. CASE UNCHANGED vars
  BY <1>1 DEF vars, WInv, SingleCoroWrite, Ongoing, Begun, Ends, LastChunk, OneWay, FramesIntact
<1>2. CASE ~open'
  BY <1>2 DEF WInv, SingleCoroWrite, Ongoing, Begun, Ends, OneWay, FramesIntact
<1> QED
  BY <1>1, <1>2

(* One chunk more: the next of the frame whose chunk was the last.         *)
LEMMA WInvSome ==
    ASSUME IInv, WInv, NEW w \in writes, WriteSome(w)
    PROVE  WInv'
<1> DEFINE v == [w EXCEPT !.done = @ + 1]
<1> DEFINE n == Len(wire)
<1> DEFINE e == [by |-> w.by, pkt |-> w.pkt, nr |-> w.done + 1]
<1>1. /\ w \in Write /\ w.by \in Writers /\ w.pkt \in Packets
      /\ w.done \in Nat /\ w.done < Chunks /\ Chunks \in Nat
  <2>1. w \in [by : Writers, pkt : Packets, done : 0 .. Chunks]
    BY DEF IInv, TypeOK, Write
  <2> QED
    BY <2>1, SendAssumption DEF Write, WriteSome
<1>2. v.by = w.by /\ v.pkt = w.pkt /\ v.done = w.done + 1
  BY <1>1 DEF Write
<1>3. e \in Chunk /\ wire \in Seq(Chunk)
  BY <1>1 DEF Chunk, IInv, TypeOK
<1>4. /\ n \in Nat /\ Len(wire') = n + 1 /\ wire'[n + 1] = e
      /\ \A i \in 1 .. n : wire'[i] = wire[i]
  BY <1>3 DEF WriteSome
<1>5. writes' = (writes \ {w}) \cup {v} /\ open
  BY DEF WriteSome
<1>6. \A u \in writes : u.by = w.by => u = w
  <2>1. w.by \in Channels \/ w.by = "coro"
    BY <1>1 DEF Writers
  <2> QED
    BY <2>1 DEF IInv, SingleConsumer, WInv, SingleCoroWrite, Ongoing
<1> HIDE DEF n, e, v
<1>7. SingleCoroWrite'
  BY <1>2, <1>5, <1>6 DEF WInv, SingleCoroWrite, Ongoing
<1>8. Begun'
  <2> SUFFICES ASSUME NEW u \in writes', u.done > 0
               PROVE  \E i \in 1 .. n + 1 : wire'[i].by = u.by
    BY <1>4 DEF Begun
  <2>1. CASE u = v
    <3>1. wire'[n + 1].by = u.by /\ n + 1 \in 1 .. n + 1
      BY <1>2, <1>4, <2>1 DEF e
    <3> QED
      BY <3>1
  <2>2. CASE u \in writes
    <3>1. PICK i \in 1 .. n : wire[i].by = u.by
      BY <2>2 DEF WInv, Begun, n
    <3>2. i \in 1 .. n + 1 /\ wire'[i].by = u.by
      BY <1>4, <3>1
    <3> QED
      BY <3>2
  <2> QED
    BY <1>5, <2>1, <2>2
<1>9. Ends'
  <2>1. Ongoing(w.by)' = {v}
    BY <1>2, <1>5, <1>6 DEF Ongoing
  <2>2. v.done # 0 /\ e = [by |-> v.by, pkt |-> v.pkt, nr |-> v.done] /\ e.by = w.by
    BY <1>1, <1>2 DEF e
  <2>3. /\ \A u \in Ongoing(e.by)' : u.done > 0 => e = [by |-> u.by, pkt |-> u.pkt, nr |-> u.done]
        /\ (\A u \in Ongoing(e.by)' : u.done = 0) => e.nr = Chunks
    BY <2>1, <2>2
  <2>4. wire'[Len(wire')] = e
    BY <1>4
  <2> QED
    BY <2>3, <2>4 DEF Ends, LastChunk
<1>10. (OneWay => FramesIntact)'
  <2> SUFFICES ASSUME OneWay'
               PROVE  FramesIntact'
    OBVIOUS
  <2>1. \A i, j \in 1 .. n + 1 : wire'[i].by = wire'[j].by
    BY <1>4 DEF OneWay
  <2>2. OneWay
    BY <1>4, <2>1 DEF OneWay, n
  <2>3. \A i \in 1 .. n :
            IF wire[i].nr = 1
            THEN i = 1 \/ wire[i - 1].nr = Chunks
            ELSE i > 1 /\ wire[i - 1] = [wire[i] EXCEPT !.nr = @ - 1]
    BY <2>2 DEF WInv, FramesIntact, n
  <2>4. \A i \in 1 .. n :
            IF wire'[i].nr = 1
            THEN i = 1 \/ wire'[i - 1].nr = Chunks
            ELSE i > 1 /\ wire'[i - 1] = [wire'[i] EXCEPT !.nr = @ - 1]
    BY <1>4, <2>3
  <2>5. IF e.nr = 1
        THEN n + 1 = 1 \/ wire'[n].nr = Chunks
        ELSE n + 1 > 1 /\ wire'[n] = [e EXCEPT !.nr = @ - 1]
    <3>1. CASE n = 0
      <4>1. ~(w.done > 0)
        BY <3>1 DEF WInv, Begun, n
      <4> QED
        BY <1>1, <3>1, <4>1 DEF e
    <3>2. CASE n > 0
      <4>1. n \in 1 .. n + 1 /\ n + 1 \in 1 .. n + 1 /\ n \in 1 .. n
        BY <1>4, <3>2
      <4>2. wire'[n] = wire[n] /\ wire[n].by = w.by
        BY <1>4, <2>1, <4>1 DEF e
      <4>3. LastChunk(wire[n])
        BY <1>5, <2>2, <3>2 DEF WInv, Ends, n
      <4>4. Ongoing(w.by) = {w}
        BY <1>6 DEF Ongoing
      <4>5. CASE w.done = 0
        <5>1. wire[n].nr = Chunks
          BY <4>2, <4>3, <4>4, <4>5 DEF LastChunk
        <5> QED
          BY <4>2, <4>5, <5>1 DEF e
      <4>6. CASE w.done > 0
        <5>1. wire[n] = [by |-> w.by, pkt |-> w.pkt, nr |-> w.done]
          BY <4>2, <4>3, <4>4, <4>6 DEF LastChunk
        <5>2. e.nr # 1 /\ [e EXCEPT !.nr = @ - 1] = [by |-> w.by, pkt |-> w.pkt, nr |-> w.done]
          BY <1>1, <4>6 DEF e
        <5> QED
          BY <3>2, <1>4, <4>2, <5>1, <5>2
      <4> QED
        BY <1>1, <4>5, <4>6
    <3> QED
      BY <1>4, <3>1, <3>2
  <2>6. \A i \in 1 .. n + 1 : i \in 1 .. n \/ i = n + 1
    BY <1>4
  <2>7. (n + 1) - 1 = n
    BY <1>4
  <2> QED
    BY <1>4, <2>4, <2>5, <2>6, <2>7 DEF FramesIntact
<1> QED
  BY <1>7, <1>8, <1>9, <1>10 DEF WInv

LEMMA NextWInv == IInv /\ WInv /\ [Next]_vars => WInv'
<1> SUFFICES ASSUME IInv, WInv, [Next]_vars PROVE WInv'
  OBVIOUS
<1>1. ASSUME NEW t \in AllThreads, NEW c \in Channels \cap Uses, NEW p \in Packets, Push(t, c, p)
      PROVE  WInv'
  BY <1>1 DEF Push, WInv, SingleCoroWrite, Ongoing, Begun, Ends, LastChunk, OneWay, FramesIntact
<1>2. ASSUME NEW t \in AllThreads, NEW c \in Channels, Send(t, c)
      PROVE  WInv'
  <2> DEFINE w == [by |-> c, pkt |-> Head(queue[c]), done |-> 0]
  <2>1. Ongoing(w.by) = {} /\ w.by \in Writers /\ w.done = 0
    BY <1>2 DEF IInv, Send, Senders, SingleConsumer, Writers
  <2>2. writes' = writes \cup {w} /\ wire' = wire /\ open' = open
    BY <1>2 DEF Send
  <2> QED
    BY <2>1, <2>2, WInvStart
<1>3. ASSUME NEW p \in Packets, CoroWrite(p)
      PROVE  WInv'
  <2> DEFINE w == [by |-> "coro", pkt |-> p, done |-> 0]
  <2>1. Ongoing(w.by) = {} /\ w.by \in Writers /\ w.done = 0
    BY <1>3 DEF CoroWrite, Ongoing, Writers
  <2>2. writes' = writes \cup {w} /\ wire' = wire /\ open' = open
    BY <1>3 DEF CoroWrite
  <2> QED
    BY <2>1, <2>2, WInvStart
<1>4. ASSUME NEW w \in writes, WriteSome(w)
      PROVE  WInv'
  BY <1>4, WInvSome
<1>5. ASSUME NEW w \in writes, WriteDone(w) \/ CoroDone(w)
      PROVE  WInv'
  BY <1>5, WInvEnd DEF WriteDone, CoroDone
<1>6. ASSUME (\E w \in writes : WriteFail(w)) \/ CloseSocket \/ UNCHANGED vars
      PROVE  WInv'
  BY <1>6, WInvClosed DEF WriteFail, CloseSocket, vars
<1> QED
  BY <1>1, <1>2, <1>3, <1>4, <1>5, <1>6 DEF Next

(* While one way of writing has been used alone, the frames on the wire    *)
(* are whole, whatever fails and however many partial writes they take.    *)
THEOREM OneWayFramesWhole == Spec => []OneWayIntact
<1>1. IInv /\ WInv => OneWayIntact
  BY DEF WInv, OneWay, OneWayIntact
<1>2. Spec => []WInv
  BY Invariance, WInvInit, NextWInv, PTL DEF Spec
<1> QED
  BY <1>1, <1>2, Invariance, PTL
=============================================================================
