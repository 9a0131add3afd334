-------------------------- MODULE ClientLink_proofs --------------------------
(* Theorems about ClientLink: the queue of a client has one consumer over  *)
(* losses and reconnections, whatever the bounds.                          *)
EXTENDS ClientLink, TLAPS

Link == [sock : Sockets, ops : SUBSET Op, ready : Seq(SUBSET Completion)]

(* At most one operation of this kind is in progress or has its handler    *)
(* still to run.                                                           *)
Single(l, kind) ==
    /\ \A o, p \in l.ops : o.kind = kind /\ p.kind = kind => o = p
    /\ \A i, j \in 1 .. Len(l.ready) : \A c \in l.ready[i], d \in l.ready[j] :
          c.op.kind = kind /\ d.op.kind = kind => i = j /\ c = d
    /\ \A o \in l.ops, i \in 1 .. Len(l.ready) : \A c \in l.ready[i] :
          ~(o.kind = kind /\ c.op.kind = kind)

KindSet == {"connect", "wait", "read", "write"}

(* Same(l, m, k): nothing of kind k is added on the way from l to m; it    *)
(* stays outstanding if it was.                                            *)
Same(l, m, kind) ==
    /\ Single(l, kind) => Single(m, kind)
    /\ Has(m, kind) <=> Has(l, kind)

-----------------------------------------------------------------------------
(* The operators on links.                                                 *)

LEMMA LinkParts ==
    ASSUME NEW l \in Link
    PROVE  /\ l.sock \in Sockets
           /\ l.ops \in SUBSET Op
           /\ l.ready \in Seq(SUBSET Completion)
           /\ l = [l EXCEPT !.ops = l.ops]
<1> DEFINE S == Seq(SUBSET Completion)
<1>1. l \in [sock : Sockets, ops : SUBSET Op, ready : S]
  BY DEF Link
<1> HIDE DEF S
<1>2. /\ l.sock \in Sockets /\ l.ops \in SUBSET Op /\ l.ready \in S
      /\ l = [l EXCEPT !.ops = l.ops]
  BY <1>1
<1> QED
  BY <1>2 DEF S

LEMMA SetReady ==
    ASSUME NEW l \in Link, NEW q \in Seq(SUBSET Completion)
    PROVE  LET m == [l EXCEPT !.ready = q]
           IN  m \in Link /\ m.sock = l.sock /\ m.ops = l.ops /\ m.ready = q
<1> DEFINE S == Seq(SUBSET Completion)
<1>1. l \in [sock : Sockets, ops : SUBSET Op, ready : S] /\ q \in S
  BY DEF Link
<1> HIDE DEF S
<1>2. LET m == [l EXCEPT !.ready = q]
      IN  m \in [sock : Sockets, ops : SUBSET Op, ready : S]
          /\ m.sock = l.sock /\ m.ops = l.ops /\ m.ready = q
  BY <1>1
<1> QED
  BY <1>2 DEF S, Link

LEMMA SetOps ==
    ASSUME NEW l \in Link, NEW os \in SUBSET Op
    PROVE  LET m == [l EXCEPT !.ops = os]
           IN  m \in Link /\ m.sock = l.sock /\ m.ops = os /\ m.ready = l.ready
<1> DEFINE S == Seq(SUBSET Completion)
<1>1. l \in [sock : Sockets, ops : SUBSET Op, ready : S]
  BY DEF Link
<1> HIDE DEF S
<1>2. LET m == [l EXCEPT !.ops = os]
      IN  m \in [sock : Sockets, ops : SUBSET Op, ready : S]
          /\ m.sock = l.sock /\ m.ops = os /\ m.ready = l.ready
  BY <1>1
<1> QED
  BY <1>2 DEF S, Link

(* An operation that ends is outstanding until its handler has run.        *)
LEMMA CompleteSame ==
    ASSUME NEW l \in Link, NEW os \in SUBSET l.ops, NEW ok \in BOOLEAN
    PROVE  /\ Complete(l, os, ok) \in Link
           /\ Complete(l, os, ok).sock = l.sock
           /\ \A k \in KindSet : Same(l, Complete(l, os, ok), k)
<1> DEFINE cs == {[op |-> o, ok |-> ok] : o \in os}
           m == Complete(l, os, ok)
<1>1. cs \in SUBSET Completion
  BY DEF Link, Completion
<1>2. CASE os = {}
  <2>1. cs = {} /\ l.ops \ os = l.ops
    BY <1>2
  <2>2. m = l
    BY <2>1 DEF Complete, Post, Link
  <2> QED
    BY <2>2 DEF Same
<1>3. CASE os # {}
  <2>1. cs # {}
    BY <1>3
  <2> DEFINE z == [l EXCEPT !.ops = l.ops \ os]
  <2>2. m = [z EXCEPT !.ready = Append(z.ready, cs)]
    BY <2>1 DEF Complete, Post
  <2>3. l.ops \ os \in SUBSET Op
    BY LinkParts
  <2>3a. z \in Link /\ z.sock = l.sock /\ z.ops = l.ops \ os /\ z.ready = l.ready
    BY <2>3, SetOps
  <2>3b. Append(z.ready, cs) \in Seq(SUBSET Completion)
    <3>1. l.ready \in Seq(SUBSET Completion)
      BY LinkParts
    <3> HIDE DEF z, cs
    <3> QED
      BY <2>3a, <3>1, <1>1
  <2> HIDE DEF z, m, cs
  <2>4. /\ m \in Link /\ m.sock = l.sock
        /\ m.ops = l.ops \ os /\ m.ready = Append(l.ready, cs)
    BY <2>2, <2>3a, <2>3b, SetReady, ZenonT(60)
  <2>5. /\ Len(m.ready) = Len(l.ready) + 1
        /\ Len(l.ready) \in Nat
        /\ \A i \in 1 .. Len(l.ready) : m.ready[i] = l.ready[i]
        /\ m.ready[Len(l.ready) + 1] = cs
    BY <2>4, <1>1 DEF Link
  <2>6. /\ \A o \in os : [op |-> o, ok |-> ok] \in cs
        /\ \A c \in cs : c.op \in os /\ c = [op |-> c.op, ok |-> ok]
    BY DEF cs
  <2>7. ASSUME NEW k \in KindSet
        PROVE  Has(m, k) <=> Has(l, k)
    <3>1. ASSUME Has(l, k) PROVE Has(m, k)
      <4>1. CASE \E o \in os : o.kind = k
        <5>1. PICK o \in os : o.kind = k
          BY <4>1
        <5>2. [op |-> o, ok |-> ok] \in m.ready[Len(l.ready) + 1]
          BY <2>5, <2>6
        <5> QED
          BY <5>1, <5>2, <2>5 DEF Has
      <4>2. CASE \E o \in l.ops \ os : o.kind = k
        BY <4>2, <2>4 DEF Has
      <4>3. CASE \E i \in 1 .. Len(l.ready) : \E c \in l.ready[i] : c.op.kind = k
        BY <4>3, <2>5 DEF Has
      <4> QED
        BY <3>1, <4>1, <4>2, <4>3 DEF Has
    <3>2. ASSUME Has(m, k) PROVE Has(l, k)
      <4>1. CASE \E o \in m.ops : o.kind = k
        BY <4>1, <2>4 DEF Has
      <4>2. CASE \E i \in 1 .. Len(m.ready) : \E c \in m.ready[i] : c.op.kind = k
        <5>1. PICK i \in 1 .. Len(m.ready) : \E c \in m.ready[i] : c.op.kind = k
          BY <4>2
        <5>2. CASE i = Len(l.ready) + 1
          BY <5>1, <5>2, <2>5, <2>6 DEF Has
        <5>3. CASE i \in 1 .. Len(l.ready)
          BY <5>1, <5>3, <2>5 DEF Has
        <5> QED
          BY <5>2, <5>3, <2>5
      <4> QED
        BY <3>2, <4>1, <4>2 DEF Has
    <3> QED
      BY <3>1, <3>2
  <2>8. ASSUME NEW k \in KindSet, Single(l, k)
        PROVE  Single(m, k)
    <3>1. \A o, p \in m.ops : o.kind = k /\ p.kind = k => o = p
      BY <2>4, <2>8 DEF Single
    <3>2. ASSUME NEW i \in 1 .. Len(m.ready), NEW j \in 1 .. Len(m.ready),
                 NEW c \in m.ready[i], NEW d \in m.ready[j],
                 c.op.kind = k, d.op.kind = k
          PROVE  i = j /\ c = d
      <4>1. i \in 1 .. Len(l.ready) \/ i = Len(l.ready) + 1
        BY <2>5
      <4>2. j \in 1 .. Len(l.ready) \/ j = Len(l.ready) + 1
        BY <2>5
      <4>3. CASE i = Len(l.ready) + 1 /\ j = Len(l.ready) + 1
        <5>1. c \in cs /\ d \in cs
          BY <4>3, <2>5
        <5>2. c.op = d.op
          BY <5>1, <2>6, <3>2, <2>8 DEF Single
        <5> QED
          BY <5>1, <5>2, <2>6, <4>3
      <4>4. CASE i \in 1 .. Len(l.ready) /\ j \in 1 .. Len(l.ready)
        BY <4>4, <2>5, <2>8, <3>2 DEF Single
      <4>5. CASE i \in 1 .. Len(l.ready) /\ j = Len(l.ready) + 1
        BY <4>5, <2>5, <2>6, <2>8, <3>2 DEF Single
      <4>6. CASE i = Len(l.ready) + 1 /\ j \in 1 .. Len(l.ready)
        BY <4>6, <2>5, <2>6, <2>8, <3>2 DEF Single
      <4> QED
        BY <4>1, <4>2, <4>3, <4>4, <4>5, <4>6
    <3>3. ASSUME NEW o \in m.ops, NEW i \in 1 .. Len(m.ready), NEW c \in m.ready[i],
                 o.kind = k, c.op.kind = k
          PROVE  FALSE
      <4>1. CASE i = Len(l.ready) + 1
        BY <4>1, <3>3, <2>4, <2>5, <2>6, <2>8 DEF Single
      <4>2. CASE i \in 1 .. Len(l.ready)
        BY <4>2, <3>3, <2>4, <2>5, <2>8 DEF Single
      <4> QED
        BY <4>1, <4>2, <2>5
    <3> QED
      BY <3>1, <3>2, <3>3 DEF Single
  <2> QED
    BY <2>4, <2>7, <2>8 DEF Same, m
<1> QED
  BY <1>2, <1>3

(* close_socket() recalls nothing.                                         *)
LEMMA CloseSocketSame ==
    ASSUME NEW l \in Link
    PROVE  /\ CloseSocket(l) \in Link
           /\ \A k \in KindSet : Same(l, CloseSocket(l), k)
<1> DEFINE z == [l EXCEPT !.sock = IF @ = "unresolved" THEN @ ELSE "closed"]
           os == {o \in l.ops : o.kind # "wait"}
<1>1. z \in Link /\ z.ops = l.ops /\ z.ready = l.ready
  BY DEF Link, Sockets, Closed
<1>2. os \in SUBSET z.ops
  BY <1>1
<1>3. CloseSocket(l) = Complete(z, os, FALSE)
  BY DEF CloseSocket
<1> HIDE DEF z, os
<1>4. /\ Complete(z, os, FALSE) \in Link
      /\ \A k \in KindSet : Same(z, Complete(z, os, FALSE), k)
  BY <1>1, <1>2, CompleteSame
<1>5. \A k \in KindSet : Same(l, z, k)
  BY <1>1 DEF Same, Single, Has
<1> QED
  BY <1>3, <1>4, <1>5 DEF Same

LEMMA CancelTimerSame ==
    ASSUME NEW l \in Link
    PROVE  /\ CancelTimer(l) \in Link
           /\ CancelTimer(l).sock = l.sock
           /\ \A k \in KindSet \ {"wait"} : Same(l, CancelTimer(l), k)
<1> DEFINE m == CancelTimer(l)
<1>1. m.ops = {o \in l.ops : o.kind # "wait"} /\ m.ready = l.ready /\ m.sock = l.sock
  BY DEF CancelTimer, Link
<1>2. m \in Link
  BY DEF CancelTimer, Link
<1> HIDE DEF m
<1>3. ASSUME NEW k \in KindSet \ {"wait"} PROVE Same(l, m, k)
  <2>1. Single(l, k) => Single(m, k)
    BY <1>1 DEF Single
  <2>2. Has(m, k) <=> Has(l, k)
    BY <1>1 DEF Has
  <2> QED
    BY <2>1, <2>2 DEF Same
<1> QED
  BY <1>1, <1>2, <1>3 DEF m

(* The handler that runs was outstanding, and no longer is.                *)
LEMMA WithoutLess ==
    ASSUME link \in Link, NEW c \in Ready
    PROVE  /\ c \in Completion
           /\ Has(link, c.op.kind)
           /\ Without(c) \in Link
           /\ \A k \in KindSet :
                 /\ Single(link, k) => Single(Without(c), k)
                 /\ Has(Without(c), k) => Has(link, k)
                 /\ k # c.op.kind => Same(link, Without(c), k)
                 /\ k = c.op.kind /\ Single(link, k) => ~Has(Without(c), k)
<1> DEFINE q == link.ready
           r == Rest(q, c)
           m == Without(c)
<1>1. /\ q \in Seq(SUBSET Completion) /\ q # <<>> /\ Len(q) \in Nat \ {0}
      /\ c \in q[1] /\ Head(q) = q[1] /\ 1 \in 1 .. Len(q)
  BY DEF Ready, Link
<1>2. c \in Completion /\ c.op.kind \in KindSet /\ Has(link, c.op.kind)
  BY <1>1 DEF Completion, Op, KindSet, Has
<1>3. r \in Seq(SUBSET Completion)
  <2>1. CASE Head(q) = {c}
    BY <1>1, <2>1 DEF Rest
  <2>2. CASE Head(q) # {c}
    BY <1>1, <2>2 DEF Rest
  <2> QED
    BY <2>1, <2>2
<1>4. m \in Link /\ m.ops = link.ops /\ m.ready = r
  <2>1. m = [link EXCEPT !.ready = r]
    BY DEF Without
  <2> HIDE DEF r, m
  <2> QED
    BY <2>1, <1>3, SetReady
<1>5. PICK e \in {0, 1} :
        /\ Len(r) = Len(q) - e
        /\ \A i \in 1 .. Len(r) : /\ i + e \in 1 .. Len(q)
                                  /\ r[i] \subseteq q[i + e]
                                  /\ q[i + e] \ {c} \subseteq r[i]
                                  /\ i + e = 1 => c \notin r[i]
        /\ \A j \in 1 .. Len(q) : j - e \in 1 .. Len(r) \/ q[j] = {c}
        /\ e = 1 => q[1] = {c}
  <2>1. CASE Head(q) = {c}
    <3>1. r = Tail(q)
      BY <2>1 DEF Rest
    <3> HIDE DEF r, q
    <3>2. Len(r) = Len(q) - 1 /\ \A i \in 1 .. Len(r) : r[i] = q[i + 1]
      BY <3>1, <1>1
    <3> QED
      BY <3>2, <1>1, <2>1
  <2>2. CASE Head(q) # {c}
    <3>1. r = [q EXCEPT ![1] = @ \ {c}]
      BY <2>2 DEF Rest
    <3>2. Len(r) = Len(q) /\ r[1] = q[1] \ {c}
      BY <3>1, <1>1
    <3>3. \A i \in 1 .. Len(q) : i # 1 => r[i] = q[i]
      BY <3>1, <1>1
    <3> HIDE DEF r, q
    <3>4. \A i \in 1 .. Len(r) : /\ i \in 1 .. Len(q)
                                 /\ r[i] \subseteq q[i]
                                 /\ q[i] \ {c} \subseteq r[i]
                                 /\ i = 1 => c \notin r[i]
      BY <3>2, <3>3
    <3> QED
      BY <3>2, <3>4, <1>1
  <2> QED
    BY <2>1, <2>2
<1> HIDE DEF r, m
<1>6. ASSUME NEW k \in KindSet, Single(link, k)
      PROVE  Single(m, k)
  <2>1. ASSUME NEW i \in 1 .. Len(m.ready), NEW j \in 1 .. Len(m.ready),
               NEW d \in m.ready[i], NEW f \in m.ready[j],
               d.op.kind = k, f.op.kind = k
        PROVE  i = j /\ d = f
    <3>1. /\ i + e \in 1 .. Len(q) /\ j + e \in 1 .. Len(q)
          /\ d \in q[i + e] /\ f \in q[j + e]
      BY <1>4, <1>5
    <3>2. i + e = j + e /\ d = f
      BY <3>1, <1>6, <2>1 DEF Single
    <3> QED
      BY <3>2, <1>4, <1>1, <1>5
  <2>2. ASSUME NEW o \in m.ops, NEW i \in 1 .. Len(m.ready), NEW d \in m.ready[i],
               o.kind = k, d.op.kind = k
        PROVE  FALSE
    <3>1. i + e \in 1 .. Len(q) /\ d \in q[i + e] /\ o \in link.ops
      BY <1>4, <1>5
    <3> QED
      BY <3>1, <1>6, <2>2 DEF Single
  <2> QED
    BY <1>4, <1>6, <2>1, <2>2 DEF Single
<1>7. ASSUME NEW k \in KindSet, Has(m, k)
      PROVE  Has(link, k)
  <2>1. CASE \E o \in m.ops : o.kind = k
    BY <2>1, <1>4 DEF Has
  <2>2. CASE \E i \in 1 .. Len(m.ready) : \E d \in m.ready[i] : d.op.kind = k
    BY <2>2, <1>4, <1>5 DEF Has
  <2> QED
    BY <1>7, <2>1, <2>2 DEF Has
<1>8. ASSUME NEW k \in KindSet, k # c.op.kind, Has(link, k)
      PROVE  Has(m, k)
  <2>1. CASE \E o \in link.ops : o.kind = k
    BY <2>1, <1>4 DEF Has
  <2>2. CASE \E j \in 1 .. Len(q) : \E d \in q[j] : d.op.kind = k
    <3>1. PICK j \in 1 .. Len(q) : \E d \in q[j] : d.op.kind = k
      BY <2>2
    <3>2. PICK d \in q[j] : d.op.kind = k
      BY <3>1
    <3>3. d # c
      BY <3>2, <1>8
    <3>4. j - e \in 1 .. Len(r)
      BY <3>2, <3>3, <1>5
    <3>5. (j - e) + e = j
      BY <1>1
    <3>6. d \in r[j - e]
      BY <3>2, <3>3, <3>4, <3>5, <1>5
    <3> QED
      BY <3>2, <3>4, <3>6, <1>4 DEF Has
  <2> QED
    BY <1>8, <2>1, <2>2 DEF Has
<1>9. ASSUME NEW k \in KindSet, k = c.op.kind, Single(link, k), Has(m, k)
      PROVE  FALSE
  <2>1. CASE \E o \in m.ops : o.kind = k
    BY <2>1, <1>1, <1>4, <1>9 DEF Single
  <2>2. CASE \E i \in 1 .. Len(m.ready) : \E d \in m.ready[i] : d.op.kind = k
    <3>1. PICK i \in 1 .. Len(m.ready) : \E d \in m.ready[i] : d.op.kind = k
      BY <2>2
    <3>2. PICK d \in m.ready[i] : d.op.kind = k
      BY <3>1
    <3>3. i + e \in 1 .. Len(q) /\ d \in q[i + e] /\ (i + e = 1 => c \notin r[i])
      BY <1>4, <1>5, <3>2
    <3>4. i + e = 1 /\ d = c
      BY <3>2, <3>3, <1>1, <1>9 DEF Single
    <3> QED
      BY <3>2, <3>3, <3>4, <1>4
  <2> QED
    BY <1>9, <2>1, <2>2 DEF Has
<1> QED
  BY <1>2, <1>4, <1>6, <1>7, <1>8, <1>9 DEF Same, m

(* An operation that starts is the only one of its kind if there was none. *)
LEMMA StartsOne ==
    ASSUME NEW l \in Link, NEW o \in Op, NEW m \in Starts(l, o)
    PROVE  /\ m \in Link
           /\ \A k \in KindSet : k # o.kind => Same(l, m, k)
           /\ Has(m, o.kind)
           /\ ~Has(l, o.kind) => Single(m, o.kind)
<1> DEFINE w == [l EXCEPT !.ops = @ \cup {o}]
           x == [op |-> o, ok |-> FALSE]
           f == [l EXCEPT !.ready = Append(@, {x})]
<1>1. m = w \/ m = f
  <2>1. Post(l, {x}) = f
    BY DEF Post
  <2> QED
    BY <2>1 DEF Starts
<1>2. w \in Link /\ w.ops = l.ops \cup {o} /\ w.ready = l.ready
  BY DEF Link
<1>3. {x} \in SUBSET Completion
  BY DEF Completion
<1>4. f \in Link /\ f.ops = l.ops /\ f.ready = Append(l.ready, {x})
  <2>1. Append(l.ready, {x}) \in Seq(SUBSET Completion)
    BY <1>3, LinkParts
  <2> QED
    BY <2>1, SetReady
<1>5. /\ Len(f.ready) = Len(l.ready) + 1
      /\ Len(l.ready) \in Nat
      /\ \A i \in 1 .. Len(l.ready) : f.ready[i] = l.ready[i]
      /\ f.ready[Len(l.ready) + 1] = {x}
  BY <1>4, <1>3 DEF Link
<1>6. x.op = o
  OBVIOUS
<1> HIDE DEF w, f, x
<1>7. CASE m = w
  <2>1. ASSUME NEW k \in KindSet, k # o.kind PROVE Same(l, w, k)
    <3>1. Single(l, k) => Single(w, k)
      BY <1>2, <2>1 DEF Single
    <3>2. Has(w, k) <=> Has(l, k)
      BY <1>2, <2>1 DEF Has
    <3> QED
      BY <3>1, <3>2 DEF Same
  <2>2. Has(w, o.kind)
    BY <1>2 DEF Has
  <2>3. ASSUME ~Has(l, o.kind) PROVE Single(w, o.kind)
    BY <1>2, <2>3 DEF Single, Has
  <2> QED
    BY <1>2, <1>7, <2>1, <2>2, <2>3
<1>8. CASE m = f
  <2>0. \A i \in 1 .. Len(f.ready) : i \in 1 .. Len(l.ready) \/ i = Len(l.ready) + 1
    BY <1>5
  <2>1. ASSUME NEW k \in KindSet, k # o.kind PROVE Same(l, f, k)
    <3>1. ASSUME Single(l, k) PROVE Single(f, k)
      <4>1. \A i \in 1 .. Len(f.ready) : \A c \in f.ready[i] :
               c.op.kind = k => i \in 1 .. Len(l.ready) /\ c \in l.ready[i]
        BY <1>5, <1>6, <2>0, <2>1
      <4> QED
        BY <4>1, <1>4, <3>1 DEF Single
    <3>2. Has(f, k) <=> Has(l, k)
      BY <1>4, <1>5, <1>6, <2>0, <2>1 DEF Has
    <3> QED
      BY <3>1, <3>2 DEF Same
  <2>2. Has(f, o.kind)
    BY <1>5, <1>6 DEF Has
  <2>3. ASSUME ~Has(l, o.kind) PROVE Single(f, o.kind)
    <3>1. \A i \in 1 .. Len(f.ready) : \A c \in f.ready[i] :
             c.op.kind = o.kind => i = Len(l.ready) + 1 /\ c = x
      BY <1>5, <2>0, <2>3 DEF Has
    <3> QED
      BY <3>1, <1>4, <2>3 DEF Single, Has
  <2> QED
    BY <1>4, <1>8, <2>1, <2>2, <2>3
<1> QED
  BY <1>1, <1>7, <1>8

LEMMA SetSock ==
    ASSUME NEW l \in Link, NEW s \in Sockets
    PROVE  LET m == [l EXCEPT !.sock = s]
           IN  m \in Link /\ m.sock = s /\ \A k \in KindSet : Same(l, m, k)
<1> DEFINE S == Seq(SUBSET Completion)
           m == [l EXCEPT !.sock = s]
<1>1. l \in [sock : Sockets, ops : SUBSET Op, ready : S]
  BY DEF Link
<1> HIDE DEF S
<1>2. m \in [sock : Sockets, ops : SUBSET Op, ready : S]
      /\ m.sock = s /\ m.ops = l.ops /\ m.ready = l.ready
  BY <1>1
<1>3. m \in Link
  BY <1>2 DEF S, Link
<1>4. \A k \in KindSet : Same(l, m, k)
  BY <1>2 DEF Same, Single, Has
<1> QED
  BY <1>2, <1>3, <1>4

(* connect_async() leaves one connect behind and no write that was not     *)
(* there.                                                                  *)
LEMMA ConnectAsyncOne ==
    ASSUME att \in 0 .. MaxConnects, faults \in 0 .. MaxFaults,
           NEW l \in Link, ~Has(l, "connect"), ConnectAsync(l)
    PROVE  /\ link' \in Link
           /\ att' \in 1 .. MaxConnects
           /\ faults' \in 0 .. MaxFaults
           /\ Single(link', "connect")
           /\ Same(l, link', "write")
<1>1. MaxConnects \in Nat \ {0} /\ MaxFaults \in Nat
  BY LinkAssumption
<1>2. att + 1 \in 1 .. MaxConnects /\ att' = att + 1
  BY <1>1 DEF ConnectAsync
<1>3. faults' \in 0 .. MaxFaults
  BY <1>1 DEF ConnectAsync, Fault
<1> DEFINE x == CloseSocket(l)
           y == CancelTimer(x)
<1>4. x \in Link /\ Same(l, x, "connect") /\ Same(l, x, "write")
  BY CloseSocketSame DEF KindSet
<1>5. y \in Link /\ Same(x, y, "connect") /\ Same(x, y, "write")
  BY <1>4, CancelTimerSame DEF KindSet
<1> HIDE DEF x, y
<1>6. ~Has(x, "connect") /\ ~Has(y, "connect") /\ Same(l, y, "write")
  BY <1>4, <1>5 DEF Same
<1>7. Single(x, "connect")
  BY <1>6 DEF Single, Has
<1> DEFINE u == [x EXCEPT !.sock = "unresolved"]
<1>8. CASE link' = u
  <2>1. u \in Link /\ Same(x, u, "connect") /\ Same(x, u, "write")
    BY <1>4, SetSock DEF Sockets, Closed, KindSet
  <2> HIDE DEF u
  <2>2. Single(u, "connect") /\ Same(l, u, "write")
    BY <2>1, <1>4, <1>7 DEF Same
  <2> QED
    BY <1>8, <1>2, <1>3, <2>1, <2>2
<1>9. CASE ~(link' = u)
  <2> DEFINE o == [kind |-> "connect", att |-> att + 1]
             w == [kind |-> "wait", att |-> att + 1]
             z == [y EXCEPT !.sock = "connecting"]
             m == [z EXCEPT !.ops = z.ops \cup {o, w}]
  <2>1. z \in Link /\ Same(y, z, "connect") /\ Same(y, z, "write")
    BY <1>5, SetSock DEF Sockets, Closed, KindSet
  <2>2. o \in Op /\ w \in Op /\ o.kind = "connect" /\ w.kind = "wait"
    BY <1>2 DEF Op
  <2>3. link' = m
    <3>1. link' = [y EXCEPT !.sock = "connecting", !.ops = @ \cup {o, w}]
      BY <1>9 DEF ConnectAsync, x, y, u
    <3>2. y.ops = z.ops
      BY <1>5 DEF Link
    <3> QED
      BY <3>1, <3>2, <1>5 DEF Link
  <2> HIDE DEF z, o, w
  <2>4. z.ops \in SUBSET Op
    BY <2>1, LinkParts
  <2>5. m \in Link /\ m.ops = z.ops \cup {o, w} /\ m.ready = z.ready
    BY <2>1, <2>2, <2>4, SetOps
  <2> HIDE DEF m
  <2>6. ~Has(z, "connect")
    BY <2>1, <1>6 DEF Same
  <2>7. Single(m, "connect")
    BY <2>2, <2>5, <2>6 DEF Single, Has
  <2>8. Same(z, m, "write")
    <3>1. Single(z, "write") => Single(m, "write")
      BY <2>2, <2>5 DEF Single
    <3>2. Has(m, "write") <=> Has(z, "write")
      BY <2>2, <2>5 DEF Has
    <3> QED
      BY <3>1, <3>2 DEF Same
  <2>9. Same(l, m, "write")
    BY <1>6, <2>1, <2>8 DEF Same
  <2> QED
    BY <2>3, <2>5, <2>7, <2>9, <1>2, <1>3
<1> QED
  BY <1>8, <1>9

-----------------------------------------------------------------------------
(* The invariant.                                                          *)

(* While a reconnection is under way the queue waits for it: it is not     *)
(* empty, so that no push starts a chain, and nobody is at its front.      *)
TakeOver ==
    started /\ Has(link, "connect") =>
        queued > 0 /\ Senders = {} /\ ~Writing /\ pc[Io] = "idle"

(* Nothing is sent before the first connection.                            *)
BeforeFirst ==
    ~started => ~alive /\ queued = 0 /\ Senders = {} /\ ~Writing /\ pc[Io] = "idle"

(* re_subscribe() only ever adds to a queue that is not empty.             *)
NoChainInResub == \A t \in AllThreads : pc[t] # "resub_send"

AttPositive == started \/ Has(link, "connect") => att > 0

IInv ==
    /\ TypeOK
    /\ OneSender
    /\ FrontStays
    /\ BacklogHasSender
    /\ Single(link, "connect")
    /\ Single(link, "write")
    /\ TakeOver
    /\ BeforeFirst
    /\ NoChainInResub
    /\ AttPositive

LEMMA InitIInv ==
    ASSUME Init
    PROVE  IInv
<1>1. TypeOK
  <2>1. link \in [sock : Sockets, ops : SUBSET Op, ready : Seq(SUBSET Completion)]
    BY DEF Init, Sockets, Closed
  <2>2. pc \in [AllThreads -> Places]
    BY DEF Init, Places
  <2>3. /\ att \in 0 .. MaxConnects /\ queued \in 0 .. MaxQueue
        /\ faults \in 0 .. MaxFaults
    BY LinkAssumption DEF Init
  <2> QED
    BY <2>1, <2>2, <2>3 DEF Init, TypeOK
<1>2. link.ready = <<>> /\ link.ops = {} /\ queued = 0 /\ Senders = {}
  BY DEF Init, Senders
<1>3. \A k \in KindSet : ~Has(link, k) /\ Single(link, k)
  BY <1>2 DEF Has, Single
<1>4. pc[Io] = "idle"
  BY DEF Init, AllThreads
<1> QED
  BY <1>1, <1>2, <1>3, <1>4
     DEF IInv, Init, OneSender, FrontStays, BacklogHasSender, TakeOver, BeforeFirst,
         NoChainInResub, AttPositive, Writing, KindSet

(* Steps of which the sending side sees nothing.                           *)
LEMMA LinkOnly ==
    ASSUME IInv, UNCHANGED <<att, alive, started, queued, pc>>,
           auto_reconnect' \in Modes, faults' \in 0 .. MaxFaults, link' \in Link,
           Single(link', "connect"), Single(link', "write"),
           Has(link', "write") <=> Has(link, "write"),
           Has(link', "connect") => Has(link, "connect")
    PROVE  IInv'
<1>1. TypeOK'
  BY DEF IInv, TypeOK, Link
<1>2. (Writing' <=> Writing) /\ Senders' = Senders
  BY DEF Writing, Senders
<1>3. OneSender' /\ FrontStays' /\ BacklogHasSender'
  BY <1>2 DEF IInv, OneSender, FrontStays, BacklogHasSender
<1>4. TakeOver' /\ BeforeFirst' /\ NoChainInResub' /\ AttPositive'
  BY <1>2 DEF IInv, TakeOver, BeforeFirst, NoChainInResub, AttPositive
<1> QED
  BY <1>1, <1>3, <1>4 DEF IInv

(* write(): a push that starts a chain meets no other consumer.            *)
LEMMA PushStep ==
    ASSUME IInv, started, NEW t \in AllThreads, Push(t)
    PROVE  IInv'
<1>1. queued \in Nat /\ MaxQueue \in Nat /\ queued' = queued + 1 /\ queued' \in 0 .. MaxQueue
  BY LinkAssumption DEF IInv, TypeOK, Push
<1>2. link' = link /\ (Writing' <=> Writing)
  BY DEF Push, Writing
<1>3. pc \in [AllThreads -> Places] /\ pc[t] = "idle" /\ Io \in AllThreads
  BY DEF IInv, TypeOK, Push, AllThreads
<1>4. pc' \in [AllThreads -> Places]
  BY <1>3 DEF Push, Places
<1>5. TypeOK' /\ AttPositive'
  BY <1>1, <1>4 DEF IInv, TypeOK, AttPositive, Push
<1>6. CASE queued = 0
  <2>1. Senders = {} /\ ~Writing /\ pc[Io] # "resub" /\ ~Has(link, "connect")
    BY <1>6 DEF IInv, FrontStays, TakeOver
  <2>2. pc' = [pc EXCEPT ![t] = "send"]
    BY <1>1, <1>6 DEF Push, StartsChain
  <2>3. Senders' = {t} /\ pc'[Io] # "resub"
    BY <2>1, <2>2, <1>3 DEF Senders
  <2>4. NoChainInResub'
    BY <2>2, <1>3 DEF IInv, NoChainInResub
  <2> QED
    BY <2>1, <2>3, <2>4, <1>1, <1>2, <1>5
       DEF IInv, OneSender, FrontStays, BacklogHasSender, TakeOver, BeforeFirst, Push
<1>7. CASE queued # 0
  <2>1. pc' = pc
    BY <1>1, <1>3, <1>7 DEF Push, StartsChain
  <2>2. Senders' = Senders
    BY <2>1 DEF Senders
  <2> QED
    BY <2>1, <2>2, <1>1, <1>2, <1>5, <1>7
       DEF IInv, OneSender, FrontStays, BacklogHasSender, TakeOver, BeforeFirst,
           NoChainInResub, Push
<1> QED
  BY <1>6, <1>7

(* A write begins when there is no other and the only consumer starts it.  *)
LEMMA StartWriteOne ==
    ASSUME IInv, started, ~Writing, StartWrite
    PROVE  /\ link' \in Link
           /\ Single(link', "connect") /\ Single(link', "write")
           /\ Writing'
           /\ Has(link', "connect") <=> Has(link, "connect")
<1> DEFINE o == [kind |-> "write", att |-> att]
<1>1. link \in Link /\ att \in 1 .. MaxConnects
  BY LinkAssumption DEF IInv, TypeOK, AttPositive, Link
<1>2. o \in Op /\ o.kind = "write" /\ link' \in Starts(link, o)
  BY <1>1 DEF Op, StartWrite
<1> HIDE DEF o
<1>3. ~Has(link, "write") /\ Single(link, "connect")
  BY DEF Writing, IInv
<1>4. /\ link' \in Link
      /\ Same(link, link', "connect")
      /\ Has(link', "write") /\ Single(link', "write")
  BY <1>1, <1>2, <1>3, StartsOne DEF KindSet
<1> QED
  BY <1>3, <1>4 DEF Same, Writing

LEMMA SendStep ==
    ASSUME IInv, NEW t \in AllThreads, Send(t)
    PROVE  IInv'
<1>1. pc \in [AllThreads -> Places] /\ pc[t] = "send" /\ Io \in AllThreads
  BY DEF IInv, TypeOK, Send, NoChainInResub, AllThreads
<1>2. t \in Senders
  BY <1>1 DEF Senders
<1>3. Senders = {t} /\ ~Writing /\ pc[Io] # "resub"
  BY <1>2 DEF IInv, OneSender
<1>4. started /\ queued > 0 /\ ~Has(link, "connect")
  BY <1>2 DEF IInv, BeforeFirst, FrontStays, TakeOver
<1>5. pc' = [pc EXCEPT ![t] = "idle"]
  BY <1>1 DEF Send
<1>6. Senders' = {} /\ pc'[Io] # "resub" /\ NoChainInResub' /\ pc' \in [AllThreads -> Places]
  BY <1>1, <1>3, <1>5 DEF IInv, Senders, NoChainInResub, Places
<1>7. /\ link' \in Link
      /\ Single(link', "connect") /\ Single(link', "write")
      /\ Writing' /\ ~Has(link', "connect")
  BY <1>3, <1>4, StartWriteOne DEF Send
<1>8. TypeOK'
  BY <1>6, <1>7 DEF IInv, TypeOK, Send, Link
<1> QED
  BY <1>4, <1>6, <1>7, <1>8
     DEF IInv, OneSender, FrontStays, BacklogHasSender, TakeOver, BeforeFirst,
         AttPositive, Send

LEMMA ReSubscribeTopicStep ==
    ASSUME IInv, ReSubscribeTopic
    PROVE  IInv'
<1>1. queued \in Nat /\ queued > 0 /\ queued' = queued + 1 /\ queued' \in 0 .. MaxQueue
  BY LinkAssumption DEF IInv, TypeOK, FrontStays, ReSubscribeTopic
<1>2. pc \in [AllThreads -> Places]
  BY DEF IInv, TypeOK
<1>3. pc' = pc
  BY <1>1, <1>2 DEF ReSubscribeTopic, StartsChain
<1>4. link' = link /\ Senders' = Senders /\ (Writing' <=> Writing)
  BY <1>3 DEF ReSubscribeTopic, Senders, Writing
<1>5. TypeOK'
  BY <1>1, <1>2, <1>3 DEF IInv, TypeOK, ReSubscribeTopic
<1> QED
  BY <1>1, <1>3, <1>4, <1>5
     DEF IInv, OneSender, FrontStays, BacklogHasSender, TakeOver, BeforeFirst,
         NoChainInResub, AttPositive, ReSubscribeTopic

LEMMA ReSubscribeSendStep ==
    ASSUME IInv, ReSubscribeSend
    PROVE  IInv'
<1>1. /\ pc \in [AllThreads -> Places] /\ Io \in AllThreads
      /\ pc[Io] = "resub" /\ pc' = [pc EXCEPT ![Io] = "idle"]
  BY DEF IInv, TypeOK, ReSubscribeSend, AllThreads
<1>2. Senders = {} /\ ~Writing /\ queued > 0 /\ started /\ ~Has(link, "connect")
  BY <1>1 DEF IInv, OneSender, FrontStays, BeforeFirst, TakeOver
<1>3. Senders' = {} /\ pc'[Io] # "resub" /\ NoChainInResub' /\ pc' \in [AllThreads -> Places]
  BY <1>1, <1>2 DEF IInv, Senders, NoChainInResub, Places
<1>4. /\ link' \in Link
      /\ Single(link', "connect") /\ Single(link', "write")
      /\ Writing' /\ ~Has(link', "connect")
  BY <1>2, StartWriteOne DEF ReSubscribeSend
<1>5. TypeOK'
  BY <1>3, <1>4 DEF IInv, TypeOK, ReSubscribeSend, Link
<1> QED
  BY <1>2, <1>3, <1>4, <1>5
     DEF IInv, OneSender, FrontStays, BacklogHasSender, TakeOver, BeforeFirst,
         AttPositive, ReSubscribeSend

(* connect_async() is called when nobody is at the queue.                  *)
LEMMA ReconnectStep ==
    ASSUME IInv, NEW l \in Link, ConnectAsync(l),
           ~Has(l, "connect"), ~Has(l, "write"),
           Senders = {}, pc[Io] = "idle", started => queued > 0,
           alive' = FALSE, UNCHANGED <<auto_reconnect, started, queued, pc>>
    PROVE  IInv'
<1>1. att \in 0 .. MaxConnects /\ faults \in 0 .. MaxFaults
  BY DEF IInv, TypeOK
<1>2. /\ link' \in Link /\ att' \in 1 .. MaxConnects /\ faults' \in 0 .. MaxFaults
      /\ Single(link', "connect") /\ Same(l, link', "write")
  BY <1>1, ConnectAsyncOne
<1>3. Single(l, "write")
  BY DEF Single, Has
<1>4. Single(link', "write") /\ ~Writing' /\ Senders' = {} /\ pc'[Io] = "idle"
  BY <1>2, <1>3 DEF Same, Writing, Senders
<1>5. TypeOK'
  <2>1. att' \in 0 .. MaxConnects
    BY <1>2, LinkAssumption
  <2>2. alive' \in BOOLEAN
    OBVIOUS
  <2> QED
    BY <1>2, <2>1, <2>2 DEF IInv, TypeOK, Link
<1>6. AttPositive'
  BY <1>2, LinkAssumption DEF AttPositive
<1> QED
  BY <1>2, <1>4, <1>5, <1>6
     DEF IInv, OneSender, FrontStays, BacklogHasSender, TakeOver, BeforeFirst,
         NoChainInResub

LEMMA ConnectStep ==
    ASSUME IInv, Connect
    PROVE  IInv'
<1>1. link \in Link /\ ~Has(link, "connect") /\ ConnectAsync(link) /\ ~started
  BY DEF Connect, IInv, TypeOK, Link
<1>2. Senders = {} /\ pc[Io] = "idle" /\ ~Has(link, "write") /\ alive = FALSE
  BY <1>1 DEF IInv, BeforeFirst, Writing, TypeOK
<1> QED
  BY <1>1, <1>2, ReconnectStep DEF Connect

(* What a handler starts from.                                             *)
LEMMA HandlerStart ==
    ASSUME IInv, NEW c \in Ready
    PROVE  /\ c \in Completion
           /\ Has(link, c.op.kind)
           /\ Without(c) \in Link
           /\ Single(Without(c), "connect") /\ Single(Without(c), "write")
           /\ IF c.op.kind = "connect"
              THEN ~Has(Without(c), "connect")
              ELSE Has(Without(c), "connect") <=> Has(link, "connect")
           /\ IF c.op.kind = "write"
              THEN ~Has(Without(c), "write")
              ELSE Has(Without(c), "write") <=> Has(link, "write")
<1>1. link \in Link /\ Single(link, "connect") /\ Single(link, "write")
  BY DEF IInv, TypeOK, Link
<1> QED
  BY <1>1, WithoutLess DEF Same, KindSet

LEMMA ConnectedStep ==
    ASSUME IInv, NEW c \in Ready, Connected(c)
    PROVE  IInv'
<1> DEFINE w == Without(c)
           o == [c.op EXCEPT !.kind = "read"]
<1>1. /\ c.op.kind = "connect" /\ c \in Completion /\ w \in Link
      /\ Has(link, "connect") /\ ~Has(w, "connect")
      /\ Single(w, "connect") /\ Single(w, "write") /\ (Has(w, "write") <=> Has(link, "write"))
  BY HandlerStart DEF Connected, Handler
<1>2. o \in Op /\ o.kind = "read"
  BY <1>1 DEF Completion, Op
<1>3. Senders = {} /\ ~Writing /\ pc[Io] = "idle" /\ att > 0
  BY <1>1 DEF IInv, TakeOver, BeforeFirst, AttPositive
<1>4. PICK l \in Starts(w, o) : link' = CancelTimer(l)
  BY DEF Connected
<1> HIDE DEF w, o
<1>5. l \in Link /\ Same(w, l, "connect") /\ Same(w, l, "write")
  BY <1>1, <1>2, <1>4, StartsOne DEF KindSet
<1>6. link' \in Link /\ Same(l, link', "connect") /\ Same(l, link', "write")
  BY <1>4, <1>5, CancelTimerSame DEF KindSet
<1>7. Single(link', "connect") /\ Single(link', "write") /\ ~Has(link', "connect") /\ ~Writing'
  BY <1>1, <1>3, <1>5, <1>6 DEF Same, Writing
<1>8. pc \in [AllThreads -> Places] /\ Io \in AllThreads
  BY DEF IInv, TypeOK, AllThreads
<1>9. /\ pc' \in [AllThreads -> Places] /\ Senders' = {} /\ NoChainInResub'
      /\ pc'[Io] = IF started THEN "resub" ELSE "idle"
  BY <1>3, <1>8 DEF Connected, Places, Senders, IInv, NoChainInResub
<1>10. TypeOK'
  BY <1>6, <1>9 DEF IInv, TypeOK, Connected, Link
<1>11. IF started THEN queued > 0 ELSE queued = 0
  BY <1>1 DEF IInv, TakeOver, BeforeFirst
<1>12. queued' = queued /\ started' /\ att' = att /\ queued \in Nat
  BY LinkAssumption DEF Connected, IInv, TypeOK
<1> QED
  BY <1>3, <1>7, <1>9, <1>10, <1>11, <1>12
     DEF IInv, OneSender, FrontStays, BacklogHasSender, TakeOver, BeforeFirst, AttPositive

LEMMA ConnectFailedStep ==
    ASSUME IInv, NEW c \in Ready, ConnectFailed(c)
    PROVE  IInv'
<1> DEFINE w == Without(c)
           l == CancelTimer(w)
<1>1. /\ c.op.kind = "connect" /\ w \in Link /\ Has(link, "connect") /\ ~Has(w, "connect")
      /\ Single(w, "connect") /\ Single(w, "write") /\ (Has(w, "write") <=> Has(link, "write"))
  BY HandlerStart DEF ConnectFailed, Handler
<1>2. Senders = {} /\ ~Writing /\ pc[Io] = "idle" /\ alive = FALSE
  BY <1>1 DEF IInv, TakeOver, BeforeFirst, BacklogHasSender, TypeOK
<1> HIDE DEF w
<1>3. l \in Link /\ Same(w, l, "connect") /\ Same(w, l, "write")
  BY <1>1, CancelTimerSame DEF KindSet
<1>4. ~Has(l, "connect") /\ ~Has(l, "write") /\ Single(l, "connect") /\ Single(l, "write")
  BY <1>1, <1>2, <1>3 DEF Same, Writing
<1>5. Disconnected(l)
  BY DEF ConnectFailed, w
<1>6. started => queued > 0
  BY <1>1 DEF IInv, TakeOver
<1> HIDE DEF l
<1>7. CASE Callback /\ started
  <2>1. ConnectAsync(l)
    BY <1>5, <1>7 DEF Disconnected
  <2> QED
    BY <2>1, <1>2, <1>3, <1>4, <1>6, ReconnectStep DEF ConnectFailed
<1>8. CASE ~(Callback /\ started)
  <2>1. link' = l /\ UNCHANGED <<att, faults>>
    BY <1>5, <1>8 DEF Disconnected
  <2>2. auto_reconnect' \in Modes /\ faults' \in 0 .. MaxFaults
    BY <2>1 DEF ConnectFailed, IInv, TypeOK
  <2>3. ~Has(link, "write")
    BY <1>2 DEF Writing
  <2> QED
    BY <2>1, <2>2, <2>3, <1>3, <1>4, LinkOnly DEF ConnectFailed
<1> QED
  BY <1>7, <1>8

LEMMA WrittenStep ==
    ASSUME IInv, NEW c \in Ready, Written(c)
    PROVE  IInv'
<1>1. /\ c.op.kind = "write" /\ link' = Without(c) /\ link' \in Link
      /\ Has(link, "write") /\ ~Has(link', "write")
      /\ Single(link', "connect") /\ Single(link', "write")
      /\ (Has(link', "connect") <=> Has(link, "connect"))
  BY HandlerStart DEF Written, Handler
<1>2. /\ Writing /\ ~Writing' /\ Senders = {} /\ queued > 0 /\ started
      /\ ~Has(link, "connect") /\ pc[Io] = "idle"
  BY <1>1 DEF Writing, IInv, OneSender, FrontStays, BeforeFirst, TakeOver, Written, Handler
<1>3. queued \in Nat /\ queued' = queued - 1 /\ queued' \in 0 .. MaxQueue
  BY <1>2, LinkAssumption DEF IInv, TypeOK, Written
<1>4. pc \in [AllThreads -> Places] /\ Io \in AllThreads
  BY DEF IInv, TypeOK, AllThreads
<1>5. pc' = [pc EXCEPT ![Io] = IF queued' > 0 THEN "send" ELSE "idle"]
  BY DEF Written, Continues
<1>6. /\ pc' \in [AllThreads -> Places] /\ NoChainInResub' /\ pc'[Io] # "resub"
      /\ Senders' = IF queued' > 0 THEN {Io} ELSE {}
  BY <1>2, <1>4, <1>5 DEF Places, Senders, IInv, NoChainInResub
<1>7. TypeOK'
  BY <1>1, <1>3, <1>6 DEF IInv, TypeOK, Written, Link
<1> QED
  BY <1>1, <1>2, <1>3, <1>6, <1>7
     DEF IInv, OneSender, FrontStays, BacklogHasSender, TakeOver, BeforeFirst,
         AttPositive, Written

LEMMA WriteFailedStep ==
    ASSUME IInv, NEW c \in Ready, WriteFailed(c)
    PROVE  IInv'
<1> DEFINE w == Without(c)
           l == CloseSocket(w)
<1>1. /\ c.op.kind = "write" /\ w \in Link /\ Has(link, "write") /\ ~Has(w, "write")
      /\ Single(w, "connect") /\ Single(w, "write")
      /\ (Has(w, "connect") <=> Has(link, "connect"))
  BY HandlerStart DEF WriteFailed, Handler
<1>2. /\ Writing /\ Senders = {} /\ queued > 0 /\ started
      /\ ~Has(link, "connect") /\ pc[Io] = "idle"
  BY <1>1 DEF Writing, IInv, OneSender, FrontStays, BeforeFirst, TakeOver, WriteFailed, Handler
<1> HIDE DEF w
<1>3. l \in Link /\ Same(w, l, "connect") /\ Same(w, l, "write")
  BY <1>1, CloseSocketSame DEF KindSet
<1>4. ~Has(l, "connect") /\ ~Has(l, "write") /\ Single(l, "connect") /\ Single(l, "write")
  BY <1>1, <1>2, <1>3 DEF Same
<1>5. /\ alive' = FALSE /\ UNCHANGED <<auto_reconnect, started, queued, pc>>
      /\ IF auto_reconnect THEN ConnectAsync(l) ELSE Disconnected(l)
  BY DEF WriteFailed, QueueAfterError, w
<1> HIDE DEF l
<1>6. CASE ConnectAsync(l)
  BY <1>2, <1>3, <1>4, <1>5, <1>6, ReconnectStep
<1>7. CASE ~ConnectAsync(l)
  <2>1. link' = l /\ UNCHANGED <<att, faults>>
    BY <1>5, <1>7 DEF Disconnected
  <2>2. ~Writing' /\ Senders' = Senders
    BY <2>1, <1>4, <1>5 DEF Writing, Senders
  <2>3. TypeOK'
    BY <2>1, <1>3, <1>5 DEF IInv, TypeOK, Link
  <2> QED
    BY <2>1, <2>2, <2>3, <1>2, <1>4, <1>5
       DEF IInv, OneSender, FrontStays, BacklogHasSender, TakeOver, BeforeFirst,
           NoChainInResub, AttPositive
<1> QED
  BY <1>6, <1>7

(* The handlers that do not touch the queue.                               *)
LEMMA OtherHandlerStep ==
    ASSUME IInv, NEW c \in Ready, TimedOut(c) \/ Received(c) \/ ReadFailed(c)
    PROVE  IInv'
<1> DEFINE w == Without(c)
<1>1. /\ c.op.kind \in {"wait", "read"} /\ c \in Completion /\ w \in Link
      /\ Single(w, "connect") /\ Single(w, "write")
      /\ (Has(w, "connect") <=> Has(link, "connect"))
      /\ (Has(w, "write") <=> Has(link, "write"))
  BY HandlerStart DEF TimedOut, Received, ReadFailed, Handler
<1>2. c.op \in Op
  BY <1>1 DEF Completion
<1>3. /\ UNCHANGED <<att, alive, started, queued, pc>>
      /\ auto_reconnect' \in Modes /\ faults' \in 0 .. MaxFaults
  BY DEF IInv, TypeOK, TimedOut, Received, ReadFailed, AliveAfterReadError
<1>4. link' = CloseSocket(w) \/ link' \in Starts(w, c.op)
  BY DEF TimedOut, Received, ReadFailed
<1> HIDE DEF w
<1>5. link' \in Link /\ Same(w, link', "connect") /\ Same(w, link', "write")
  <2>1. CASE link' = CloseSocket(w)
    BY <2>1, <1>1, CloseSocketSame DEF KindSet
  <2>2. CASE link' \in Starts(w, c.op)
    BY <2>2, <1>1, <1>2, StartsOne DEF KindSet
  <2> QED
    BY <1>4, <2>1, <2>2
<1>6. /\ Single(link', "connect") /\ Single(link', "write")
      /\ (Has(link', "write") <=> Has(link, "write"))
      /\ (Has(link', "connect") <=> Has(link, "connect"))
  BY <1>1, <1>5 DEF Same
<1> QED
  BY <1>3, <1>5, <1>6, LinkOnly

(* The operating system.                                                   *)
LEMMA SystemStep ==
    ASSUME IInv,
           \/ EndsConnect \/ Refuse \/ EndsRead \/ FailsRead
           \/ EndsWrite \/ FailsWrite \/ Timeout \/ Lose
    PROVE  IInv'
<1>1. link \in Link /\ Single(link, "connect") /\ Single(link, "write")
  BY DEF IInv, TypeOK, Link
<1>2. UNCHANGED <<att, alive, auto_reconnect, started, queued, pc>>
  <2>1. CASE EndsConnect \/ Refuse \/ Lose
    BY <2>1 DEF EndsConnect, Refuse, Lose
  <2>2. CASE EndsRead \/ FailsRead \/ EndsWrite \/ FailsWrite \/ Timeout
    BY <2>2 DEF EndsRead, FailsRead, EndsWrite, FailsWrite, Timeout, Ends
  <2> QED
    BY <2>1, <2>2
<1>2a. auto_reconnect' \in Modes
  BY <1>2 DEF IInv, TypeOK
<1>3. faults' \in 0 .. MaxFaults
  <2>1. faults \in 0 .. MaxFaults
    BY DEF IInv, TypeOK
  <2>2. ASSUME NEW kind, Fault(kind) PROVE faults' \in 0 .. MaxFaults
    BY <2>1, <2>2, LinkAssumption DEF Fault
  <2>3. CASE EndsConnect \/ EndsRead \/ FailsRead \/ EndsWrite \/ FailsWrite
    BY <2>1, <2>3 DEF EndsConnect, EndsRead, FailsRead, EndsWrite, FailsWrite
  <2>4. CASE Refuse \/ Timeout \/ Lose
    BY <2>2, <2>4 DEF Refuse, Timeout, Lose
  <2> QED
    BY <2>3, <2>4
<1>4. link' \in Link /\ Same(link, link', "connect") /\ Same(link, link', "write")
  <2>1. ASSUME NEW kind, NEW ok \in BOOLEAN, Ends(kind, ok)
        PROVE  link' \in Link /\ Same(link, link', "connect") /\ Same(link, link', "write")
    <3>1. PICK o \in link.ops : link' = Complete(link, {o}, ok)
      BY <2>1 DEF Ends
    <3>2. {o} \in SUBSET link.ops
      BY <3>1
    <3> QED
      BY <3>1, <3>2, <1>1, CompleteSame DEF KindSet
  <2>2. CASE EndsConnect
    <3>1. PICK o \in link.ops : link' = [Complete(link, {o}, TRUE) EXCEPT !.sock = "up"]
      BY <2>2 DEF EndsConnect
    <3> DEFINE m == Complete(link, {o}, TRUE)
    <3>2. {o} \in SUBSET link.ops
      BY <3>1
    <3>3. m \in Link /\ Same(link, m, "connect") /\ Same(link, m, "write")
      BY <3>2, <1>1, CompleteSame DEF KindSet
    <3>4. link' = [m EXCEPT !.sock = "up"]
      BY <3>1
    <3> HIDE DEF m
    <3>5. link' \in Link /\ Same(m, link', "connect") /\ Same(m, link', "write")
      BY <3>3, <3>4, SetSock DEF KindSet, Sockets, Closed
    <3> QED
      BY <3>3, <3>5 DEF Same
  <2>3. CASE Refuse
    <3>1. link' = CloseSocket(link)
      BY <2>3 DEF Refuse
    <3> QED
      BY <3>1, <1>1, CloseSocketSame DEF KindSet
  <2>4. CASE Lose
    <3>1. link' = [link EXCEPT !.sock = "lost"]
      BY <2>4 DEF Lose
    <3> QED
      BY <3>1, <1>1, SetSock DEF KindSet, Sockets, Closed
  <2>5. CASE EndsRead \/ EndsWrite \/ Timeout
    BY <2>1, <2>5 DEF EndsRead, EndsWrite, Timeout
  <2>6. CASE FailsRead \/ FailsWrite
    BY <2>1, <2>6 DEF FailsRead, FailsWrite
  <2> QED
    BY <2>2, <2>3, <2>4, <2>5, <2>6
<1>5. /\ Single(link', "connect") /\ Single(link', "write")
      /\ (Has(link', "write") <=> Has(link, "write"))
      /\ (Has(link', "connect") <=> Has(link, "connect"))
  BY <1>1, <1>4 DEF Same
<1> QED
  BY <1>2, <1>2a, <1>3, <1>4, <1>5, LinkOnly

LEMMA NextIInv ==
    ASSUME IInv, [Next]_vars
    PROVE  IInv'
<1>1. link \in Link /\ Single(link, "connect") /\ Single(link, "write")
  BY DEF IInv, TypeOK, Link
<1>2. CASE Connect
  BY <1>2, ConnectStep
<1>3. CASE \E mode \in Modes : SetAutoReconnect(mode)
  <2>1. /\ UNCHANGED <<link, att, alive, started, queued, pc, faults>>
        /\ auto_reconnect' \in Modes /\ faults' \in 0 .. MaxFaults
    BY <1>3 DEF SetAutoReconnect, IInv, TypeOK
  <2> QED
    BY <2>1, <1>1, LinkOnly
<1>4. ASSUME NEW t \in AllThreads, Write(t) PROVE IInv'
  BY <1>4, PushStep DEF Write
<1>5. ASSUME NEW t \in AllThreads, Send(t) PROVE IInv'
  BY <1>5, SendStep
<1>6. CASE KeepAlive
  <2>1. started /\ Push(Keeper) /\ Keeper \in AllThreads
    BY <1>6 DEF KeepAlive, IInv, BeforeFirst, AllThreads
  <2> QED
    BY <2>1, PushStep
<1>7. CASE ReSubscribeTopic
  BY <1>7, ReSubscribeTopicStep
<1>8. CASE ReSubscribeSend
  BY <1>8, ReSubscribeSendStep
<1>9. ASSUME NEW c \in Ready, Handle(c) PROVE IInv'
  BY <1>9, ConnectedStep, ConnectFailedStep, OtherHandlerStep, WrittenStep, WriteFailedStep
     DEF Handle
<1>10. CASE \/ EndsConnect \/ Refuse \/ EndsRead \/ FailsRead
            \/ EndsWrite \/ FailsWrite \/ Timeout \/ Lose
  BY <1>10, SystemStep
<1>11. CASE UNCHANGED vars
  <2>1. /\ UNCHANGED <<link, att, alive, started, queued, pc>>
        /\ auto_reconnect' \in Modes /\ faults' \in 0 .. MaxFaults
    BY <1>11 DEF vars, IInv, TypeOK
  <2> QED
    BY <2>1, <1>1, LinkOnly
<1> QED
  BY <1>2, <1>3, <1>4, <1>5, <1>6, <1>7, <1>8, <1>9, <1>10, <1>11 DEF Next

LEMMA Invariant == Spec => []IInv
BY InitIInv, NextIInv, PTL DEF Spec

-----------------------------------------------------------------------------
(* The variables of ClientLink stay in their sets.                         *)
THEOREM TypeCorrect == Spec => []TypeOK
<1>1. IInv => TypeOK
  BY DEF IInv
<1> QED
  BY <1>1, Invariant, PTL

(* The client's queue has one consumer at most, over any number of losses  *)
(* and reconnections.                                                      *)
THEOREM AtMostOneSender == Spec => []OneSender
<1>1. IInv => OneSender
  BY DEF IInv
<1> QED
  BY <1>1, Invariant, PTL

(* front() and pop_front() never meet an empty queue, re_subscribe()       *)
(* included.                                                               *)
THEOREM FrontIsThere == Spec => []FrontStays
<1>1. IInv => FrontStays
  BY DEF IInv
<1> QED
  BY <1>1, Invariant, PTL

(* A client that takes itself for connected leaves nothing in the queue    *)
(* without somebody who sends it.                                          *)
THEOREM NothingStranded == Spec => []BacklogHasSender
<1>1. IInv => BacklogHasSender
  BY DEF IInv
<1> QED
  BY <1>1, Invariant, PTL

(* socket_ is not replaced while another thread is about to write to it.   *)
THEOREM ReplacedAlone == Spec => SocketReplacedAlone
<1>1. ASSUME IInv, [Next]_vars
      PROVE  [att' # att => Senders = {}]_vars
  <2>1. CASE Connect
    BY <1>1, <2>1 DEF Connect, IInv, BeforeFirst
  <2>2. ASSUME NEW c \in Ready, ConnectFailed(c) \/ WriteFailed(c)
        PROVE  Senders = {}
    <3>1. Has(link, "connect") \/ Has(link, "write")
      BY <1>1, <2>2, HandlerStart DEF ConnectFailed, WriteFailed, Handler
    <3> QED
      BY <1>1, <3>1 DEF IInv, TakeOver, BeforeFirst, OneSender, Writing
  <2>3. ASSUME NEW c \in Ready, Handle(c), ~ConnectFailed(c), ~WriteFailed(c)
        PROVE  att' = att
    BY <2>3 DEF Handle, Connected, TimedOut, Received, ReadFailed, Written
  <2>4. ASSUME NEW t \in AllThreads, Write(t) \/ Send(t)
        PROVE  att' = att
    BY <2>4 DEF Write, Push, Send
  <2>5. ASSUME \/ \E mode \in Modes : SetAutoReconnect(mode)
               \/ KeepAlive \/ ReSubscribeTopic \/ ReSubscribeSend
        PROVE  att' = att
    BY <2>5 DEF SetAutoReconnect, KeepAlive, Push, ReSubscribeTopic, ReSubscribeSend
  <2>6. ASSUME \/ EndsConnect \/ Refuse \/ EndsRead \/ FailsRead
               \/ EndsWrite \/ FailsWrite \/ Timeout \/ Lose
        PROVE  att' = att
    BY <2>6 DEF EndsConnect, Refuse, EndsRead, FailsRead, EndsWrite, FailsWrite,
                Timeout, Lose, Ends
  <2>7. CASE UNCHANGED vars
    BY <2>7
  <2> QED
    BY <1>1, <2>1, <2>2, <2>3, <2>4, <2>5, <2>6, <2>7 DEF Next
<1> QED
  BY <1>1, Invariant, PTL DEF Spec, SocketReplacedAlone

-----------------------------------------------------------------------------
(* Reconnecting.  A connect that is waited for has its socket connecting;  *)
(* what the operators on links do to that.                                 *)
Pending(l) == \A o \in l.ops : o.kind = "connect" => l.sock = "connecting"

(* Nothing is begun on the way from l to m, or nothing but reads, writes   *)
(* and waits.                                                              *)
NoConnect(l, m) ==
    m.sock = l.sock /\ \A o \in m.ops : o.kind = "connect" => o \in l.ops

LEMMA ReadySet ==
    ASSUME NEW l \in Link, NEW q
    PROVE  LET m == [l EXCEPT !.ready = q]
           IN  m.sock = l.sock /\ m.ops = l.ops
<1> DEFINE S == Seq(SUBSET Completion)
<1>1. l \in [sock : Sockets, ops : SUBSET Op, ready : S]
  BY DEF Link
<1> HIDE DEF S
<1> QED
  BY <1>1

LEMMA PostParts ==
    ASSUME NEW l \in Link, NEW cs
    PROVE  Post(l, cs).sock = l.sock /\ Post(l, cs).ops = l.ops
BY ReadySet DEF Post

LEMMA CompleteParts ==
    ASSUME NEW l \in Link, NEW os \in SUBSET l.ops, NEW ok
    PROVE  Complete(l, os, ok).sock = l.sock /\ Complete(l, os, ok).ops = l.ops \ os
<1>1. PICK m : m = [l EXCEPT !.ops = l.ops \ os]
  OBVIOUS
<1>2. l.ops \ os \in SUBSET Op
  BY LinkParts
<1>3. m \in Link /\ m.sock = l.sock /\ m.ops = l.ops \ os
  BY <1>1, <1>2, SetOps
<1> QED
  BY <1>1, <1>3, PostParts DEF Complete

LEMMA CloseSocketParts ==
    ASSUME NEW l \in Link
    PROVE  /\ CloseSocket(l).sock = IF l.sock = "unresolved" THEN "unresolved" ELSE "closed"
           /\ Pending(CloseSocket(l))
<1>1. PICK s, m : /\ s = (IF l.sock = "unresolved" THEN l.sock ELSE "closed")
                  /\ m = [l EXCEPT !.sock = s]
  OBVIOUS
<1>2. s \in Sockets
  BY <1>1, LinkParts DEF Sockets, Closed
<1>3. m \in Link /\ m.sock = s
  BY <1>1, <1>2, SetSock
<1>4. m.ops = l.ops
  <2> DEFINE S == Seq(SUBSET Completion)
  <2>1. l \in [sock : Sockets, ops : SUBSET Op, ready : S]
    BY DEF Link
  <2> HIDE DEF S
  <2> QED
    BY <1>1, <2>1
<1>5. PICK os : os = {o \in l.ops : o.kind # "wait"} /\ os \in SUBSET m.ops
  BY <1>4
<1>6. CloseSocket(l) = Complete(m, os, FALSE)
  BY <1>1, <1>5 DEF CloseSocket
<1>7. CloseSocket(l).sock = s /\ CloseSocket(l).ops = l.ops \ os
  <2>1. m \in Link /\ os \in SUBSET m.ops
    BY <1>3, <1>5
  <2>2. Complete(m, os, FALSE).sock = m.sock /\ Complete(m, os, FALSE).ops = m.ops \ os
    BY <2>1, CompleteParts, ZenonT(40)
  <2> QED
    BY <2>2, <1>3, <1>4, <1>6
<1>8. \A o \in l.ops \ os : o.kind = "wait"
  BY <1>5
<1> QED
  BY <1>1, <1>7, <1>8 DEF Pending

LEMMA CancelTimerParts ==
    ASSUME NEW l \in Link
    PROVE  NoConnect(l, CancelTimer(l))
<1>1. {o \in l.ops : o.kind # "wait"} \in SUBSET Op
  BY LinkParts
<1> QED
  BY <1>1, SetOps DEF CancelTimer, NoConnect

LEMMA WithoutParts ==
    ASSUME link \in Link, NEW c
    PROVE  NoConnect(link, Without(c))
BY ReadySet DEF Without, NoConnect

LEMMA StartsParts ==
    ASSUME NEW l \in Link, NEW o \in Op, o.kind # "connect", NEW m \in Starts(l, o)
    PROVE  NoConnect(l, m)
<1>1. PICK w : w = [l EXCEPT !.ops = l.ops \cup {o}]
  OBVIOUS
<1>2. l.ops \cup {o} \in SUBSET Op
  BY LinkParts
<1>3. w.sock = l.sock /\ w.ops = l.ops \cup {o}
  BY <1>1, <1>2, SetOps
<1>4. m = w \/ m = Post(l, {[op |-> o, ok |-> FALSE]})
  BY <1>1 DEF Starts
<1> QED
  BY <1>3, <1>4, PostParts DEF NoConnect

(* A new attempt, if the name is resolved.                                 *)
LEMMA ConnectAsyncParts ==
    ASSUME NEW l \in Link, ConnectAsync(l), att \in 0 .. MaxConnects
    PROVE  /\ Has(link', "connect") \/ link'.sock = "unresolved"
           /\ Pending(link')
<1>1. PICK x, y : x = CloseSocket(l) /\ y = CancelTimer(x)
  OBVIOUS
<1>2. x \in Link /\ y \in Link
  BY <1>1, CloseSocketSame, CancelTimerSame
<1>3. \A o \in x.ops : o.kind # "connect"
  <2>1. Pending(x) /\ x.sock # "connecting"
    BY <1>1, CloseSocketParts
  <2> QED
    BY <2>1 DEF Pending
<1>4. CASE link' = [x EXCEPT !.sock = "unresolved"]
  <2> DEFINE S == Seq(SUBSET Completion)
  <2>1. x \in [sock : Sockets, ops : SUBSET Op, ready : S]
    BY <1>2 DEF Link
  <2> HIDE DEF S
  <2>2. link'.sock = "unresolved" /\ link'.ops = x.ops
    BY <1>4, <2>1
  <2> QED
    BY <1>3, <2>2 DEF Pending
<1>5. CASE link' # [x EXCEPT !.sock = "unresolved"]
  <2>1. PICK o, w : o = [kind |-> "connect", att |-> att + 1] /\ w = [kind |-> "wait", att |-> att + 1]
    OBVIOUS
  <2>2. link' = [y EXCEPT !.sock = "connecting", !.ops = @ \cup {o, w}]
    BY <1>1, <1>5, <2>1 DEF ConnectAsync
  <2> DEFINE S == Seq(SUBSET Completion)
  <2>3. y \in [sock : Sockets, ops : SUBSET Op, ready : S]
    BY <1>2 DEF Link
  <2> HIDE DEF S
  <2>4. link'.sock = "connecting" /\ link'.ops = y.ops \cup {o, w}
    BY <2>2, <2>3
  <2>5. o.kind = "connect" /\ o \in link'.ops
    BY <2>1, <2>4
  <2> QED
    BY <2>4, <2>5 DEF Has, Pending
<1> QED
  BY <1>4, <1>5

(* Steps in which the client neither notices a loss nor gives up trying.   *)
LEMMA TriesOn ==
    ASSUME KeepsTrying, started' = started, alive' = alive,
           Has(link, "connect") => Has(link', "connect"),
           link.sock = "unresolved" => link'.sock = "unresolved",
           Pending(link')
    PROVE  KeepsTrying'
<1>1. (Callback /\ started /\ ~alive => Has(link, "connect") \/ link.sock = "unresolved")'
  BY DEF KeepsTrying
<1> QED
  BY <1>1 DEF KeepsTrying, Pending

LEMMA TriesAgain ==
    ASSUME IInv, NEW l \in Link, ConnectAsync(l)
    PROVE  KeepsTrying'
<1>1. (Has(link, "connect") \/ link.sock = "unresolved")' /\ Pending(link')
  BY ConnectAsyncParts DEF IInv, TypeOK
<1> QED
  BY <1>1 DEF KeepsTrying, Pending

LEMMA NextKeepsTrying ==
    ASSUME IInv, KeepsTrying, [Next]_vars
    PROVE  KeepsTrying'
<1>1. link \in Link /\ Pending(link)
  BY DEF IInv, TypeOK, Link, KeepsTrying, Pending
<1>2. \A l, m : Pending(l) /\ NoConnect(l, m) => Pending(m)
  BY DEF Pending, NoConnect
<1>3. CASE Connect
  BY <1>1, <1>3, TriesAgain DEF Connect
<1>4. CASE link' = link /\ started' = started /\ alive' = alive
  BY <1>1, <1>4, TriesOn
<1>5. ASSUME NEW o \in Op, o.kind = "write", link' \in Starts(link, o),
             started' = started, alive' = alive
      PROVE  KeepsTrying'
  <2>1. NoConnect(link, link') /\ Same(link, link', "connect")
    BY <1>1, <1>5, StartsParts, StartsOne DEF KindSet
  <2> QED
    BY <1>1, <1>2, <1>5, <2>1, TriesOn DEF NoConnect, Same
<1>6. ASSUME StartWrite, started' = started, alive' = alive, Senders # {} \/ pc[Io] = "resub"
      PROVE  KeepsTrying'
  <2>1. started
    BY <1>6 DEF IInv, BeforeFirst
  <2>2. att \in 1 .. MaxConnects
    BY <2>1, LinkAssumption DEF IInv, TypeOK, AttPositive
  <2>3. PICK o : o = [kind |-> "write", att |-> att]
    OBVIOUS
  <2>4. o \in Op /\ o.kind = "write" /\ link' \in Starts(link, o)
    BY <1>6, <2>2, <2>3 DEF Op, StartWrite
  <2> QED
    BY <1>5, <1>6, <2>4
<1>7. ASSUME NEW t \in AllThreads, Write(t) \/ Send(t)
      PROVE  KeepsTrying'
  BY <1>4, <1>6, <1>7 DEF Write, Push, Send, Senders
<1>8. CASE KeepAlive \/ ReSubscribeTopic \/ ReSubscribeSend \/ \E mode \in Modes : SetAutoReconnect(mode)
  BY <1>4, <1>6, <1>8 DEF KeepAlive, Push, ReSubscribeTopic, ReSubscribeSend, SetAutoReconnect
<1>9. ASSUME NEW c \in Ready, Handle(c)
      PROVE  KeepsTrying'
  <2>1. PICK w : w = Without(c)
    OBVIOUS
  <2>2. /\ c \in Completion /\ c.op \in Op /\ w \in Link /\ NoConnect(link, w)
        /\ c.op.kind # "connect" => (Has(w, "connect") <=> Has(link, "connect"))
    BY <1>1, <1>9, <2>1, HandlerStart, WithoutParts DEF Completion
  <2>3. Pending(w) /\ w.sock = link.sock
    BY <1>1, <1>2, <2>2 DEF NoConnect
  <2>4. CASE Connected(c)
    <3>1. PICK o : o = [c.op EXCEPT !.kind = "read"]
      OBVIOUS
    <3>2. o \in Op /\ o.kind = "read"
      BY <2>2, <3>1 DEF Op
    <3>3. PICK l \in Starts(w, o) : link' = CancelTimer(l)
      BY <2>1, <2>4, <3>1 DEF Connected
    <3>4. l \in Link /\ NoConnect(w, l)
      BY <2>2, <3>2, <3>3, StartsOne, StartsParts
    <3>5. Pending(link')
      BY <1>2, <2>3, <3>3, <3>4, CancelTimerParts
    <3>6. alive' = TRUE
      BY <2>4 DEF Connected
    <3> QED
      BY <3>5, <3>6 DEF KeepsTrying, Pending
  <2>5. CASE ConnectFailed(c)
    <3>1. PICK l : l = CancelTimer(w) /\ Disconnected(l)
      BY <2>1, <2>5 DEF ConnectFailed
    <3>2. l \in Link /\ Pending(l)
      BY <1>2, <2>2, <2>3, <3>1, CancelTimerSame, CancelTimerParts
    <3>3. CASE Callback /\ started
      BY <3>1, <3>2, <3>3, TriesAgain DEF Disconnected
    <3>4. CASE ~(Callback /\ started)
      <4>1. link' = l /\ started' = started
        BY <2>5, <3>1, <3>4 DEF Disconnected, ConnectFailed
      <4> QED
        BY <3>2, <3>4, <4>1 DEF KeepsTrying, Pending
    <3> QED
      BY <3>3, <3>4
  <2>6. CASE TimedOut(c) \/ ReadFailed(c)
    <3>1. link' = CloseSocket(w) /\ started' = started /\ alive' = alive /\ c.op.kind # "connect"
      BY <2>1, <2>6 DEF TimedOut, ReadFailed, Handler, AliveAfterReadError
    <3>2. Same(w, link', "connect") /\ Pending(link')
          /\ (w.sock = "unresolved" => link'.sock = "unresolved")
      BY <2>2, <3>1, CloseSocketSame, CloseSocketParts DEF KindSet
    <3> QED
      BY <2>2, <2>3, <3>1, <3>2, TriesOn DEF Same
  <2>7. CASE Received(c)
    <3>1. link' \in Starts(w, c.op) /\ started' = started /\ alive' = alive /\ c.op.kind = "read"
      BY <2>1, <2>7 DEF Received, Handler
    <3>2. NoConnect(w, link') /\ Same(w, link', "connect")
      BY <2>2, <3>1, StartsOne, StartsParts DEF KindSet
    <3> QED
      BY <1>2, <2>2, <2>3, <3>1, <3>2, TriesOn DEF NoConnect, Same
  <2>8. CASE Written(c)
    <3>1. link' = w /\ started' = started /\ alive' = alive /\ c.op.kind # "connect"
      BY <2>1, <2>8 DEF Written, Handler
    <3> QED
      BY <2>2, <2>3, <3>1, TriesOn
  <2>9. CASE WriteFailed(c)
    <3>1. PICK l : l = CloseSocket(w)
      OBVIOUS
    <3>2. /\ IF auto_reconnect THEN ConnectAsync(l) ELSE Disconnected(l)
          /\ started' = started
      BY <2>1, <2>9, <3>1 DEF WriteFailed
    <3>3. l \in Link /\ Pending(l)
      BY <2>2, <3>1, CloseSocketSame, CloseSocketParts
    <3>4. CASE ConnectAsync(l)
      BY <3>3, <3>4, TriesAgain
    <3>5. CASE ~ConnectAsync(l)
      <4>1. link' = l /\ ~(Callback /\ started)
        BY <3>2, <3>5 DEF Disconnected
      <4> QED
        BY <3>2, <3>3, <4>1 DEF KeepsTrying, Pending
    <3> QED
      BY <3>4, <3>5
  <2> QED
    BY <1>9, <2>4, <2>5, <2>6, <2>7, <2>8, <2>9 DEF Handle
<1>10. CASE EndsConnect
  <2>1. PICK o \in link.ops : /\ link.sock = "connecting" /\ o.kind = "connect"
                              /\ link' = [Complete(link, {o}, TRUE) EXCEPT !.sock = "up"]
    BY <1>10 DEF EndsConnect
  <2>2. PICK m : m = Complete(link, {o}, TRUE)
    OBVIOUS
  <2>3. {o} \in SUBSET link.ops
    BY <2>1
  <2>4. m \in Link /\ Same(link, m, "connect") /\ m.ops = link.ops \ {o}
    BY <1>1, <2>2, <2>3, CompleteSame, CompleteParts, ZenonT(60) DEF KindSet
  <2>5. link' = [m EXCEPT !.sock = "up"]
    BY <2>1, <2>2
  <2>6. Same(m, link', "connect")
    BY <2>4, <2>5, SetSock DEF KindSet, Sockets, Closed
  <2>7. link'.ops = link.ops \ {o}
    <3> DEFINE S == Seq(SUBSET Completion)
    <3>1. m \in [sock : Sockets, ops : SUBSET Op, ready : S]
      BY <2>4 DEF Link
    <3> HIDE DEF S
    <3> QED
      BY <2>4, <2>5, <3>1
  <2>8. \A p \in link.ops : p.kind = "connect" => p = o
    BY <2>1 DEF IInv, Single
  <2>9. Pending(link')
    BY <2>7, <2>8 DEF Pending
  <2> QED
    BY <1>10, <2>1, <2>4, <2>6, <2>9, TriesOn DEF EndsConnect, Same
<1>11. CASE Refuse
  <2>1. link' = CloseSocket(link) /\ started' = started /\ alive' = alive
    BY <1>11 DEF Refuse
  <2>2. Same(link, link', "connect") /\ Pending(link')
        /\ (link.sock = "unresolved" => link'.sock = "unresolved")
    BY <1>1, <2>1, CloseSocketSame, CloseSocketParts DEF KindSet
  <2> QED
    BY <2>1, <2>2, TriesOn DEF Same
<1>12. CASE EndsRead \/ FailsRead \/ EndsWrite \/ FailsWrite \/ Timeout
  <2>1. PICK o \in link.ops, ok \in BOOLEAN : link' = Complete(link, {o}, ok)
    BY <1>12 DEF EndsRead, FailsRead, EndsWrite, FailsWrite, Timeout, Ends
  <2>2. started' = started /\ alive' = alive
    BY <1>12 DEF EndsRead, FailsRead, EndsWrite, FailsWrite, Timeout, Ends
  <2>3. {o} \in SUBSET link.ops
    BY <2>1
  <2>4. Same(link, link', "connect") /\ link'.sock = link.sock /\ link'.ops = link.ops \ {o}
    BY <1>1, <2>1, <2>3, CompleteSame, CompleteParts DEF KindSet
  <2>5. Pending(link')
    BY <1>1, <2>4 DEF Pending
  <2> QED
    BY <2>2, <2>4, <2>5, TriesOn DEF Same
<1>13. CASE Lose
  <2>1. link.sock = "up" /\ link' = [link EXCEPT !.sock = "lost"] /\ started' = started /\ alive' = alive
    BY <1>13 DEF Lose
  <2>2. Same(link, link', "connect")
    BY <1>1, <2>1, SetSock DEF KindSet, Sockets, Closed
  <2>3. link'.ops = link.ops
    <3> DEFINE S == Seq(SUBSET Completion)
    <3>1. link \in [sock : Sockets, ops : SUBSET Op, ready : S]
      BY <1>1 DEF Link
    <3> HIDE DEF S
    <3> QED
      BY <2>1, <3>1
  <2>4. Pending(link')
    BY <1>1, <2>1, <2>3 DEF Pending
  <2> QED
    BY <2>1, <2>2, <2>4, TriesOn DEF Same
<1>14. CASE UNCHANGED vars
  BY <1>4, <1>14 DEF vars
<1> QED
  BY <1>3, <1>7, <1>8, <1>9, <1>10, <1>11, <1>12, <1>13, <1>14 DEF Next

(* With a callback that reconnects there is no state after a loss in which *)
(* nobody tries to connect, and none in which a connect waits for a socket *)
(* that is closed: only a name that is not resolved ends the attempts.     *)
THEOREM NeverGivesUp == Spec => []KeepsTrying
<1>1. Init => KeepsTrying
  BY DEF Init, KeepsTrying
<1>2. IInv /\ KeepsTrying /\ [Next]_vars => KeepsTrying'
  BY NextKeepsTrying
<1> QED
  BY Invariant, <1>1, <1>2, PTL DEF Spec
=============================================================================
