---------------------------- MODULE Stream_proofs ----------------------------
(***************************************************************************)
(* Proofs about the framing of a stream, for any messages, lengths, limits *)
(* and timers.                                                             *)
(***************************************************************************)
EXTENDS Stream, SequenceTheorems, TLAPS

(* The header of a message, as opposed to that of a keepalive.             *)
FrameHead(token) == token[2] = 0 /\ token[1] # 0

(* The stream has the headers of the messages lo .. hi, in this order.     *)
Ordered(w, lo, hi) ==
    /\ \A p \in DOMAIN w : FrameHead(w[p]) => w[p][1] \in lo .. hi
    /\ \A p, q \in DOMAIN w : p < q /\ FrameHead(w[p]) /\ FrameHead(w[q]) => w[p][1] < w[q][1]
    /\ \A id \in lo .. hi : \E p \in DOMAIN w : FrameHead(w[p]) /\ w[p][1] = id

(* Its pieces follow every header without anything in between, ...         *)
Whole(w, s) ==
    \A p \in DOMAIN w : FrameHead(w[p]) =>
        \A j \in 1 .. Pieces(s[w[p][1]]) : p + j \in DOMAIN w /\ w[p + j][2] # 0

(* ... and beyond the first n tokens there are no others.                  *)
Covered(w, s, n) ==
    \A p \in DOMAIN w : w[p][2] # 0 =>
        \/ p <= n
        \/ \E q \in DOMAIN w : q < p /\ FrameHead(w[q]) /\ p <= q + Pieces(s[w[q][1]])

(* The reader has taken this many messages from the stream.                *)
Taken == IF at = "header" THEN Len(dealt) ELSE Len(dealt) + 1

(* None of the first n messages announces more than follows; none of them  *)
(* less, either.                                                           *)
Aligned(n) == \A j \in 1 .. n : j \in DOMAIN sent => Announced(sent[j]) <= Pieces(sent[j])
Exactly(n) == \A j \in 1 .. n : j \in DOMAIN sent => ~Misframed(sent[j])

Awaited == IF at = "body" THEN missing ELSE 0

-----------------------------------------------------------------------------
Tokens ==
    /\ who \in {"session", "client"} /\ Len(sent) <= MaxSent
    /\ at # "header" => /\ message \in 1 .. Len(sent)
                        /\ Len(buf) + Awaited = Announced(sent[message])
    /\ \A p \in DOMAIN wire : FrameHead(wire[p]) => wire[p][1] \in 1 .. Len(sent)

DealtInOrder ==
    \A i \in DOMAIN dealt : (who = "session" \/ Aligned(i - 1)) => dealt[i].head = i

ReadsNext == cut = "no" /\ at # "header" /\ Aligned(Len(dealt)) => message = Len(dealt) + 1

SessionAligned == who = "session" /\ cut = "no" => Aligned(Taken)

Structure ==
    cut = "no" /\ Aligned(Taken) =>
        /\ Taken <= Len(sent)
        /\ Ordered(wire, Taken + 1, Len(sent))
        /\ Whole(wire, sent)
        /\ \A j \in 1 .. Awaited : j \in DOMAIN wire /\ wire[j][2] # 0

Complete == cut = "no" /\ Exactly(Taken) => Covered(wire, sent, Awaited)

IInv ==
    /\ TypeOK
    /\ Tokens
    /\ DealtInOrder
    /\ ReadsNext
    /\ SessionAligned
    /\ Structure
    /\ Complete
    /\ CutForReason

-----------------------------------------------------------------------------
LEMMA Numbers ==
    ASSUME NEW m \in Message
    PROVE  /\ NameLength(m) \in Nat /\ NameLength(m) <= m.name
           /\ BodyLength(m) \in Nat
           /\ Pieces(m) \in Nat /\ Announced(m) \in Nat
<1>1. m.name \in Nat /\ m.body \in Nat /\ m.squeezed \in Nat
  BY DEF Message
<1>2. NameWidth \in Nat \ {0} /\ MaxBody \in Nat
  BY StreamAssumption
<1>3. NameLength(m) \in Nat
  BY <1>1, <1>2 DEF NameLength
<1>4. NameLength(m) <= m.name
  <2>1. m.name < NameWidth => m.name % NameWidth = m.name
    BY <1>1, <1>2
  <2>2. m.name % NameWidth < NameWidth
    BY <1>1, <1>2
  <2> QED
    BY <1>1, <1>2, <1>3, <2>1, <2>2 DEF NameLength
<1>5. BodyLength(m) \in Nat
  BY <1>1, <1>2 DEF BodyLength, Compressed, ErrorCode
<1> QED
  BY <1>1, <1>3, <1>4, <1>5 DEF Pieces, Announced

(* What a session accepts announces no more than follows.                  *)
LEMMA AcceptedFits ==
    ASSUME NEW m \in Message, ~m.exact, BodyLength(m) <= MaxBody
    PROVE  Announced(m) <= Pieces(m)
<1>1. m.name \in Nat /\ m.body \in Nat /\ m.squeezed \in Nat /\ MaxBody \in Nat
  BY StreamAssumption DEF Message
<1>2. NameLength(m) \in Nat /\ NameLength(m) <= m.name /\ BodyLength(m) \in Nat
  BY Numbers
<1>3. BodyLength(m) <= m.body
  BY <1>1 DEF BodyLength, Compressed, ErrorCode
<1>4. Pieces(m) = m.name + m.body
  BY DEF Pieces
<1> QED
  BY <1>1, <1>2, <1>3, <1>4 DEF Announced

LEMMA TailOf ==
    ASSUME NEW S, NEW w \in Seq(S), w # <<>>
    PROVE  /\ Head(w) = w[1] /\ w[1] \in S
           /\ Len(w) \in Nat \ {0} /\ DOMAIN w = 1 .. Len(w)
           /\ Tail(w) \in Seq(S) /\ DOMAIN Tail(w) = 1 .. Len(w) - 1
           /\ \A p \in 1 .. Len(w) - 1 : Tail(w)[p] = w[p + 1]
<1>1. /\ Head(w) \in S /\ Tail(w) \in Seq(S) /\ Len(Tail(w)) = Len(w) - 1
      /\ \A p \in 1 .. Len(Tail(w)) : Tail(w)[p] = w[p + 1]
  BY HeadTailProperties
<1>2. Head(w) = w[1]
  OBVIOUS
<1>3. Len(w) \in Nat \ {0} /\ DOMAIN w = 1 .. Len(w)
  BY EmptySeq, LenProperties
<1>4. DOMAIN Tail(w) = 1 .. Len(w) - 1
  BY <1>1, LenProperties
<1> QED
  BY <1>1, <1>2, <1>3, <1>4

LEMMA AppendTo ==
    ASSUME NEW S, NEW w \in Seq(S), NEW e \in S
    PROVE  /\ Append(w, e) \in Seq(S)
           /\ Len(w) \in Nat /\ DOMAIN w = 1 .. Len(w)
           /\ Len(Append(w, e)) = Len(w) + 1
           /\ DOMAIN Append(w, e) = 1 .. Len(w) + 1
           /\ \A i \in 1 .. Len(w) : Append(w, e)[i] = w[i]
           /\ Append(w, e)[Len(w) + 1] = e
<1>1. /\ Append(w, e) \in Seq(S) /\ Len(Append(w, e)) = Len(w) + 1
      /\ \A i \in 1 .. Len(w) : Append(w, e)[i] = w[i]
      /\ Append(w, e)[Len(w) + 1] = e
  BY AppendProperties
<1>2. Len(w) \in Nat /\ DOMAIN w = 1 .. Len(w) /\ DOMAIN Append(w, e) = 1 .. Len(w) + 1
  BY <1>1, LenProperties
<1> QED
  BY <1>1, <1>2

LEMMA FrameOf ==
    ASSUME NEW m \in Message, NEW id \in 1 .. MaxSent
    PROVE  /\ Frame(id, m) \in Seq(Token)
           /\ Len(Frame(id, m)) = 1 + Pieces(m)
           /\ \A j \in 1 .. 1 + Pieces(m) : Frame(id, m)[j] = <<id, j - 1>>
<1> DEFINE n == 1 + Pieces(m)
<1>1. n \in Nat
  BY Numbers
<1>2. Frame(id, m) \in [1 .. n -> Token]
  BY <1>1, StreamAssumption DEF Frame, Token
<1>3. Frame(id, m) \in Seq(Token)
  <2>1. Seq(Token) = UNION {[1 .. k -> Token] : k \in Nat}
    BY SeqDef
  <2> QED
    BY <1>1, <1>2, <2>1
<1>4. Len(Frame(id, m)) = n
  BY <1>1, <1>2, <1>3, LenProperties
<1> QED
  BY <1>3, <1>4 DEF Frame

-----------------------------------------------------------------------------
(* Reading something that is not the header of a message.                  *)
LEMMA DropOther ==
    ASSUME NEW w \in Seq(Token), w # <<>>, ~FrameHead(w[1]), NEW s,
           NEW lo, NEW hi
    PROVE  /\ Ordered(w, lo, hi) => Ordered(Tail(w), lo, hi)
           /\ Whole(w, s) => Whole(Tail(w), s)
<1> DEFINE v == Tail(w)
<1>1. /\ Len(w) \in Nat \ {0} /\ DOMAIN w = 1 .. Len(w)
      /\ DOMAIN v = 1 .. Len(w) - 1 /\ \A p \in 1 .. Len(w) - 1 : v[p] = w[p + 1]
  BY TailOf
<1> HIDE DEF v
<1>2. \A p \in DOMAIN v : p + 1 \in DOMAIN w /\ v[p] = w[p + 1]
  BY <1>1
<1>3. \A p \in DOMAIN w : FrameHead(w[p]) => p - 1 \in DOMAIN v /\ v[p - 1] = w[p]
  BY <1>1
<1>4. ASSUME Ordered(w, lo, hi)
      PROVE  Ordered(v, lo, hi)
  <2>1. \A p \in DOMAIN v : FrameHead(v[p]) => v[p][1] \in lo .. hi
    BY <1>2, <1>4 DEF Ordered
  <2>2. ASSUME NEW p \in DOMAIN v, NEW q \in DOMAIN v, p < q, FrameHead(v[p]), FrameHead(v[q])
        PROVE  v[p][1] < v[q][1]
    <3>1. p + 1 \in DOMAIN w /\ q + 1 \in DOMAIN w /\ p + 1 < q + 1
      BY <1>1, <2>2
    <3>2. FrameHead(w[p + 1]) /\ FrameHead(w[q + 1])
      BY <1>2, <2>2
    <3>3. w[p + 1][1] < w[q + 1][1]
      BY <1>4, <3>1, <3>2 DEF Ordered
    <3> QED
      BY <1>2, <3>3
  <2>3. \A id \in lo .. hi : \E p \in DOMAIN v : FrameHead(v[p]) /\ v[p][1] = id
    BY <1>3, <1>4 DEF Ordered
  <2> QED
    BY <2>1, <2>2, <2>3 DEF Ordered
<1>5. ASSUME Whole(w, s)
      PROVE  Whole(v, s)
  <2> SUFFICES ASSUME NEW p \in DOMAIN v, FrameHead(v[p]), NEW j \in 1 .. Pieces(s[v[p][1]])
               PROVE  p + j \in DOMAIN v /\ v[p + j][2] # 0
    BY DEF Whole
  <2>1. (p + 1) + j \in DOMAIN w /\ w[(p + 1) + j][2] # 0
    BY <1>2, <1>5 DEF Whole
  <2>2. p + j \in 1 .. Len(w) - 1 /\ v[p + j] = w[(p + 1) + j]
    BY <1>1, <2>1
  <2> QED
    BY <1>1, <2>1, <2>2
<1> QED
  BY <1>4, <1>5 DEF v

LEMMA DropOtherCovered ==
    ASSUME NEW w \in Seq(Token), w # <<>>, ~FrameHead(w[1]), NEW s,
           NEW n \in Nat, NEW k \in Nat, n = 0 \/ k = n - 1, Covered(w, s, n),
           \A p \in DOMAIN w : FrameHead(w[p]) => Pieces(s[w[p][1]]) \in Nat
    PROVE  Covered(Tail(w), s, k)
<1> DEFINE v == Tail(w)
<1>1. /\ Len(w) \in Nat \ {0} /\ DOMAIN w = 1 .. Len(w)
      /\ DOMAIN v = 1 .. Len(w) - 1 /\ \A p \in 1 .. Len(w) - 1 : v[p] = w[p + 1]
  BY TailOf
<1> HIDE DEF v
<1> SUFFICES ASSUME NEW p \in DOMAIN v, v[p][2] # 0, ~(p <= k)
             PROVE  \E q \in DOMAIN v : q < p /\ FrameHead(v[q]) /\ p <= q + Pieces(s[v[q][1]])
  BY DEF Covered, v
<1>2. p + 1 \in DOMAIN w /\ w[p + 1][2] # 0 /\ ~(p + 1 <= n)
  BY <1>1
<1>3. PICK q \in DOMAIN w : q < p + 1 /\ FrameHead(w[q]) /\ p + 1 <= q + Pieces(s[w[q][1]])
  BY <1>2 DEF Covered
<1>4. q # 1 /\ q - 1 \in DOMAIN v /\ v[q - 1] = w[q]
  BY <1>1, <1>3
<1>5. q - 1 < p /\ p <= (q - 1) + Pieces(s[w[q][1]])
  BY <1>1, <1>3
<1> QED
  BY <1>3, <1>4, <1>5

(* Reading the header of a message: it is the next one, and its pieces are *)
(* the first things in the stream now.                                     *)
LEMMA DropHead ==
    ASSUME NEW w \in Seq(Token), w # <<>>, FrameHead(w[1]), NEW s,
           NEW lo \in Nat, NEW hi \in Nat, Ordered(w, lo, hi), Whole(w, s)
    PROVE  /\ w[1][1] = lo
           /\ Ordered(Tail(w), lo + 1, hi)
           /\ Whole(Tail(w), s)
           /\ \A j \in 1 .. Pieces(s[lo]) : j \in DOMAIN Tail(w) /\ Tail(w)[j][2] # 0
<1> DEFINE v == Tail(w)
<1>1. /\ Len(w) \in Nat \ {0} /\ DOMAIN w = 1 .. Len(w)
      /\ DOMAIN v = 1 .. Len(w) - 1 /\ \A p \in 1 .. Len(w) - 1 : v[p] = w[p + 1]
  BY TailOf
<1> HIDE DEF v
<1>2. \A p \in DOMAIN v : p + 1 \in DOMAIN w /\ 1 < p + 1 /\ v[p] = w[p + 1]
  BY <1>1
<1>3. w[1][1] = lo
  <2>1. w[1][1] \in lo .. hi
    BY <1>1 DEF Ordered
  <2>2. PICK p \in DOMAIN w : FrameHead(w[p]) /\ w[p][1] = lo
    BY <2>1 DEF Ordered
  <2>3. CASE p = 1
    BY <2>2, <2>3
  <2>4. CASE p # 1
    <3>1. 1 < p /\ 1 \in DOMAIN w
      BY <1>1, <2>4
    <3>2. w[1][1] < w[p][1]
      BY <2>2, <3>1 DEF Ordered
    <3> QED
      BY <2>1, <2>2, <3>2
  <2> QED
    BY <2>3, <2>4
<1>4. Ordered(v, lo + 1, hi)
  <2>1. ASSUME NEW p \in DOMAIN v, FrameHead(v[p])
        PROVE  v[p][1] \in lo + 1 .. hi
    <3>1. 1 \in DOMAIN w /\ p + 1 \in DOMAIN w /\ 1 < p + 1 /\ FrameHead(w[p + 1])
      BY <1>1, <1>2, <2>1
    <3>2. PICK r : r = p + 1
      OBVIOUS
    <3>3. w[r][1] \in lo .. hi /\ w[1][1] < w[r][1]
      BY <3>1, <3>2 DEF Ordered
    <3>4. v[p] = w[r]
      BY <1>2, <3>2
    <3> QED
      BY <1>3, <3>3, <3>4
  <2>2. ASSUME NEW p \in DOMAIN v, NEW q \in DOMAIN v, p < q, FrameHead(v[p]), FrameHead(v[q])
        PROVE  v[p][1] < v[q][1]
    <3>1. p + 1 \in DOMAIN w /\ q + 1 \in DOMAIN w /\ p + 1 < q + 1
      BY <1>1, <2>2
    <3>2. FrameHead(w[p + 1]) /\ FrameHead(w[q + 1])
      BY <1>2, <2>2
    <3>3. w[p + 1][1] < w[q + 1][1]
      BY <3>1, <3>2 DEF Ordered
    <3> QED
      BY <1>2, <3>3
  <2>3. ASSUME NEW id \in lo + 1 .. hi
        PROVE  \E p \in DOMAIN v : FrameHead(v[p]) /\ v[p][1] = id
    <3>1. PICK p \in DOMAIN w : FrameHead(w[p]) /\ w[p][1] = id
      BY DEF Ordered
    <3>2. p # 1
      BY <1>3, <3>1
    <3>3. p - 1 \in DOMAIN v /\ v[p - 1] = w[p]
      BY <1>1, <3>2
    <3> QED
      BY <3>1, <3>3
  <2> QED
    BY <2>1, <2>2, <2>3 DEF Ordered
<1>5. Whole(v, s)
  <2> SUFFICES ASSUME NEW p \in DOMAIN v, FrameHead(v[p]), NEW j \in 1 .. Pieces(s[v[p][1]])
               PROVE  p + j \in DOMAIN v /\ v[p + j][2] # 0
    BY DEF Whole
  <2>1. (p + 1) + j \in DOMAIN w /\ w[(p + 1) + j][2] # 0
    BY <1>2 DEF Whole
  <2>2. p + j \in 1 .. Len(w) - 1 /\ v[p + j] = w[(p + 1) + j]
    BY <1>1, <2>1
  <2> QED
    BY <1>1, <2>1, <2>2
<1>6. ASSUME NEW j \in 1 .. Pieces(s[lo])
      PROVE  j \in DOMAIN v /\ v[j][2] # 0
  <2>1. 1 + j \in DOMAIN w /\ w[1 + j][2] # 0
    BY <1>1, <1>3 DEF Whole
  <2>2. j \in 1 .. Len(w) - 1 /\ v[j] = w[1 + j]
    BY <1>1, <2>1
  <2> QED
    BY <1>1, <2>1, <2>2
<1> QED
  BY <1>3, <1>4, <1>5, <1>6 DEF v

LEMMA DropHeadCovered ==
    ASSUME NEW w \in Seq(Token), w # <<>>, FrameHead(w[1]), NEW s, Covered(w, s, 0),
           \A p \in DOMAIN w : FrameHead(w[p]) => Pieces(s[w[p][1]]) \in Nat
    PROVE  Covered(Tail(w), s, Pieces(s[w[1][1]]))
<1> DEFINE v == Tail(w)
<1> DEFINE n == Pieces(s[w[1][1]])
<1>1. /\ Len(w) \in Nat \ {0} /\ DOMAIN w = 1 .. Len(w)
      /\ DOMAIN v = 1 .. Len(w) - 1 /\ \A p \in 1 .. Len(w) - 1 : v[p] = w[p + 1]
  BY TailOf
<1>2. n \in Nat
  BY <1>1
<1> HIDE DEF v
<1> SUFFICES ASSUME NEW p \in DOMAIN v, v[p][2] # 0, ~(p <= n)
             PROVE  \E q \in DOMAIN v : q < p /\ FrameHead(v[q]) /\ p <= q + Pieces(s[v[q][1]])
  BY DEF Covered, v
<1>3. p + 1 \in DOMAIN w /\ w[p + 1][2] # 0 /\ ~(p + 1 <= 0)
  BY <1>1
<1>4. PICK q \in DOMAIN w : q < p + 1 /\ FrameHead(w[q]) /\ p + 1 <= q + Pieces(s[w[q][1]])
  BY <1>3 DEF Covered
<1>5. q # 1
  BY <1>1, <1>2, <1>4
<1>6. q - 1 \in DOMAIN v /\ v[q - 1] = w[q]
  BY <1>1, <1>4, <1>5
<1>7. q - 1 < p /\ p <= (q - 1) + Pieces(s[w[q][1]])
  BY <1>1, <1>4
<1> QED
  BY <1>4, <1>6, <1>7

-----------------------------------------------------------------------------
(* Writing a keepalive, and writing the next message.                      *)
LEMMA AddKeepAlived ==
    ASSUME NEW w \in Seq(Token), NEW s, NEW lo, NEW hi
    PROVE  /\ Ordered(w, lo, hi) => Ordered(Append(w, KeepAlived), lo, hi)
           /\ Whole(w, s) => Whole(Append(w, KeepAlived), s)
           /\ \A n : Covered(w, s, n) => Covered(Append(w, KeepAlived), s, n)
<1> DEFINE v == Append(w, KeepAlived)
<1>1. KeepAlived \in Token /\ ~FrameHead(KeepAlived) /\ KeepAlived[2] = 0
  BY StreamAssumption DEF KeepAlived, Token, FrameHead
<1>2. /\ Len(w) \in Nat /\ DOMAIN w = 1 .. Len(w) /\ DOMAIN v = 1 .. Len(w) + 1
      /\ \A i \in 1 .. Len(w) : v[i] = w[i]
      /\ v[Len(w) + 1] = KeepAlived
  BY <1>1, AppendTo
<1> HIDE DEF v
<1>3. \A p \in DOMAIN w : p \in DOMAIN v /\ v[p] = w[p]
  BY <1>2
<1>4. \A p \in DOMAIN v : FrameHead(v[p]) \/ v[p][2] # 0 => p \in DOMAIN w
  BY <1>1, <1>2
<1>5. Ordered(w, lo, hi) => Ordered(v, lo, hi)
  BY <1>3, <1>4 DEF Ordered
<1>6. Whole(w, s) => Whole(v, s)
  BY <1>3, <1>4 DEF Whole
<1>7. \A n : Covered(w, s, n) => Covered(v, s, n)
  BY <1>3, <1>4 DEF Covered
<1> QED
  BY <1>5, <1>6, <1>7 DEF v

LEMMA AddFrame ==
    ASSUME NEW w \in Seq(Token), NEW s \in Seq(Message), NEW m \in Message,
           Len(s) < MaxSent, NEW lo \in Nat, lo <= Len(s) + 1,
           \A p \in DOMAIN w : FrameHead(w[p]) => w[p][1] \in 1 .. Len(s)
    PROVE  LET v == w \o Frame(Len(s) + 1, m)
           IN  /\ v \in Seq(Token)
               /\ \A p \in DOMAIN w : p \in DOMAIN v /\ v[p] = w[p]
               /\ \A p \in DOMAIN v : FrameHead(v[p]) => v[p][1] \in 1 .. Len(s) + 1
               /\ Ordered(w, lo, Len(s)) => Ordered(v, lo, Len(s) + 1)
               /\ Whole(w, s) => Whole(v, Append(s, m))
               /\ \A n : Covered(w, s, n) => Covered(v, Append(s, m), n)
<1> DEFINE id == Len(s) + 1
<1> DEFINE f == Frame(id, m)
<1> DEFINE v == w \o f
<1> DEFINE t == Append(s, m)
<1>1. /\ Len(s) \in Nat /\ id \in 1 .. MaxSent /\ id # 0
      /\ t[id] = m /\ \A i \in 1 .. Len(s) : t[i] = s[i]
  BY AppendTo, StreamAssumption
<1>2. /\ f \in Seq(Token) /\ Len(f) = 1 + Pieces(m)
      /\ \A j \in 1 .. 1 + Pieces(m) : f[j] = <<id, j - 1>>
  BY <1>1, FrameOf
<1> DEFINE k == Len(w)
<1> DEFINE n == Pieces(m)
<1>3. n \in Nat
  BY Numbers
<1>4. /\ v \in Seq(Token) /\ Len(v) = k + (1 + n) /\ k \in Nat /\ DOMAIN w = 1 .. k
      /\ \A i \in 1 .. k + (1 + n) : v[i] = IF i <= k THEN w[i] ELSE f[i - k]
  BY <1>2, ConcatProperties, LenProperties, ZenonT(60)
<1>5. DOMAIN v = 1 .. k + 1 + n
  BY <1>3, <1>4, LenProperties
<1> HIDE DEF id, f, v, t, k, n
<1>6. \A p \in DOMAIN w : p \in DOMAIN v /\ v[p] = w[p]
  BY <1>3, <1>4, <1>5
<1>7. \A j \in 0 .. n : k + 1 + j \in DOMAIN v /\ v[k + 1 + j] = <<id, j>>
  <2> SUFFICES ASSUME NEW j \in 0 .. n
               PROVE  k + 1 + j \in DOMAIN v /\ v[k + 1 + j] = <<id, j>>
    OBVIOUS
  <2>1. k + 1 + j \in 1 .. k + (1 + n) /\ ~(k + 1 + j <= k) /\ (k + 1 + j) - k = j + 1
    BY <1>3, <1>4
  <2>2. v[k + 1 + j] = f[j + 1]
    BY <1>4, <2>1
  <2>3. j + 1 \in 1 .. 1 + n /\ (j + 1) - 1 = j
    BY <1>3
  <2>4. f[j + 1] = <<id, j>>
    BY <1>2, <2>3 DEF n
  <2>5. k + 1 + j \in DOMAIN v
    BY <1>3, <1>4, <1>5
  <2> QED
    BY <2>2, <2>4, <2>5
<1>8. \A p \in DOMAIN v : p \in DOMAIN w \/ \E j \in 0 .. n : p = k + 1 + j
  <2> SUFFICES ASSUME NEW p \in DOMAIN v, p \notin DOMAIN w
               PROVE  p = k + 1 + (p - k - 1) /\ p - k - 1 \in 0 .. n
    OBVIOUS
  <2> QED
    BY <1>3, <1>4, <1>5
<1>9. k + 1 \in DOMAIN v /\ v[k + 1] = <<id, 0>> /\ FrameHead(v[k + 1]) /\ k + 1 \notin DOMAIN w
  <2>1. 0 \in 0 .. n /\ k + 1 + 0 = k + 1
    BY <1>3, <1>4
  <2> QED
    BY <1>1, <1>4, <1>7, <2>1 DEF FrameHead
<1>10. \A p \in DOMAIN v : FrameHead(v[p]) => p \in DOMAIN w \/ p = k + 1
  <2> SUFFICES ASSUME NEW p \in DOMAIN v, FrameHead(v[p]), p \notin DOMAIN w
               PROVE  p = k + 1
    OBVIOUS
  <2>1. PICK j \in 0 .. n : p = k + 1 + j
    BY <1>8
  <2>2. v[p] = <<id, j>>
    BY <1>7, <2>1
  <2>3. j = 0
    BY <2>2 DEF FrameHead
  <2> QED
    BY <1>4, <2>1, <2>3
<1>11. \A p \in DOMAIN v : FrameHead(v[p]) => v[p][1] \in 1 .. id
  BY <1>1, <1>6, <1>9, <1>10 DEF id
<1>12. ASSUME Ordered(w, lo, Len(s))
       PROVE  Ordered(v, lo, id)
  <2>1. ASSUME NEW p \in DOMAIN v, FrameHead(v[p])
        PROVE  v[p][1] \in lo .. id
    <3>1. CASE p \in DOMAIN w
      BY <1>1, <1>6, <1>12, <2>1, <3>1 DEF Ordered, id
    <3>2. CASE p = k + 1
      BY <1>1, <1>9, <3>2 DEF id
    <3> QED
      BY <1>10, <2>1, <3>1, <3>2
  <2>2. ASSUME NEW p \in DOMAIN v, NEW q \in DOMAIN v, p < q, FrameHead(v[p]), FrameHead(v[q])
        PROVE  v[p][1] < v[q][1]
    <3>1. p \in DOMAIN w
      BY <1>4, <1>5, <1>10, <2>2, SMTT(30)
    <3>2. CASE q \in DOMAIN w
      BY <1>6, <1>12, <2>2, <3>1, <3>2 DEF Ordered
    <3>3. CASE q = k + 1
      <4>1. v[p][1] \in lo .. Len(s)
        BY <1>6, <1>12, <2>2, <3>1 DEF Ordered
      <4>2. v[q][1] = id
        BY <1>9, <3>3
      <4> QED
        BY <1>1, <4>1, <4>2 DEF id
    <3> QED
      BY <1>10, <2>2, <3>2, <3>3
  <2>3. ASSUME NEW i \in lo .. id
        PROVE  \E p \in DOMAIN v : FrameHead(v[p]) /\ v[p][1] = i
    <3>1. CASE i = id
      <4>1. v[k + 1][1] = id
        BY <1>9
      <4> QED
        BY <1>9, <3>1, <4>1
    <3>2. CASE i # id
      <4>1. i \in lo .. Len(s)
        BY <1>1, <3>2 DEF id
      <4> QED
        BY <1>6, <1>12, <4>1 DEF Ordered
    <3> QED
      BY <3>1, <3>2
  <2> QED
    BY <2>1, <2>2, <2>3 DEF Ordered
<1>13. \A p \in DOMAIN w : FrameHead(w[p]) => t[w[p][1]] = s[w[p][1]]
  BY <1>1
<1>14. ASSUME Whole(w, s)
       PROVE  Whole(v, t)
  <2> SUFFICES ASSUME NEW p \in DOMAIN v, FrameHead(v[p]), NEW j \in 1 .. Pieces(t[v[p][1]])
               PROVE  p + j \in DOMAIN v /\ v[p + j][2] # 0
    BY DEF Whole
  <2>1. CASE p \in DOMAIN w
    <3>1. v[p] = w[p] /\ j \in 1 .. Pieces(s[w[p][1]])
      BY <1>6, <1>13, <2>1
    <3>2. p + j \in DOMAIN w /\ w[p + j][2] # 0
      BY <1>14, <2>1, <3>1 DEF Whole
    <3> QED
      BY <1>6, <3>2
  <2>2. CASE p = k + 1
    <3>1. j \in 0 .. n /\ j # 0
      BY <1>1, <1>3, <1>9, <2>2 DEF n
    <3> QED
      BY <1>7, <2>2, <3>1
  <2> QED
    BY <1>10, <2>1, <2>2
<1>15. ASSUME NEW h, Covered(w, s, h)
       PROVE  Covered(v, t, h)
  <2> SUFFICES ASSUME NEW p \in DOMAIN v, v[p][2] # 0, ~(p <= h)
               PROVE  \E q \in DOMAIN v : q < p /\ FrameHead(v[q]) /\ p <= q + Pieces(t[v[q][1]])
    BY DEF Covered
  <2>1. CASE p \in DOMAIN w
    <3>1. PICK q \in DOMAIN w : q < p /\ FrameHead(w[q]) /\ p <= q + Pieces(s[w[q][1]])
      BY <1>6, <1>15, <2>1 DEF Covered
    <3> QED
      BY <1>6, <1>13, <3>1
  <2>2. CASE p \notin DOMAIN w
    <3>1. PICK j \in 0 .. n : p = k + 1 + j
      BY <1>8, <2>2
    <3>2. v[p] = <<id, j>>
      BY <1>7, <3>1
    <3>3. k + 1 < p /\ p <= k + 1 + n
      BY <1>3, <1>4, <3>1, <3>2
    <3>4. Pieces(t[v[k + 1][1]]) = n
      BY <1>1, <1>9 DEF n
    <3> QED
      BY <1>9, <3>3, <3>4
  <2> QED
    BY <2>1, <2>2
<1> QED
  BY <1>4, <1>6, <1>11, <1>12, <1>14, <1>15 DEF id, f, v, t

-----------------------------------------------------------------------------
LEMMA Typing ==
    ASSUME TypeOK, Tokens
    PROVE  /\ wire \in Seq(Token) /\ sent \in Seq(Message)
           /\ Len(sent) \in Nat /\ DOMAIN sent = 1 .. Len(sent)
           /\ \A i \in 1 .. Len(sent) : sent[i] \in Message /\ sent[i] \in Messages[who]
           /\ Len(dealt) \in Nat /\ DOMAIN dealt = 1 .. Len(dealt)
           /\ Taken \in Nat /\ Awaited \in Nat
           /\ \A p \in DOMAIN wire : FrameHead(wire[p]) => Pieces(sent[wire[p][1]]) \in Nat
<1>1. wire \in Seq(Token)
  BY DEF TypeOK
<1>2. Messages[who] \subseteq Message
  BY StreamAssumption DEF Tokens
<1>3. sent \in Seq(Messages[who])
  BY DEF TypeOK
<1>4. sent \in Seq(Message)
  BY <1>2, <1>3, SeqMonotonic
<1>5. Len(sent) \in Nat /\ DOMAIN sent = 1 .. Len(sent)
  BY <1>3, LenProperties
<1>6. \A i \in 1 .. Len(sent) : sent[i] \in Message /\ sent[i] \in Messages[who]
  BY <1>2, <1>3, ElementOfSeq
<1>7. dealt \in Seq(Dealt)
  BY DEF TypeOK
<1>8. Len(dealt) \in Nat /\ DOMAIN dealt = 1 .. Len(dealt)
  BY <1>7, LenProperties
<1>9. Taken \in Nat /\ Awaited \in Nat
  BY <1>8 DEF Taken, Awaited, TypeOK
<1>10. \A p \in DOMAIN wire : FrameHead(wire[p]) => Pieces(sent[wire[p][1]]) \in Nat
  BY <1>6, Numbers DEF Tokens
<1> QED
  BY <1>1, <1>4, <1>5, <1>6, <1>8, <1>9, <1>10

LEMMA InitIInv == Init => IInv
<1> SUFFICES ASSUME Init
             PROVE  IInv
  OBVIOUS
<1> USE DEF Init
<1>1. Len(sent) = 0 /\ DOMAIN sent = {} /\ DOMAIN wire = {} /\ DOMAIN dealt = {} /\ Len(dealt) = 0
  BY DEF Init
<1>2. \A S : <<>> \in Seq(S)
  BY EmptySeq
<1>3. TypeOK
  <2>1. {Quiet, Half} \subseteq Nat \ {0} /\ Delay \in Nat
    BY StreamAssumption
  <2>2. kick \in 0 .. Quiet /\ sleep \in 0 .. Half /\ idle \in 0 .. Delay
    BY <2>1
  <2>3. sent \in Seq(Messages[who]) /\ wire \in Seq(Token) /\ buf \in Seq(Token) /\ dealt \in Seq(Dealt)
    BY <1>2
  <2>4. message \in 0 .. Len(sent) /\ missing \in Nat
    BY <1>1
  <2> QED
    BY <2>2, <2>3, <2>4 DEF TypeOK
<1>4. Tokens
  BY <1>1, StreamAssumption DEF Tokens
<1>5. DealtInOrder /\ ReadsNext /\ CutForReason
  BY <1>1 DEF DealtInOrder, ReadsNext, CutForReason
<1>6. Taken = 0 /\ Awaited = 0
  BY <1>1 DEF Taken, Awaited
<1>7. SessionAligned
  BY <1>1 DEF SessionAligned, Aligned
<1>8. Structure
  <2>1. 1 .. 0 = {} /\ (0 + 1) .. 0 = {}
    OBVIOUS
  <2> QED
    BY <1>1, <1>6, <2>1 DEF Structure, Ordered, Whole
<1>9. Complete
  BY <1>1 DEF Complete, Covered
<1> QED
  BY <1>3, <1>4, <1>5, <1>7, <1>8, <1>9 DEF IInv

-----------------------------------------------------------------------------
LEMMA WriteKeeps ==
    ASSUME IInv, WriteMessage
    PROVE  IInv'
<1>1. PICK m \in Messages[who] :
          /\ sent' = Append(sent, m)
          /\ wire' = wire \o Frame(Len(sent) + 1, m)
  BY DEF WriteMessage
<1>2. /\ cut = "no" /\ Len(sent) < MaxSent /\ cut' = cut /\ who' = who /\ dealt' = dealt
      /\ at' = at /\ message' = message /\ missing' = missing /\ buf' = buf
      /\ kick' = kick /\ alive' = alive /\ half' = half /\ sleep' = sleep
      /\ idle' = IF CanGoOn THEN idle ELSE 0
  BY DEF WriteMessage, reading, keeping
<1>3. TypeOK /\ Tokens /\ Messages[who] \subseteq Message
  BY StreamAssumption DEF IInv, Tokens
<1>4. /\ wire \in Seq(Token) /\ sent \in Seq(Message)
      /\ Len(sent) \in Nat /\ DOMAIN sent = 1 .. Len(sent)
      /\ Len(dealt) \in Nat /\ DOMAIN dealt = 1 .. Len(dealt)
      /\ Taken \in Nat /\ Awaited \in Nat
  BY <1>3, Typing
<1>5. m \in Message
  BY <1>3
<1>6. /\ sent' \in Seq(Messages[who]) /\ Len(sent') = Len(sent) + 1
      /\ DOMAIN sent' = 1 .. Len(sent) + 1
      /\ \A i \in 1 .. Len(sent) : sent'[i] = sent[i]
  <2>1. sent \in Seq(Messages[who])
    BY <1>3 DEF TypeOK
  <2> QED
    BY <1>1, <2>1, AppendTo
<1>7. \A p \in DOMAIN wire : FrameHead(wire[p]) => wire[p][1] \in 1 .. Len(sent)
  BY <1>3 DEF Tokens
<1> DEFINE v == wire \o Frame(Len(sent) + 1, m)
<1> DEFINE t == Append(sent, m)
<1>8. \A lo \in Nat : lo <= Len(sent) + 1 =>
          /\ v \in Seq(Token)
          /\ \A p \in DOMAIN wire : p \in DOMAIN v /\ v[p] = wire[p]
          /\ \A p \in DOMAIN v : FrameHead(v[p]) => v[p][1] \in 1 .. Len(sent) + 1
          /\ Ordered(wire, lo, Len(sent)) => Ordered(v, lo, Len(sent) + 1)
          /\ Whole(wire, sent) => Whole(v, t)
          /\ \A n : Covered(wire, sent, n) => Covered(v, t, n)
  BY <1>2, <1>4, <1>5, <1>7, AddFrame
<1>9. /\ v \in Seq(Token)
      /\ \A p \in DOMAIN wire : p \in DOMAIN v /\ v[p] = wire[p]
      /\ \A p \in DOMAIN v : FrameHead(v[p]) => v[p][1] \in 1 .. Len(sent) + 1
      /\ Whole(wire, sent) => Whole(v, t)
      /\ \A n : Covered(wire, sent, n) => Covered(v, t, n)
  <2>1. 0 \in Nat /\ 0 <= Len(sent) + 1
    BY <1>4
  <2> QED
    BY <1>8, <2>1
<1>10. wire' = v /\ sent' = t
  BY <1>1
<1> HIDE DEF v, t
<1>11. TypeOK'
  <2>1. message \in 0 .. Len(sent')
    BY <1>3, <1>4, <1>6 DEF TypeOK
  <2>2. idle' \in 0 .. Delay
    BY <1>2, <1>3, StreamAssumption DEF TypeOK
  <2>3. wire' \in Seq(Token)
    BY <1>9, <1>10
  <2> QED
    BY <1>2, <1>3, <1>6, <2>1, <2>2, <2>3 DEF TypeOK
<1>12. Tokens'
  <2>1. Len(sent') <= MaxSent
    BY <1>2, <1>4, <1>6, StreamAssumption
  <2>2. at # "header" => /\ message \in 1 .. Len(sent')
                         /\ Len(buf) + Awaited = Announced(sent'[message])
    BY <1>3, <1>4, <1>6 DEF Tokens
  <2>3. \A p \in DOMAIN wire' : FrameHead(wire'[p]) => wire'[p][1] \in 1 .. Len(sent')
    BY <1>6, <1>9, <1>10
  <2>4. Awaited' = Awaited
    BY <1>2 DEF Awaited
  <2> QED
    BY <1>2, <1>3, <2>1, <2>2, <2>3, <2>4 DEF Tokens
<1>13. \A n : Aligned(n)' => Aligned(n)
  BY <1>4, <1>6 DEF Aligned
<1>14. \A n : Exactly(n)' => Exactly(n)
  BY <1>4, <1>6 DEF Exactly
<1>15. \A n \in 0 .. Len(sent) : Aligned(n) => Aligned(n)'
  BY <1>4, <1>6 DEF Aligned
<1>16. Taken' = Taken /\ Awaited' = Awaited
  BY <1>2 DEF Taken, Awaited
<1>17. Aligned(Taken)' => Aligned(Taken)
  BY <1>13, <1>16 DEF Aligned
<1>18. Exactly(Taken)' => Exactly(Taken)
  BY <1>14, <1>16 DEF Exactly
<1>19. DealtInOrder'
  <2> SUFFICES ASSUME NEW i \in DOMAIN dealt, who = "session" \/ Aligned(i - 1)'
               PROVE  dealt[i].head = i
    BY <1>2 DEF DealtInOrder, Aligned
  <2>1. who = "session" \/ Aligned(i - 1)
    BY <1>13
  <2> QED
    BY <2>1 DEF IInv, DealtInOrder
<1>20. ReadsNext'
  <2>1. Aligned(Len(dealt))' => Aligned(Len(dealt))
    BY <1>2, <1>13 DEF Aligned
  <2> QED
    BY <1>2, <2>1 DEF IInv, ReadsNext
<1>21. SessionAligned'
  <2> SUFFICES ASSUME who = "session"
               PROVE  Aligned(Taken)'
    BY <1>2 DEF SessionAligned
  <2>1. Aligned(Taken) /\ Taken <= Len(sent)
    BY <1>2 DEF IInv, SessionAligned, Structure
  <2>2. Taken \in 0 .. Len(sent)
    BY <1>4, <2>1
  <2> QED
    BY <1>4, <1>6, <1>16, <2>1, <2>2 DEF Aligned
<1>22. Structure'
  <2> SUFFICES ASSUME Aligned(Taken)'
               PROVE  /\ Taken <= Len(sent')
                      /\ Ordered(wire', Taken + 1, Len(sent'))
                      /\ Whole(wire', sent')
                      /\ \A j \in 1 .. Awaited : j \in DOMAIN wire' /\ wire'[j][2] # 0
    BY <1>16 DEF Structure
  <2>1. /\ Taken <= Len(sent)
        /\ Ordered(wire, Taken + 1, Len(sent))
        /\ Whole(wire, sent)
        /\ \A j \in 1 .. Awaited : j \in DOMAIN wire /\ wire[j][2] # 0
    BY <1>2, <1>17 DEF IInv, Structure
  <2>2. Taken + 1 \in Nat /\ Taken + 1 <= Len(sent) + 1 /\ Taken <= Len(sent')
    BY <1>4, <1>6, <2>1
  <2>3. Ordered(wire', Taken + 1, Len(sent'))
    BY <1>6, <1>8, <1>10, <2>1, <2>2
  <2> QED
    BY <1>9, <1>10, <2>1, <2>2, <2>3
<1>23. Complete'
  <2>1. Exactly(Taken)' => Covered(wire', sent', Awaited)
    BY <1>2, <1>9, <1>10, <1>18 DEF IInv, Complete
  <2> QED
    BY <1>16, <2>1 DEF Complete
<1>24. CutForReason'
  BY <1>2 DEF CutForReason
<1> QED
  BY <1>11, <1>12, <1>19, <1>20, <1>21, <1>22, <1>23, <1>24 DEF IInv

-----------------------------------------------------------------------------
(* What the reader does not do: connecting, keepalives, time.              *)
LEMMA OthersKeep ==
    ASSUME IInv, Connected \/ KeepAlive \/ Tick
    PROVE  IInv'
<1>1. /\ cut' = cut /\ who' = who /\ sent' = sent /\ dealt' = dealt
      /\ at' = at /\ message' = message /\ missing' = missing /\ buf' = buf
      /\ wire' = wire \/ wire' = Append(wire, KeepAlived)
  BY DEF Connected, KeepAlive, Tick, reading
<1>2. TypeOK /\ Tokens
  BY DEF IInv
<1>3. kick' \in 0 .. Quiet /\ sleep' \in 0 .. Half /\ idle' \in 0 .. Delay
  <2>1. Delay \in Nat /\ Half \in Nat /\ Quiet \in Nat
    BY StreamAssumption
  <2>2. CASE Connected
    BY <1>2, <2>2 DEF Connected, TypeOK
  <2>3. CASE KeepAlive
    BY <1>2, <2>1, <2>3 DEF KeepAlive, TypeOK
  <2>4. CASE Tick
    BY <1>2, <2>1, <2>4 DEF Tick, TypeOK
  <2> QED
    BY <2>2, <2>3, <2>4
<1>4. alive' \in BOOLEAN /\ half' \in {1, 2}
  BY <1>2 DEF Connected, KeepAlive, Tick, TypeOK
<1>5. wire \in Seq(Token) /\ KeepAlived \in Token /\ ~FrameHead(KeepAlived)
  BY <1>2, StreamAssumption, Typing DEF KeepAlived, Token, FrameHead
<1>6. /\ wire' \in Seq(Token)
      /\ \A p \in DOMAIN wire : p \in DOMAIN wire' /\ wire'[p] = wire[p]
      /\ \A p \in DOMAIN wire' : FrameHead(wire'[p]) => p \in DOMAIN wire
  <2>1. CASE wire' = wire
    BY <1>5, <2>1
  <2>2. CASE wire' = Append(wire, KeepAlived)
    <3>1. /\ wire' \in Seq(Token) /\ Len(wire) \in Nat
          /\ DOMAIN wire = 1 .. Len(wire) /\ DOMAIN wire' = 1 .. Len(wire) + 1
          /\ \A i \in 1 .. Len(wire) : wire'[i] = wire[i]
          /\ wire'[Len(wire) + 1] = KeepAlived
      BY <1>5, <2>2, AppendTo
    <3> QED
      BY <1>5, <3>1
  <2> QED
    BY <1>1, <2>1, <2>2
<1>7. /\ \A lo, hi : Ordered(wire, lo, hi) => Ordered(wire', lo, hi)
      /\ Whole(wire, sent) => Whole(wire', sent)
      /\ \A n : Covered(wire, sent, n) => Covered(wire', sent, n)
  BY <1>1, <1>5, AddKeepAlived
<1>8. TypeOK'
  BY <1>1, <1>2, <1>3, <1>4, <1>6 DEF TypeOK
<1>9. Tokens'
  BY <1>1, <1>2, <1>6 DEF Tokens, Awaited
<1>10. Taken' = Taken /\ Awaited' = Awaited
  BY <1>1 DEF Taken, Awaited
<1>11. (Aligned(Taken)' <=> Aligned(Taken)) /\ (Exactly(Taken)' <=> Exactly(Taken))
  BY <1>1, <1>10 DEF Aligned, Exactly
<1>12. DealtInOrder' /\ ReadsNext' /\ CutForReason'
  BY <1>1 DEF IInv, DealtInOrder, ReadsNext, CutForReason, Aligned
<1>13. SessionAligned'
  BY <1>1, <1>11 DEF IInv, SessionAligned
<1>14. Structure'
  BY <1>1, <1>6, <1>7, <1>10, <1>11 DEF IInv, Structure
<1>15. Complete'
  BY <1>1, <1>7, <1>10, <1>11 DEF IInv, Complete
<1> QED
  BY <1>1, <1>8, <1>9, <1>12, <1>13, <1>14, <1>15 DEF IInv

LEMMA KickKeeps ==
    ASSUME IInv, Kick
    PROVE  IInv'
<1>1. /\ cut' = "quiet" /\ who' = who /\ sent' = sent /\ dealt' = dealt /\ wire' = wire
      /\ at' = at /\ message' = message /\ missing' = missing /\ buf' = buf
      /\ kick' = kick /\ idle' = idle /\ alive' = alive /\ half' = half /\ sleep' = sleep
  BY DEF Kick, reading, keeping
<1>2. TypeOK' /\ Tokens'
  BY <1>1 DEF IInv, TypeOK, Tokens, Awaited
<1>3. DealtInOrder'
  BY <1>1 DEF IInv, DealtInOrder, Aligned
<1>4. ReadsNext' /\ SessionAligned' /\ Structure' /\ Complete' /\ CutForReason'
  BY <1>1 DEF ReadsNext, SessionAligned, Structure, Complete, CutForReason
<1> QED
  BY <1>2, <1>3, <1>4 DEF IInv

(* What deal() takes from the buffer once all of a message is in it.       *)
Taking == [head |-> message,
           name |-> NameIn(buf, sent[message]),
           body |-> BodyIn(buf, sent[message])]

LEMMA TakingOf ==
    ASSUME TypeOK, Tokens, at = "deal"
    PROVE  LET m == sent[message]
           IN  /\ Taking \in Dealt /\ Taking.head = message
               /\ m \in Message /\ NameLength(m) \in Nat /\ BodyLength(m) \in Nat
               /\ Len(buf) = NameLength(m) + BodyLength(m)
               /\ Len(Taking.name) = NameLength(m) /\ Len(Taking.body) = BodyLength(m)
               /\ \A j \in 1 .. NameLength(m) : Taking.name[j] = buf[j]
               /\ \A j \in 1 .. BodyLength(m) : Taking.body[j] = buf[NameLength(m) + j]
<1> DEFINE m == sent[message]
<1> DEFINE k == NameLength(m)
<1> DEFINE l == BodyLength(m)
<1>1. message \in 1 .. Len(sent) /\ message \in 1 .. MaxSent /\ buf \in Seq(Token)
  BY Typing, StreamAssumption, SMTT(30) DEF Tokens, TypeOK
<1>2. m \in Message
  BY <1>1, Typing
<1>3. k \in Nat /\ l \in Nat
  BY <1>2, Numbers
<1>4. Len(buf) \in Nat /\ Len(buf) = k + l
  <2>1. Len(buf) \in Nat /\ Len(buf) + 0 = k + l
    BY <1>1, LenProperties DEF Tokens, Awaited, Announced
  <2> QED
    BY <2>1
<1>5. Taking = [head |-> message, name |-> SubSeq(buf, 1, k), body |-> SubSeq(buf, k + 1, k + l)]
  BY DEF Taking, NameIn, BodyIn, Announced
<1> HIDE DEF m, k, l
<1>6. /\ SubSeq(buf, 1, k) \in Seq(Token) /\ Len(SubSeq(buf, 1, k)) = k
      /\ \A j \in 1 .. k : SubSeq(buf, 1, k)[j] = buf[j]
  <2>1. 1 \in 1 .. Len(buf) + 1 /\ k \in 1 - 1 .. Len(buf)
    BY <1>3, <1>4
  <2>2. /\ SubSeq(buf, 1, k) \in Seq(Token) /\ Len(SubSeq(buf, 1, k)) = k - 1 + 1
        /\ \A j \in 1 .. k - 1 + 1 : SubSeq(buf, 1, k)[j] = buf[1 + j - 1]
    BY <1>1, <2>1, SubSeqProperties
  <2> QED
    BY <1>3, <2>2
<1>7. /\ SubSeq(buf, k + 1, k + l) \in Seq(Token) /\ Len(SubSeq(buf, k + 1, k + l)) = l
      /\ \A j \in 1 .. l : SubSeq(buf, k + 1, k + l)[j] = buf[k + j]
  <2>1. k + 1 \in 1 .. Len(buf) + 1 /\ k + l \in (k + 1) - 1 .. Len(buf)
    BY <1>3, <1>4
  <2>2. /\ SubSeq(buf, k + 1, k + l) \in Seq(Token)
        /\ Len(SubSeq(buf, k + 1, k + l)) = (k + l) - (k + 1) + 1
        /\ \A j \in 1 .. (k + l) - (k + 1) + 1 :
               SubSeq(buf, k + 1, k + l)[j] = buf[(k + 1) + j - 1]
    BY <1>1, <2>1, SubSeqProperties
  <2> QED
    BY <1>3, <2>2
<1> QED
  BY <1>1, <1>2, <1>3, <1>4, <1>5, <1>6, <1>7 DEF m, k, l, Dealt

LEMMA DealKeeps ==
    ASSUME IInv, Deal
    PROVE  IInv'
<1>1. /\ cut = "no" /\ at = "deal" /\ cut' = cut /\ who' = who /\ sent' = sent /\ wire' = wire
      /\ at' = "header" /\ message' = message /\ missing' = missing /\ buf' = buf
      /\ dealt' = Append(dealt, Taking)
      /\ kick' = Quiet /\ idle' = 0 /\ alive' = alive /\ half' = half /\ sleep' = sleep
  BY DEF Deal, Taking, Restarted, keeping
<1>2. TypeOK /\ Tokens
  BY DEF IInv
<1>3. /\ Len(sent) \in Nat /\ Len(sent) <= MaxSent /\ message \in 1 .. Len(sent)
      /\ Len(dealt) \in Nat /\ DOMAIN dealt = 1 .. Len(dealt)
  BY <1>1, <1>2, Typing DEF Tokens
<1>4. /\ dealt' \in Seq(Dealt) /\ DOMAIN dealt' = 1 .. Len(dealt) + 1
      /\ Len(dealt') = Len(dealt) + 1
      /\ \A i \in 1 .. Len(dealt) : dealt'[i] = dealt[i]
      /\ dealt'[Len(dealt) + 1].head = message
  <2>1. dealt \in Seq(Dealt) /\ Taking \in Dealt /\ Taking.head = message
    BY <1>1, <1>2, TakingOf DEF TypeOK
  <2> QED
    BY <1>1, <2>1, AppendTo
<1>5. TypeOK'
  <2>1. kick' \in 0 .. Quiet /\ idle' \in 0 .. Delay
    BY <1>1, StreamAssumption
  <2> QED
    BY <1>1, <1>2, <1>4, <2>1 DEF TypeOK
<1>6. Tokens'
  BY <1>1, <1>2 DEF Tokens
<1>7. Taken' = Taken /\ Awaited' = Awaited /\ Taken = Len(dealt) + 1
  BY <1>1, <1>4 DEF Taken, Awaited
<1>8. (Aligned(Taken)' <=> Aligned(Taken)) /\ (Exactly(Taken)' <=> Exactly(Taken))
  BY <1>1, <1>7 DEF Aligned, Exactly
<1>9. \A n : Aligned(n)' <=> Aligned(n)
  BY <1>1 DEF Aligned
<1>10. DealtInOrder'
  <2> SUFFICES ASSUME NEW i \in DOMAIN dealt', who = "session" \/ Aligned(i - 1)
               PROVE  dealt'[i].head = i
    BY <1>1, <1>9 DEF DealtInOrder
  <2>1. CASE i \in 1 .. Len(dealt)
    BY <1>3, <1>4, <2>1 DEF IInv, DealtInOrder
  <2>2. CASE i = Len(dealt) + 1
    <3>1. who = "session" => Aligned(Len(dealt) + 1)
      BY <1>1, <1>7 DEF IInv, SessionAligned
    <3>2. Aligned(Len(dealt) + 1) => Aligned(Len(dealt))
      BY <1>3 DEF Aligned
    <3>3. i - 1 = Len(dealt)
      BY <1>3, <2>2
    <3>4. message = Len(dealt) + 1
      BY <1>1, <3>1, <3>2, <3>3 DEF IInv, ReadsNext
    <3> QED
      BY <1>4, <2>2, <3>4
  <2> QED
    BY <1>3, <1>4, <2>1, <2>2
<1>11. ReadsNext' /\ CutForReason'
  BY <1>1 DEF ReadsNext, CutForReason
<1>12. SessionAligned'
  BY <1>1, <1>8 DEF IInv, SessionAligned
<1>13. Structure'
  BY <1>1, <1>7, <1>8 DEF IInv, Structure
<1>14. Complete'
  BY <1>1, <1>7, <1>8 DEF IInv, Complete
<1> QED
  BY <1>5, <1>6, <1>10, <1>11, <1>12, <1>13, <1>14 DEF IInv

LEMMA ExactlyAligned ==
    ASSUME TypeOK, Tokens, NEW n, Exactly(n)
    PROVE  Aligned(n)
<1>1. \A j \in DOMAIN sent : sent[j] \in Message
  BY Typing
<1>2. \A j \in DOMAIN sent : Announced(sent[j]) \in Nat /\ Pieces(sent[j]) \in Nat
  BY <1>1, Numbers
<1> QED
  BY <1>2 DEF Exactly, Aligned, Misframed

LEMMA ReadPieceKeeps ==
    ASSUME IInv, ReadPiece
    PROVE  IInv'
<1>1. /\ cut = "no" /\ at = "body" /\ wire # <<>>
      /\ cut' = cut /\ who' = who /\ sent' = sent /\ dealt' = dealt /\ message' = message
      /\ missing' = missing - 1 /\ at' = (IF missing = 1 THEN "deal" ELSE "body")
      /\ wire' = Tail(wire) /\ buf' = Append(buf, Head(wire)) /\ idle' = 0
      /\ kick' = kick /\ alive' = alive /\ half' = half /\ sleep' = sleep
  BY DEF ReadPiece, keeping
<1>2. TypeOK /\ Tokens
  BY DEF IInv
<1>3. /\ wire \in Seq(Token)
      /\ \A p \in DOMAIN wire : FrameHead(wire[p]) => Pieces(sent[wire[p][1]]) \in Nat
  BY <1>2, Typing
<1>4. missing \in Nat /\ missing > 0
  BY <1>1, <1>2 DEF TypeOK
<1>5. /\ Len(wire) \in Nat \ {0} /\ DOMAIN wire = 1 .. Len(wire)
      /\ wire' \in Seq(Token) /\ DOMAIN wire' = 1 .. Len(wire) - 1
      /\ \A p \in 1 .. Len(wire) - 1 : wire'[p] = wire[p + 1]
      /\ buf' \in Seq(Token) /\ Len(buf) \in Nat /\ Len(buf') = Len(buf) + 1
  <2>1. Head(wire) \in Token /\ buf \in Seq(Token)
    BY <1>1, <1>2, <1>3, TailOf DEF TypeOK
  <2> QED
    BY <1>1, <1>3, <2>1, TailOf, AppendTo
<1>6. TypeOK'
  <2>1. idle' \in 0 .. Delay
    BY <1>1, StreamAssumption
  <2>2. missing' \in Nat /\ (at' = "body" => missing' > 0)
    BY <1>1, <1>4
  <2> QED
    BY <1>1, <1>2, <1>5, <2>1, <2>2 DEF TypeOK
<1>7. Tokens'
  <2>1. \A p \in DOMAIN wire' : p + 1 \in DOMAIN wire /\ wire'[p] = wire[p + 1]
    BY <1>5
  <2>2. Awaited = missing /\ Awaited' = missing - 1
    BY <1>1, <1>4 DEF Awaited
  <2>3. message \in 1 .. Len(sent) /\ Len(buf) + missing = Announced(sent[message])
    BY <1>1, <1>2, <2>2 DEF Tokens
  <2>4. Len(buf') + Awaited' = Announced(sent[message])
    BY <1>4, <1>5, <2>2, <2>3
  <2> QED
    BY <1>1, <1>2, <2>1, <2>3, <2>4 DEF Tokens
<1>8. Taken' = Taken /\ Awaited = missing /\ Awaited' = missing - 1
  BY <1>1, <1>4 DEF Taken, Awaited
<1>9. (Aligned(Taken)' <=> Aligned(Taken)) /\ (Exactly(Taken)' <=> Exactly(Taken))
  BY <1>1, <1>8 DEF Aligned, Exactly
<1>10. DealtInOrder' /\ ReadsNext' /\ CutForReason'
  BY <1>1 DEF IInv, DealtInOrder, ReadsNext, CutForReason, Aligned
<1>11. SessionAligned'
  BY <1>1, <1>9 DEF IInv, SessionAligned
<1>12. ASSUME Aligned(Taken)
       PROVE  /\ Taken <= Len(sent)
              /\ Ordered(wire, Taken + 1, Len(sent))
              /\ Whole(wire, sent)
              /\ \A j \in 1 .. missing : j \in DOMAIN wire /\ wire[j][2] # 0
  BY <1>1, <1>8, <1>12 DEF IInv, Structure
<1>13. ASSUME Aligned(Taken)
       PROVE  ~FrameHead(wire[1])
  <2>1. 1 \in 1 .. missing
    BY <1>4
  <2> QED
    BY <1>12, <1>13, <2>1 DEF FrameHead
<1>14. Structure'
  <2> SUFFICES ASSUME Aligned(Taken)
               PROVE  /\ Taken <= Len(sent)
                      /\ Ordered(wire', Taken + 1, Len(sent))
                      /\ Whole(wire', sent)
                      /\ \A j \in 1 .. missing - 1 : j \in DOMAIN wire' /\ wire'[j][2] # 0
    BY <1>1, <1>8, <1>9 DEF Structure
  <2>1. Ordered(wire', Taken + 1, Len(sent)) /\ Whole(wire', sent)
    BY <1>1, <1>3, <1>12, <1>13, DropOther
  <2>2. ASSUME NEW j \in 1 .. missing - 1
        PROVE  j \in DOMAIN wire' /\ wire'[j][2] # 0
    <3>1. j + 1 \in 1 .. missing
      BY <1>4
    <3>2. j + 1 \in DOMAIN wire /\ wire[j + 1][2] # 0
      BY <1>12, <3>1
    <3>3. j \in 1 .. Len(wire) - 1
      BY <1>4, <1>5, <3>2
    <3> QED
      BY <1>5, <3>2, <3>3
  <2> QED
    BY <1>12, <2>1, <2>2
<1>15. Complete'
  <2> SUFFICES ASSUME Exactly(Taken)
               PROVE  Covered(wire', sent, missing - 1)
    BY <1>1, <1>8, <1>9 DEF Complete
  <2>1. Covered(wire, sent, missing)
    BY <1>1, <1>8 DEF IInv, Complete
  <2>2. Aligned(Taken)
    BY <1>2, ExactlyAligned
  <2>3. missing - 1 \in Nat
    BY <1>4
  <2> QED
    BY <1>1, <1>3, <1>4, <1>13, <2>1, <2>2, <2>3, DropOtherCovered
<1> QED
  BY <1>1, <1>6, <1>7, <1>10, <1>11, <1>14, <1>15 DEF IInv

-----------------------------------------------------------------------------
(* A header, or what should be one: the three ways to go on.               *)
GivesUp ==
    /\ \/ cut' = "invalid" /\ ~ValidHead(Head(wire))
       \/ cut' = "astray" /\ ~IsHead(Head(wire))
    /\ UNCHANGED <<at, message, missing, buf, kick>>

ReadsKeepAlive ==
    /\ ~FrameHead(Head(wire))
    /\ kick' = Quiet
    /\ UNCHANGED <<at, message, missing, buf, cut>>

ReadsHead ==
    /\ FrameHead(Head(wire))
    /\ who = "session" => BodyLength(sent[Head(wire)[1]]) <= MaxBody
    /\ message' = Head(wire)[1]
    /\ missing' = Announced(sent[Head(wire)[1]])
    /\ at' = (IF missing' = 0 THEN "deal" ELSE "body")
    /\ buf' = <<>>
    /\ UNCHANGED <<cut, kick>>

LEMMA ReadHeaderCases ==
    ASSUME TypeOK, Tokens, ReadHeader
    PROVE  /\ cut = "no" /\ at = "header" /\ wire # <<>>
           /\ wire' = Tail(wire) /\ idle' = 0
           /\ UNCHANGED <<who, sent, dealt, alive, half, sleep>>
           /\ GivesUp \/ ReadsKeepAlive \/ ReadsHead
<1>1. /\ cut = "no" /\ at = "header" /\ wire # <<>>
      /\ wire' = Tail(wire) /\ idle' = 0
      /\ UNCHANGED <<who, sent, dealt, alive, half, sleep>>
  BY DEF ReadHeader, keeping
<1>2. Head(wire) \in (0 .. MaxSent) \X Nat /\ who \in {"session", "client"}
  BY <1>1, TailOf, SMTT(30) DEF TypeOK, Tokens, Token
<1>3. Head(wire) # KeepAlived /\ IsHead(Head(wire)) => FrameHead(Head(wire))
  BY <1>2 DEF KeepAlived, IsHead, FrameHead
<1>4. CASE who = "session" /\ ~ValidHead(Head(wire))
  BY <1>1, <1>4 DEF ReadHeader, GivesUp, reading
<1>5. CASE who = "client" /\ ~IsHead(Head(wire))
  BY <1>1, <1>5 DEF ReadHeader, GivesUp, reading
<1>6. CASE /\ ~(who = "session" /\ ~ValidHead(Head(wire)))
           /\ ~(who = "client" /\ ~IsHead(Head(wire)))
           /\ Head(wire) = KeepAlived
  <2>1. ~FrameHead(KeepAlived)
    BY DEF KeepAlived, FrameHead
  <2> QED
    BY <1>1, <1>6, <2>1 DEF ReadHeader, ReadsKeepAlive, reading, Restarted
<1>7. CASE /\ ~(who = "session" /\ ~ValidHead(Head(wire)))
           /\ ~(who = "client" /\ ~IsHead(Head(wire)))
           /\ Head(wire) # KeepAlived
  <2>1. IsHead(Head(wire)) /\ (who = "session" => BodyLength(sent[Head(wire)[1]]) <= MaxBody)
    BY <1>2, <1>7 DEF ValidHead
  <2>2. /\ message' = Head(wire)[1] /\ missing' = Announced(sent[Head(wire)[1]])
        /\ at' = (IF missing' = 0 THEN "deal" ELSE "body")
        /\ buf' = <<>>
        /\ UNCHANGED <<cut, kick>>
    BY <1>7 DEF ReadHeader, AfterHead
  <2> QED
    BY <1>1, <1>3, <1>7, <2>1, <2>2 DEF ReadsHead
<1> QED
  BY <1>1, <1>4, <1>5, <1>6, <1>7

LEMMA ReadHeaderTypes ==
    ASSUME TypeOK, Tokens, ReadHeader
    PROVE  TypeOK' /\ Tokens'
<1>1. /\ cut = "no" /\ at = "header" /\ wire # <<>>
      /\ wire' = Tail(wire) /\ idle' = 0
      /\ who' = who /\ sent' = sent /\ dealt' = dealt
      /\ alive' = alive /\ half' = half /\ sleep' = sleep
      /\ GivesUp \/ ReadsKeepAlive \/ ReadsHead
  BY ReadHeaderCases
<1>2. wire \in Seq(Token)
  BY Typing
<1>3. /\ Head(wire) = wire[1] /\ 1 \in DOMAIN wire /\ wire' \in Seq(Token)
      /\ \A p \in DOMAIN wire' : p + 1 \in DOMAIN wire /\ wire'[p] = wire[p + 1]
  BY <1>1, <1>2, TailOf
<1>4. idle' \in 0 .. Delay /\ Quiet \in 0 .. Quiet
  BY <1>1, StreamAssumption
<1>5. \A p \in DOMAIN wire' : FrameHead(wire'[p]) => wire'[p][1] \in 1 .. Len(sent)
  BY <1>3 DEF Tokens
<1>6. CASE GivesUp \/ ReadsKeepAlive
  <2>1. /\ at' = at /\ message' = message /\ missing' = missing /\ buf' = buf
        /\ kick' \in {kick, Quiet} /\ cut' \in {"no", "invalid", "astray"}
    BY <1>1, <1>6 DEF GivesUp, ReadsKeepAlive
  <2>2. kick' \in 0 .. Quiet
    BY <1>4, <2>1 DEF TypeOK
  <2>3. TypeOK'
    BY <1>1, <1>3, <1>4, <2>1, <2>2 DEF TypeOK
  <2> QED
    BY <1>1, <1>5, <2>1, <2>3 DEF Tokens, Awaited
<1>7. CASE ReadsHead
  <2>1. message' \in 1 .. Len(sent)
    BY <1>3, <1>7 DEF ReadsHead, Tokens
  <2>2. sent[message'] \in Message /\ Len(sent) \in Nat
    BY <2>1, Typing
  <2>3. missing' = Announced(sent[message'])
    BY <1>7 DEF ReadsHead
  <2>4. missing' \in Nat
    BY <2>2, <2>3, Numbers
  <2>5. /\ at' \in {"body", "deal"} /\ (at' = "body" => missing' > 0)
        /\ kick' = kick /\ cut' = cut
    BY <1>7, <2>4 DEF ReadsHead
  <2>6. message' \in 0 .. Len(sent')
    BY <1>1, <2>1, <2>2
  <2>7. buf' \in Seq(Token) /\ Len(buf') = 0
    BY <1>7, EmptySeq DEF ReadsHead
  <2>8. TypeOK'
    BY <1>1, <1>3, <1>4, <2>4, <2>5, <2>6, <2>7 DEF TypeOK
  <2>9. Awaited' = missing'
    BY <1>7, <2>5 DEF Awaited, ReadsHead
  <2>10. Len(buf') + Awaited' = Announced(sent[message'])
    BY <2>3, <2>4, <2>7, <2>9
  <2>11. Tokens'
    BY <1>1, <1>5, <2>1, <2>5, <2>10 DEF Tokens
  <2> QED
    BY <2>8, <2>11
<1> QED
  BY <1>1, <1>6, <1>7

(* Between messages the next thing in a stream whose messages were all     *)
(* followed by what they announced is a header, that of the next message   *)
(* or of a keepalive.                                                      *)
LEMMA NextIsHeader ==
    ASSUME IInv, cut = "no", at = "header", wire # <<>>
    PROVE  /\ Exactly(Len(dealt)) => IsHead(wire[1])
           /\ Aligned(Len(dealt)) /\ FrameHead(wire[1]) =>
                  /\ wire[1][1] = Len(dealt) + 1
                  /\ Ordered(Tail(wire), Len(dealt) + 2, Len(sent))
                  /\ Whole(Tail(wire), sent)
                  /\ \A j \in 1 .. Pieces(sent[Len(dealt) + 1]) :
                         j \in DOMAIN Tail(wire) /\ Tail(wire)[j][2] # 0
<1>1. /\ wire \in Seq(Token) /\ Len(sent) \in Nat /\ Len(dealt) \in Nat
      /\ Taken = Len(dealt) /\ Awaited = 0
  BY Typing DEF IInv, Taken, Awaited
<1>2. DOMAIN wire = 1 .. Len(wire) /\ Len(wire) \in Nat \ {0}
  BY <1>1, TailOf
<1>3. ASSUME Exactly(Len(dealt))
      PROVE  wire[1][2] = 0
  <2>1. Covered(wire, sent, 0)
    BY <1>1, <1>3 DEF IInv, Complete
  <2>2. 1 \in DOMAIN wire /\ ~(1 <= 0) /\ \A q \in DOMAIN wire : ~(q < 1)
    BY <1>2
  <2> QED
    BY <2>1, <2>2 DEF Covered
<1>4. ASSUME Aligned(Len(dealt)), FrameHead(wire[1])
      PROVE  /\ wire[1][1] = Len(dealt) + 1
             /\ Ordered(Tail(wire), Len(dealt) + 2, Len(sent))
             /\ Whole(Tail(wire), sent)
             /\ \A j \in 1 .. Pieces(sent[Len(dealt) + 1]) :
                    j \in DOMAIN Tail(wire) /\ Tail(wire)[j][2] # 0
  <2>1. Ordered(wire, Len(dealt) + 1, Len(sent)) /\ Whole(wire, sent)
    BY <1>1, <1>4 DEF IInv, Structure
  <2>2. Len(dealt) + 1 \in Nat /\ (Len(dealt) + 1) + 1 = Len(dealt) + 2
    BY <1>1
  <2>3. /\ wire[1][1] = Len(dealt) + 1
        /\ Ordered(Tail(wire), (Len(dealt) + 1) + 1, Len(sent))
        /\ Whole(Tail(wire), sent)
        /\ \A j \in 1 .. Pieces(sent[Len(dealt) + 1]) :
               j \in DOMAIN Tail(wire) /\ Tail(wire)[j][2] # 0
    BY <1>1, <1>4, <2>1, <2>2, DropHead
  <2> QED
    BY <2>2, <2>3
<1> QED
  BY <1>3, <1>4 DEF IsHead

LEMMA GivesUpKeeps ==
    ASSUME IInv, ReadHeader, GivesUp
    PROVE  IInv'
<1>1. /\ cut = "no" /\ at = "header" /\ wire # <<>> /\ cut' \in {"invalid", "astray"}
      /\ who' = who /\ sent' = sent /\ dealt' = dealt
      /\ ~ValidHead(Head(wire)) \/ ~IsHead(Head(wire))
  BY ReadHeaderCases DEF IInv, GivesUp
<1>2. TypeOK' /\ Tokens'
  BY ReadHeaderTypes DEF IInv
<1>3. DealtInOrder'
  BY <1>1 DEF IInv, DealtInOrder, Aligned
<1>4. ReadsNext' /\ SessionAligned' /\ Structure' /\ Complete'
  BY <1>1 DEF ReadsNext, SessionAligned, Structure, Complete
<1>5. CutForReason'
  <2> SUFFICES ASSUME \A i \in DOMAIN sent : i <= Len(dealt) + 1 =>
                          ~Misframed(sent[i]) /\ ~(BodyLength(sent[i]) > MaxBody)
               PROVE  FALSE
    BY <1>1 DEF CutForReason, Spoilt
  <2>1. /\ Len(sent) \in Nat /\ Len(dealt) \in Nat /\ DOMAIN sent = 1 .. Len(sent)
        /\ \A i \in 1 .. Len(sent) : sent[i] \in Message
        /\ wire \in Seq(Token)
    BY Typing DEF IInv
  <2>2. Exactly(Len(dealt))
    BY <2>1 DEF Exactly
  <2>3. Aligned(Len(dealt))
    BY <2>2, ExactlyAligned DEF IInv
  <2>4. Head(wire) = wire[1] /\ wire[1] \in Token /\ 1 \in DOMAIN wire
    BY <1>1, <2>1, TailOf
  <2>5. IsHead(wire[1])
    BY <1>1, <2>2, NextIsHeader
  <2>6. wire[1] # KeepAlived /\ ~(BodyLength(sent[wire[1][1]]) <= MaxBody)
    BY <1>1, <2>4, <2>5 DEF ValidHead
  <2>7. FrameHead(wire[1])
    BY <2>4, <2>5, <2>6 DEF FrameHead, IsHead, KeepAlived, Token
  <2>8. wire[1][1] = Len(dealt) + 1 /\ wire[1][1] \in 1 .. Len(sent)
    BY <1>1, <2>3, <2>4, <2>7, NextIsHeader DEF IInv, Tokens
  <2>9. BodyLength(sent[wire[1][1]]) \in Nat /\ MaxBody \in Nat
    BY <2>1, <2>8, Numbers, StreamAssumption
  <2> QED
    BY <2>1, <2>6, <2>8, <2>9
<1> QED
  BY <1>1, <1>2, <1>3, <1>4, <1>5 DEF IInv

LEMMA ReadsKeepAliveKeeps ==
    ASSUME IInv, ReadHeader, ReadsKeepAlive
    PROVE  IInv'
<1>1. /\ cut = "no" /\ at = "header" /\ wire # <<>> /\ cut' = cut
      /\ who' = who /\ sent' = sent /\ dealt' = dealt /\ wire' = Tail(wire)
      /\ at' = at /\ message' = message /\ missing' = missing
      /\ ~FrameHead(Head(wire))
  BY ReadHeaderCases DEF IInv, ReadsKeepAlive
<1>2. TypeOK' /\ Tokens'
  BY ReadHeaderTypes DEF IInv
<1>3. /\ wire \in Seq(Token)
      /\ \A p \in DOMAIN wire : FrameHead(wire[p]) => Pieces(sent[wire[p][1]]) \in Nat
  BY Typing DEF IInv
<1>4. Head(wire) = wire[1]
  BY <1>1, <1>3, TailOf
<1>5. Taken' = Taken /\ Awaited' = 0 /\ Awaited = 0
  BY <1>1 DEF Taken, Awaited
<1>6. (Aligned(Taken)' <=> Aligned(Taken)) /\ (Exactly(Taken)' <=> Exactly(Taken))
  BY <1>1, <1>5 DEF Aligned, Exactly
<1>7. DealtInOrder' /\ ReadsNext' /\ CutForReason'
  BY <1>1 DEF IInv, DealtInOrder, ReadsNext, CutForReason, Aligned
<1>8. SessionAligned'
  BY <1>1, <1>6 DEF IInv, SessionAligned
<1>9. /\ \A lo, hi : Ordered(wire, lo, hi) => Ordered(wire', lo, hi)
      /\ Whole(wire, sent) => Whole(wire', sent)
  BY <1>1, <1>3, <1>4, DropOther
<1>10. Structure'
  <2>1. 1 .. 0 = {}
    OBVIOUS
  <2> QED
    BY <1>1, <1>5, <1>6, <1>9, <2>1 DEF IInv, Structure
<1>11. Complete'
  <2>1. Covered(wire, sent, 0) => Covered(wire', sent, 0)
    BY <1>1, <1>3, <1>4, DropOtherCovered
  <2> QED
    BY <1>1, <1>5, <1>6, <2>1 DEF IInv, Complete
<1> QED
  BY <1>1, <1>2, <1>7, <1>8, <1>10, <1>11 DEF IInv

LEMMA ReadsHeadKeeps ==
    ASSUME IInv, ReadHeader, ReadsHead
    PROVE  IInv'
<1> DEFINE n == Len(dealt)
<1>1. /\ cut = "no" /\ at = "header" /\ wire # <<>> /\ cut' = cut
      /\ who' = who /\ sent' = sent /\ dealt' = dealt /\ wire' = Tail(wire)
      /\ at' # "header"
  BY ReadHeaderCases DEF IInv, ReadsHead
<1>2. TypeOK' /\ Tokens'
  BY ReadHeaderTypes DEF IInv
<1>3. /\ wire \in Seq(Token) /\ n \in Nat
      /\ Len(sent) \in Nat /\ DOMAIN sent = 1 .. Len(sent)
      /\ \A i \in 1 .. Len(sent) : sent[i] \in Message /\ sent[i] \in Messages[who]
      /\ \A p \in DOMAIN wire : FrameHead(wire[p]) => Pieces(sent[wire[p][1]]) \in Nat
  BY Typing DEF IInv
<1>4. Head(wire) = wire[1] /\ 1 \in DOMAIN wire
  BY <1>1, <1>3, TailOf
<1>5. /\ FrameHead(wire[1]) /\ message' = wire[1][1] /\ missing' = Announced(sent[wire[1][1]])
      /\ at' = (IF missing' = 0 THEN "deal" ELSE "body")
      /\ who = "session" => BodyLength(sent[wire[1][1]]) <= MaxBody
  BY <1>4 DEF ReadsHead
<1>6. wire[1][1] \in 1 .. Len(sent)
  BY <1>4, <1>5 DEF IInv, Tokens
<1>7. Taken = n /\ Taken' = n + 1 /\ Awaited = 0 /\ Awaited' = missing'
  BY <1>1, <1>5 DEF Taken, Awaited
<1>8. ASSUME Aligned(n)
      PROVE  /\ wire[1][1] = n + 1
             /\ Ordered(Tail(wire), n + 2, Len(sent))
             /\ Whole(Tail(wire), sent)
             /\ \A j \in 1 .. Pieces(sent[n + 1]) : j \in DOMAIN Tail(wire) /\ Tail(wire)[j][2] # 0
  BY <1>1, <1>5, <1>8, NextIsHeader
<1>9. (\A k : Aligned(k)' <=> Aligned(k)) /\ (\A k : Exactly(k)' <=> Exactly(k))
  BY <1>1 DEF Aligned, Exactly
<1>10. (Aligned(Taken)' <=> Aligned(n + 1)) /\ (Exactly(Taken)' <=> Exactly(n + 1))
  BY <1>1, <1>7 DEF Aligned, Exactly
<1>11. (Aligned(n + 1) => Aligned(n)) /\ (Exactly(n + 1) => Exactly(n))
  BY <1>3 DEF Aligned, Exactly
<1>12. DealtInOrder' /\ CutForReason'
  BY <1>1 DEF IInv, DealtInOrder, CutForReason, Aligned
<1>13. ReadsNext'
  <2>1. Aligned(Len(dealt))' => Aligned(n)
    BY <1>1 DEF Aligned
  <2> QED
    BY <1>1, <1>5, <1>8, <2>1 DEF ReadsNext
<1>14. SessionAligned'
  <2> SUFFICES ASSUME who = "session"
               PROVE  Aligned(n + 1)
    BY <1>1, <1>10 DEF SessionAligned
  <2>1. Aligned(n)
    BY <1>1, <1>7 DEF IInv, SessionAligned
  <2>2. wire[1][1] = n + 1
    BY <1>8, <2>1
  <2>3. /\ sent[n + 1] \in Message /\ sent[n + 1] \in Messages["session"]
        /\ BodyLength(sent[n + 1]) <= MaxBody
    BY <1>3, <1>5, <1>6, <2>2
  <2>4. Announced(sent[n + 1]) <= Pieces(sent[n + 1])
    BY <2>3, StreamAssumption, AcceptedFits
  <2>5. \A j \in 1 .. n + 1 : j \in 1 .. n \/ j = n + 1
    BY <1>3
  <2> QED
    BY <2>1, <2>4, <2>5 DEF Aligned
<1>15. Structure'
  <2> SUFFICES ASSUME Aligned(n + 1)
               PROVE  /\ n + 1 <= Len(sent)
                      /\ Ordered(Tail(wire), (n + 1) + 1, Len(sent))
                      /\ Whole(Tail(wire), sent)
                      /\ \A j \in 1 .. missing' : j \in DOMAIN Tail(wire) /\ Tail(wire)[j][2] # 0
    BY <1>1, <1>7, <1>10 DEF Structure
  <2>1. /\ wire[1][1] = n + 1 /\ (n + 1) + 1 = n + 2
        /\ Ordered(Tail(wire), n + 2, Len(sent))
        /\ Whole(Tail(wire), sent)
        /\ \A j \in 1 .. Pieces(sent[n + 1]) : j \in DOMAIN Tail(wire) /\ Tail(wire)[j][2] # 0
    BY <1>3, <1>8, <1>11
  <2>2. sent[n + 1] \in Message /\ n + 1 \in DOMAIN sent /\ n + 1 <= Len(sent)
    BY <1>3, <1>6, <2>1
  <2>3. missing' \in Nat /\ Pieces(sent[n + 1]) \in Nat /\ missing' <= Pieces(sent[n + 1])
    <3>1. Announced(sent[n + 1]) \in Nat /\ Pieces(sent[n + 1]) \in Nat
      BY <2>2, Numbers
    <3>2. n + 1 \in 1 .. n + 1
      BY <1>3
    <3> QED
      BY <1>5, <2>1, <2>2, <3>1, <3>2 DEF Aligned
  <2>4. \A j \in 1 .. missing' : j \in 1 .. Pieces(sent[n + 1])
    BY <2>3
  <2> QED
    BY <2>1, <2>2, <2>4
<1>16. Complete'
  <2> SUFFICES ASSUME Exactly(n + 1)
               PROVE  Covered(Tail(wire), sent, missing')
    BY <1>1, <1>7, <1>10 DEF Complete
  <2>1. Aligned(n)
    BY <1>11, ExactlyAligned DEF IInv
  <2>2. Covered(wire, sent, 0)
    BY <1>1, <1>7, <1>11 DEF IInv, Complete
  <2>3. Covered(Tail(wire), sent, Pieces(sent[wire[1][1]]))
    BY <1>1, <1>3, <1>5, <2>2, DropHeadCovered
  <2>4. wire[1][1] = n + 1 /\ n + 1 \in DOMAIN sent /\ n + 1 \in 1 .. n + 1
    BY <1>3, <1>6, <1>8, <2>1
  <2>5. missing' = Pieces(sent[wire[1][1]])
    BY <1>5, <2>4 DEF Exactly, Misframed
  <2> QED
    BY <2>3, <2>5
<1> QED
  BY <1>1, <1>2, <1>12, <1>13, <1>14, <1>15, <1>16 DEF IInv

-----------------------------------------------------------------------------
LEMMA NextKeeps ==
    ASSUME IInv, [Next]_vars
    PROVE  IInv'
<1>1. CASE WriteMessage
  BY <1>1, WriteKeeps
<1>2. CASE Connected \/ KeepAlive \/ Tick
  BY <1>2, OthersKeep
<1>3. CASE ReadHeader
  BY <1>3, ReadHeaderCases, GivesUpKeeps, ReadsKeepAliveKeeps, ReadsHeadKeeps DEF IInv
<1>4. CASE ReadPiece
  BY <1>4, ReadPieceKeeps
<1>5. CASE Deal
  BY <1>5, DealKeeps
<1>6. CASE Kick
  BY <1>6, KickKeeps
<1>7. CASE UNCHANGED vars
  <2>1. Taken' = Taken /\ Awaited' = Awaited
    BY <1>7 DEF vars, reading, Taken, Awaited
  <2>2. /\ (Aligned(Taken)' <=> Aligned(Taken)) /\ (Exactly(Taken)' <=> Exactly(Taken))
    BY <1>7, <2>1 DEF vars, Aligned, Exactly
  <2>3. TypeOK' /\ Tokens' /\ DealtInOrder' /\ ReadsNext' /\ CutForReason'
    BY <1>7 DEF IInv, vars, reading, keeping, TypeOK, Tokens, Awaited, DealtInOrder, ReadsNext, CutForReason, Aligned
  <2>4. SessionAligned' /\ Structure' /\ Complete'
    BY <1>7, <2>1, <2>2 DEF IInv, vars, SessionAligned, Structure, Complete
  <2> QED
    BY <2>3, <2>4 DEF IInv
<1> QED
  BY <1>1, <1>2, <1>3, <1>4, <1>5, <1>6, <1>7 DEF Next

LEMMA Invariance == Spec => []IInv
<1>1. IInv /\ [Next]_vars => IInv'
  BY NextKeeps
<1> QED
  BY InitIInv, <1>1, PTL DEF Spec

(* The types of both ends and of the stream, timers in range included.     *)
THEOREM TypeCorrect == Spec => []TypeOK
<1>1. IInv => TypeOK
  BY DEF IInv
<1> QED
  BY Invariance, <1>1, PTL

(* A reader gives up a stream, or goes astray, only behind a message that  *)
(* is too long or is not followed by what its header announces.            *)
THEOREM CutsHaveReason == Spec => []CutForReason
<1>1. IInv => CutForReason
  BY DEF IInv
<1> QED
  BY Invariance, <1>1, PTL

-----------------------------------------------------------------------------
(* What the reader takes from the stream.  Every piece lies right behind   *)
(* the piece, or the header, that precedes it in its message; what is in   *)
(* the buffer are the first pieces of the message whose header was read,   *)
(* and the next of them is the first thing in the stream.                  *)
Successive(w) ==
    \A p \in DOMAIN w : p # 1 /\ w[p][2] # 0 => w[p - 1] = <<w[p][1], w[p][2] - 1>>

Buffered ==
    cut = "no" /\ at # "header" /\ Aligned(Taken) =>
        /\ \A j \in 1 .. Len(buf) : buf[j] = <<message, j>>
        /\ at = "body" => wire[1] = <<message, Len(buf) + 1>>

(* Message id by its header: as much of what follows as that announces.    *)
Cut(id, m) ==
    [head |-> id,
     name |-> [j \in 1 .. NameLength(m) |-> <<id, j>>],
     body |-> [j \in 1 .. BodyLength(m) |-> <<id, NameLength(m) + j>>]]

DealtAsAnnounced ==
    \A i \in DOMAIN dealt :
        who = "session" \/ Aligned(i) => i \in DOMAIN sent /\ dealt[i] = Cut(i, sent[i])

BInv == Successive(wire) /\ Buffered /\ DealtAsAnnounced

LEMMA InitBInv == Init => BInv
<1> SUFFICES ASSUME Init PROVE BInv
  OBVIOUS
<1>1. DOMAIN wire = {} /\ DOMAIN dealt = {} /\ at = "header"
  BY DEF Init
<1> QED
  BY <1>1 DEF BInv, Successive, Buffered, DealtAsAnnounced

LEMMA TokenBehind ==
    ASSUME NEW t \in Token, NEW id, NEW k \in Nat, t[1] = id, t[2] - 1 = k
    PROVE  t = <<id, k + 1>>
BY DEF Token

LEMMA SuccessiveTail ==
    ASSUME NEW w \in Seq(Token), w # <<>>, Successive(w)
    PROVE  /\ Successive(Tail(w))
           /\ 1 \in DOMAIN Tail(w) /\ Tail(w)[1][2] # 0 =>
                  w[1] = <<Tail(w)[1][1], Tail(w)[1][2] - 1>>
<1> DEFINE v == Tail(w)
<1>1. /\ Len(w) \in Nat \ {0} /\ DOMAIN w = 1 .. Len(w)
      /\ DOMAIN v = 1 .. Len(w) - 1 /\ \A p \in 1 .. Len(w) - 1 : v[p] = w[p + 1]
  BY TailOf
<1> HIDE DEF v
<1>2. ASSUME NEW p \in DOMAIN v, v[p][2] # 0
      PROVE  w[p] = <<v[p][1], v[p][2] - 1>>
  <2>1. p + 1 \in DOMAIN w /\ p + 1 # 1 /\ v[p] = w[p + 1] /\ (p + 1) - 1 = p
    BY <1>1
  <2>2. PICK q : q = p + 1
    OBVIOUS
  <2>3. w[q - 1] = <<w[q][1], w[q][2] - 1>>
    BY <1>2, <2>1, <2>2 DEF Successive
  <2> QED
    BY <2>1, <2>2, <2>3
<1>3. Successive(v)
  <2> SUFFICES ASSUME NEW p \in DOMAIN v, p # 1, v[p][2] # 0
               PROVE  v[p - 1] = <<v[p][1], v[p][2] - 1>>
    BY DEF Successive
  <2>1. p - 1 \in 1 .. Len(w) - 1 /\ (p - 1) + 1 = p
    BY <1>1
  <2>2. v[p - 1] = w[p]
    BY <1>1, <2>1
  <2> QED
    BY <1>2, <2>2
<1> QED
  BY <1>2, <1>3 DEF v

LEMMA SuccessiveAppend ==
    ASSUME NEW w \in Seq(Token), Successive(w)
    PROVE  Successive(Append(w, KeepAlived))
<1> DEFINE v == Append(w, KeepAlived)
<1>1. KeepAlived \in Token /\ KeepAlived[2] = 0
  BY StreamAssumption DEF KeepAlived, Token
<1>2. /\ Len(w) \in Nat /\ DOMAIN w = 1 .. Len(w) /\ DOMAIN v = 1 .. Len(w) + 1
      /\ \A i \in 1 .. Len(w) : v[i] = w[i]
      /\ v[Len(w) + 1] = KeepAlived
  BY <1>1, AppendTo
<1> HIDE DEF v
<1> SUFFICES ASSUME NEW p \in DOMAIN v, p # 1, v[p][2] # 0
             PROVE  v[p - 1] = <<v[p][1], v[p][2] - 1>>
  BY DEF Successive, v
<1>3. p \in DOMAIN w /\ p - 1 \in DOMAIN w
  BY <1>1, <1>2
<1>4. v[p] = w[p] /\ v[p - 1] = w[p - 1]
  BY <1>2, <1>3
<1> QED
  BY <1>3, <1>4 DEF Successive

LEMMA SuccessiveFrame ==
    ASSUME NEW w \in Seq(Token), Successive(w), NEW m \in Message, NEW id \in 1 .. MaxSent
    PROVE  Successive(w \o Frame(id, m))
<1> DEFINE f == Frame(id, m)
<1> DEFINE v == w \o f
<1> DEFINE k == Len(w)
<1> DEFINE n == 1 + Pieces(m)
<1>1. f \in Seq(Token) /\ Len(f) = n /\ n \in Nat /\ \A j \in 1 .. n : f[j] = <<id, j - 1>>
  BY FrameOf, Numbers
<1>2. /\ v \in Seq(Token) /\ Len(v) = k + n /\ k \in Nat /\ DOMAIN w = 1 .. k
      /\ \A i \in 1 .. k + n : v[i] = IF i <= k THEN w[i] ELSE f[i - k]
  BY <1>1, ConcatProperties, LenProperties, ZenonT(60)
<1>3. DOMAIN v = 1 .. k + n
  BY <1>2, LenProperties
<1> HIDE DEF f, v, k, n
<1> SUFFICES ASSUME NEW p \in DOMAIN v, p # 1, v[p][2] # 0
             PROVE  v[p - 1] = <<v[p][1], v[p][2] - 1>>
  BY DEF Successive, v, f
<1>4. p \in 1 .. k + n /\ p - 1 \in 1 .. k + n
  BY <1>1, <1>2, <1>3
<1>5. CASE p <= k
  <2>1. p \in DOMAIN w /\ v[p] = w[p] /\ v[p - 1] = w[p - 1]
    BY <1>2, <1>4, <1>5
  <2> QED
    BY <2>1 DEF Successive
<1>6. CASE ~(p <= k)
  <2>1. v[p] = f[p - k] /\ p - k \in 1 .. n
    BY <1>1, <1>2, <1>4, <1>6
  <2>2. v[p] = <<id, (p - k) - 1>>
    BY <1>1, <2>1
  <2>3. (p - k) - 1 # 0
    BY <2>2
  <2>4. (p - k) - 1 \in 1 .. n /\ ~(p - 1 <= k) /\ (p - 1) - k = (p - k) - 1
    <3>1. \A a, b, c \in Nat : b - a \in 1 .. c /\ (b - a) - 1 # 0 =>
              (b - a) - 1 \in 1 .. c /\ ~(b - 1 <= a) /\ (b - 1) - a = (b - a) - 1
      OBVIOUS
    <3>2. p \in Nat
      BY <1>1, <1>2, <1>4
    <3> QED
      BY <1>1, <1>2, <2>1, <2>3, <3>1, <3>2, ZenonT(30)
  <2>5. v[p - 1] = f[(p - k) - 1]
    BY <1>2, <1>4, <2>4
  <2>6. f[(p - k) - 1] = <<id, ((p - k) - 1) - 1>>
    BY <1>1, <2>4
  <2> QED
    BY <2>2, <2>5, <2>6
<1> QED
  BY <1>5, <1>6

(* A step that takes nothing from the stream and may add something to it.  *)
LEMMA NothingBuffered ==
    ASSUME IInv, BInv, cut' = cut, who' = who, dealt' = dealt,
           at' = at, missing' = missing, message' = message, buf' = buf,
           Successive(wire'),
           \A i \in DOMAIN sent : i \in DOMAIN sent' /\ sent'[i] = sent[i],
           \A p \in DOMAIN wire : p \in DOMAIN wire' /\ wire'[p] = wire[p]
    PROVE  BInv'
<1>1. Taken' = Taken /\ Awaited' = Awaited
  BY DEF Taken, Awaited
<1>2. \A n : Aligned(n)' => Aligned(n)
  BY DEF Aligned
<1>3. Aligned(Taken)' => Aligned(Taken)
  BY <1>1, <1>2 DEF Aligned
<1>4. Buffered'
  <2> SUFFICES ASSUME cut = "no", at # "header", Aligned(Taken)
               PROVE  /\ \A j \in 1 .. Len(buf) : buf[j] = <<message, j>>
                      /\ at = "body" => wire'[1] = <<message, Len(buf) + 1>>
    BY <1>3 DEF Buffered
  <2>1. /\ \A j \in 1 .. Len(buf) : buf[j] = <<message, j>>
        /\ at = "body" => wire[1] = <<message, Len(buf) + 1>>
    BY DEF BInv, Buffered
  <2>2. at = "body" => 1 \in 1 .. Awaited
    BY DEF IInv, TypeOK, Awaited
  <2>3. at = "body" => 1 \in DOMAIN wire
    BY <2>2 DEF IInv, Structure
  <2> QED
    BY <2>1, <2>3
<1>5. DealtAsAnnounced'
  <2> SUFFICES ASSUME NEW i \in DOMAIN dealt, who = "session" \/ Aligned(i)'
               PROVE  i \in DOMAIN sent' /\ dealt[i] = Cut(i, sent'[i])
    BY DEF DealtAsAnnounced, Aligned, Cut
  <2>1. i \in DOMAIN sent /\ dealt[i] = Cut(i, sent[i])
    BY <1>2 DEF BInv, DealtAsAnnounced
  <2> QED
    BY <2>1
<1> QED
  BY <1>4, <1>5 DEF BInv

LEMMA PieceBuffered ==
    ASSUME IInv, IInv', BInv, ReadPiece
    PROVE  BInv'
<1>1. /\ cut = "no" /\ at = "body" /\ wire # <<>>
      /\ cut' = cut /\ who' = who /\ sent' = sent /\ dealt' = dealt /\ message' = message
      /\ missing' = missing - 1 /\ at' = (IF missing = 1 THEN "deal" ELSE "body")
      /\ wire' = Tail(wire) /\ buf' = Append(buf, Head(wire))
  BY DEF ReadPiece
<1>2. /\ wire \in Seq(Token) /\ buf \in Seq(Token)
      /\ missing' \in Nat /\ (at' = "body" => missing' > 0)
  BY DEF IInv, TypeOK
<1>3. Head(wire) = wire[1] /\ wire[1] \in Token
  BY <1>1, <1>2, TailOf
<1>4. /\ Len(buf) \in Nat /\ Len(buf') = Len(buf) + 1
      /\ \A j \in 1 .. Len(buf) : buf'[j] = buf[j]
      /\ buf'[Len(buf) + 1] = wire[1]
  BY <1>1, <1>2, <1>3, AppendTo
<1>5. Taken' = Taken
  BY <1>1 DEF Taken
<1>6. Aligned(Taken)' <=> Aligned(Taken)
  BY <1>1, <1>5 DEF Aligned
<1>7. /\ Successive(wire')
      /\ 1 \in DOMAIN wire' /\ wire'[1][2] # 0 => wire[1] = <<wire'[1][1], wire'[1][2] - 1>>
  BY <1>1, <1>2, SuccessiveTail DEF BInv
<1>8. Buffered'
  <2> SUFFICES ASSUME Aligned(Taken)
               PROVE  /\ \A j \in 1 .. Len(buf') : buf'[j] = <<message, j>>
                      /\ at' = "body" => wire'[1] = <<message, Len(buf') + 1>>
    BY <1>1, <1>6 DEF Buffered
  <2>1. /\ \A j \in 1 .. Len(buf) : buf[j] = <<message, j>>
        /\ wire[1] = <<message, Len(buf) + 1>>
    BY <1>1 DEF BInv, Buffered
  <2>2. ASSUME NEW j \in 1 .. Len(buf')
        PROVE  buf'[j] = <<message, j>>
    <3>1. j \in 1 .. Len(buf) \/ j = Len(buf) + 1
      BY <1>4
    <3> QED
      BY <1>4, <2>1, <3>1
  <2>3. ASSUME at' = "body"
        PROVE  wire'[1] = <<message, Len(buf') + 1>>
    <3>1. Awaited' = missing' /\ 1 \in 1 .. missing'
      BY <1>2, <2>3 DEF Awaited
    <3>2. 1 \in DOMAIN wire' /\ wire'[1][2] # 0
      BY <1>1, <1>6, <3>1 DEF IInv, Structure
    <3>3. wire'[1] \in Token
      <4>1. wire' \in Seq(Token)
        BY DEF IInv, TypeOK
      <4> QED
        BY <3>2, <4>1, ElementOfSeq, LenProperties
    <3>4. wire'[1][1] = message /\ wire'[1][2] - 1 = Len(buf) + 1
      BY <1>7, <2>1, <3>2
    <3> QED
      BY <1>4, <3>3, <3>4, TokenBehind
  <2> QED
    BY <2>2, <2>3
<1>9. DealtAsAnnounced'
  BY <1>1 DEF BInv, DealtAsAnnounced, Aligned
<1> QED
  BY <1>7, <1>8, <1>9 DEF BInv

LEMMA HeaderBuffered ==
    ASSUME IInv, IInv', BInv, ReadHeader
    PROVE  BInv'
<1>1. /\ cut = "no" /\ at = "header" /\ wire # <<>>
      /\ wire' = Tail(wire) /\ who' = who /\ sent' = sent /\ dealt' = dealt
      /\ GivesUp \/ ReadsKeepAlive \/ ReadsHead
  BY ReadHeaderCases DEF IInv
<1>2. wire \in Seq(Token) /\ wire' \in Seq(Token)
  BY DEF IInv, TypeOK
<1>3. Head(wire) = wire[1]
  BY <1>1, <1>2, TailOf
<1>4. /\ Successive(wire')
      /\ 1 \in DOMAIN wire' /\ wire'[1][2] # 0 => wire[1] = <<wire'[1][1], wire'[1][2] - 1>>
  BY <1>1, <1>2, SuccessiveTail DEF BInv
<1>5. DealtAsAnnounced'
  BY <1>1 DEF BInv, DealtAsAnnounced, Aligned
<1>6. Buffered'
  <2>1. CASE GivesUp \/ ReadsKeepAlive
    BY <1>1, <2>1 DEF GivesUp, ReadsKeepAlive, Buffered
  <2>2. CASE ReadsHead
    <3>1. /\ FrameHead(wire[1]) /\ message' = wire[1][1] /\ buf' = <<>> /\ Len(buf') = 0
          /\ at' = (IF missing' = 0 THEN "deal" ELSE "body")
      BY <1>3, <2>2 DEF ReadsHead
    <3>2. ASSUME cut' = "no", Aligned(Taken)', at' = "body"
          PROVE  wire'[1] = <<message', 0 + 1>>
      <4>1. missing' \in Nat /\ missing' > 0
        BY <3>2 DEF IInv, TypeOK
      <4>2. Awaited' = missing' /\ 1 \in 1 .. missing'
        BY <3>2, <4>1 DEF Awaited
      <4>3. 1 \in DOMAIN wire' /\ wire'[1][2] # 0
        BY <3>2, <4>2 DEF IInv, Structure
      <4>4. wire'[1] \in Token
        BY <1>2, <4>3, ElementOfSeq, LenProperties
      <4>5. wire'[1][1] = message' /\ wire'[1][2] - 1 = 0
        <5>1. wire[1] = <<wire'[1][1], wire'[1][2] - 1>>
          BY <1>4, <4>3
        <5>2. wire[1][1] = message' /\ wire[1][2] = 0
          BY <3>1 DEF FrameHead
        <5> QED
          BY <5>1, <5>2
      <4>6. 0 \in Nat
        OBVIOUS
      <4> QED
        BY <4>4, <4>5, <4>6, TokenBehind
    <3>3. \A j \in 1 .. 0 : FALSE
      OBVIOUS
    <3> QED
      BY <3>1, <3>2, <3>3 DEF Buffered
  <2> QED
    BY <1>1, <2>1, <2>2
<1> QED
  BY <1>4, <1>5, <1>6 DEF BInv

(* deal() takes the announced part of the message it is due.               *)
LEMMA DealBuffered ==
    ASSUME IInv, BInv, Deal
    PROVE  BInv'
<1>1. /\ cut = "no" /\ at = "deal" /\ cut' = cut /\ who' = who /\ sent' = sent /\ wire' = wire
      /\ at' = "header" /\ dealt' = Append(dealt, Taking)
  BY DEF Deal, Taking
<1> DEFINE n == Len(dealt)
<1> DEFINE m == sent[message]
<1>2. /\ Taking \in Dealt /\ Taking.head = message
      /\ m \in Message /\ NameLength(m) \in Nat /\ BodyLength(m) \in Nat
      /\ Len(buf) = NameLength(m) + BodyLength(m)
      /\ Len(Taking.name) = NameLength(m) /\ Len(Taking.body) = BodyLength(m)
      /\ \A j \in 1 .. NameLength(m) : Taking.name[j] = buf[j]
      /\ \A j \in 1 .. BodyLength(m) : Taking.body[j] = buf[NameLength(m) + j]
  BY <1>1, TakingOf DEF IInv
<1>3. /\ n \in Nat /\ DOMAIN dealt = 1 .. n /\ DOMAIN dealt' = 1 .. n + 1
      /\ \A i \in 1 .. n : dealt'[i] = dealt[i]
      /\ dealt'[n + 1] = Taking
  <2>1. dealt \in Seq(Dealt)
    BY DEF IInv, TypeOK
  <2> QED
    BY <1>1, <1>2, <2>1, AppendTo
<1>4. message \in DOMAIN sent /\ Taken = n + 1
  BY <1>1, Typing DEF IInv, Tokens, Taken
<1> HIDE DEF m, n
<1>5. ASSUME Aligned(n + 1)
      PROVE  message = n + 1 /\ Taking = Cut(message, m)
  <2>1. Aligned(n)
    BY <1>3, <1>5 DEF Aligned
  <2>2. message = n + 1
    BY <1>1, <2>1 DEF IInv, ReadsNext, n
  <2>3. \A j \in 1 .. Len(buf) : buf[j] = <<message, j>>
    BY <1>1, <1>4, <1>5 DEF BInv, Buffered
  <2>4. Taking.name = [j \in 1 .. NameLength(m) |-> <<message, j>>]
    <3>1. Taking.name \in Seq(Token)
      BY <1>2 DEF Dealt
    <3>2. Taking.name = [j \in 1 .. NameLength(m) |-> Taking.name[j]]
      BY <1>2, <3>1, LenProperties, SeqDef, SMTT(30)
    <3>3. \A j \in 1 .. NameLength(m) : j \in 1 .. Len(buf)
      BY <1>2
    <3> QED
      BY <1>2, <2>3, <3>2, <3>3
  <2>5. Taking.body = [j \in 1 .. BodyLength(m) |-> <<message, NameLength(m) + j>>]
    <3>1. Taking.body \in Seq(Token)
      BY <1>2 DEF Dealt
    <3>2. Taking.body = [j \in 1 .. BodyLength(m) |-> Taking.body[j]]
      BY <1>2, <3>1, LenProperties, SeqDef, SMTT(30)
    <3>3. \A j \in 1 .. BodyLength(m) : NameLength(m) + j \in 1 .. Len(buf)
      BY <1>2
    <3> QED
      BY <1>2, <2>3, <3>2, <3>3
  <2> QED
    BY <1>2, <2>2, <2>4, <2>5 DEF Cut, Dealt
<1>6. DealtAsAnnounced'
  <2> SUFFICES ASSUME NEW i \in DOMAIN dealt', who = "session" \/ Aligned(i)
               PROVE  i \in DOMAIN sent /\ dealt'[i] = Cut(i, sent[i])
    BY <1>1 DEF DealtAsAnnounced, Aligned
  <2>1. CASE i \in 1 .. n
    BY <1>3, <2>1 DEF BInv, DealtAsAnnounced
  <2>2. CASE i = n + 1
    <3>1. who = "session" => Aligned(n + 1)
      BY <1>1, <1>4 DEF IInv, SessionAligned
    <3> QED
      BY <1>3, <1>4, <1>5, <2>2, <3>1 DEF m
  <2> QED
    BY <1>3, <2>1, <2>2
<1>7. Buffered'
  BY <1>1 DEF Buffered
<1> QED
  BY <1>1, <1>6, <1>7 DEF BInv

LEMMA NextBInv ==
    ASSUME IInv, IInv', BInv, [Next]_vars
    PROVE  BInv'
<1>1. CASE WriteMessage
  <2>1. PICK m \in Messages[who] :
            /\ sent' = Append(sent, m)
            /\ wire' = wire \o Frame(Len(sent) + 1, m)
    BY <1>1 DEF WriteMessage
  <2>2. /\ cut' = cut /\ who' = who /\ dealt' = dealt
        /\ at' = at /\ missing' = missing /\ message' = message /\ buf' = buf
    BY <1>1 DEF WriteMessage, reading
  <2>3. /\ wire \in Seq(Token) /\ sent \in Seq(Message) /\ m \in Message
        /\ Len(sent) \in Nat /\ Len(sent) < MaxSent /\ MaxSent \in Nat
        /\ \A p \in DOMAIN wire : FrameHead(wire[p]) => wire[p][1] \in 1 .. Len(sent)
    BY <1>1, StreamAssumption, Typing DEF IInv, Tokens, WriteMessage
  <2>4. \A i \in DOMAIN sent : i \in DOMAIN sent' /\ sent'[i] = sent[i]
    BY <2>1, <2>3, AppendTo
  <2>5. \A p \in DOMAIN wire : p \in DOMAIN wire' /\ wire'[p] = wire[p]
    <3>1. 0 \in Nat /\ 0 <= Len(sent) + 1
      BY <2>3
    <3> QED
      BY <2>1, <2>3, <3>1, AddFrame
  <2>6. Successive(wire')
    <3>1. Len(sent) + 1 \in 1 .. MaxSent
      BY <2>3
    <3> QED
      BY <2>1, <2>3, <3>1, SuccessiveFrame DEF BInv
  <2> QED
    BY <2>2, <2>4, <2>5, <2>6, NothingBuffered
<1>2. CASE Connected \/ KeepAlive \/ Tick \/ UNCHANGED vars
  <2>1. /\ cut' = cut /\ who' = who /\ sent' = sent /\ dealt' = dealt
        /\ at' = at /\ missing' = missing /\ message' = message /\ buf' = buf
        /\ wire' = wire \/ wire' = Append(wire, KeepAlived)
    BY <1>2 DEF Connected, KeepAlive, Tick, vars, reading
  <2>2. wire \in Seq(Token) /\ KeepAlived \in Token
    BY StreamAssumption, Typing DEF IInv, KeepAlived, Token
  <2>3. \A p \in DOMAIN wire : p \in DOMAIN wire' /\ wire'[p] = wire[p]
    BY <2>1, <2>2, AppendTo
  <2>4. Successive(wire')
    BY <2>1, <2>2, SuccessiveAppend DEF BInv
  <2> QED
    BY <2>1, <2>3, <2>4, NothingBuffered
<1>3. CASE ReadHeader
  BY <1>3, HeaderBuffered
<1>4. CASE ReadPiece
  BY <1>4, PieceBuffered
<1>5. CASE Deal
  BY <1>5, DealBuffered
<1>6. CASE Kick
  <2>1. /\ cut' = "quiet" /\ who' = who /\ sent' = sent /\ dealt' = dealt /\ wire' = wire
    BY <1>6 DEF Kick
  <2> QED
    BY <2>1 DEF BInv, Buffered, DealtAsAnnounced, Aligned
<1> QED
  BY <1>1, <1>2, <1>3, <1>4, <1>5, <1>6 DEF Next

(* A message that fits its header is followed by what it announces, or by  *)
(* more; as much of it as that are its name and its body.                  *)
LEMMA FittingMessage ==
    ASSUME NEW m \in Message, Fits(m), NEW id
    PROVE  Announced(m) <= Pieces(m) /\ Cut(id, m) = Written(id, m)
<1>1. m.name \in Nat /\ m.body \in Nat /\ m.squeezed \in Nat /\ MaxBody \in Nat
      /\ NameWidth \in Nat \ {0}
  BY StreamAssumption DEF Message
<1>2. NameLength(m) = m.name
  BY <1>1 DEF Fits, NameLength
<1>3. BodyLength(m) \in Nat /\ BodyLength(m) <= m.body
  BY <1>1 DEF Fits, BodyLength, Compressed
<1>4. Announced(m) <= Pieces(m)
  BY <1>1, <1>2, <1>3 DEF Announced, Pieces
<1> QED
  BY <1>2, <1>4 DEF Cut, Written

(* Whatever is sent, however long it is and however it is compressed, deal *)
(* is called for the headers in their order, by a session always and by a  *)
(* client up to the first message that is followed by something else than  *)
(* its header announces; and it is given the name and the body that were   *)
(* written, if the name fits the field for its length and compress() had   *)
(* no error.  If they do not, a session still takes pieces of that message *)
(* and of no other for them.                                               *)
THEOREM DealtAsSent == Spec => []InStep
<1>1. IInv /\ BInv => InStep
  <2> SUFFICES ASSUME IInv, BInv, NEW i \in DOMAIN dealt,
                      who = "session" \/ \A j \in 1 .. i - 1 : ~Misframed(sent[j])
               PROVE  /\ dealt[i].head = i
                      /\ Fits(sent[i]) => dealt[i] = Written(i, sent[i])
                      /\ who = "session" =>
                            /\ \A j \in DOMAIN dealt[i].name : dealt[i].name[j][1] = i
                            /\ \A j \in DOMAIN dealt[i].body : dealt[i].body[j][1] = i
    BY DEF InStep
  <2>1. who = "session" \/ Aligned(i - 1)
    <3>1. who = "session" \/ Exactly(i - 1)
      BY DEF Exactly
    <3> QED
      BY <3>1, ExactlyAligned DEF IInv
  <2>2. dealt[i].head = i
    BY <2>1 DEF IInv, DealtInOrder
  <2>3. ASSUME Fits(sent[i])
        PROVE  dealt[i] = Written(i, sent[i])
    <3>1. i \in Nat /\ \A k \in DOMAIN sent : sent[k] \in Message
      BY Typing DEF IInv
    <3>2. i \in DOMAIN sent => Announced(sent[i]) <= Pieces(sent[i])
      BY <2>3, <3>1, FittingMessage
    <3>3. who = "session" \/ Aligned(i)
      <4>1. \A j \in 1 .. i : j \in 1 .. i - 1 \/ j = i
        BY <3>1
      <4> QED
        BY <2>1, <3>2, <4>1 DEF Aligned
    <3>4. i \in DOMAIN sent /\ dealt[i] = Cut(i, sent[i])
      BY <3>3 DEF BInv, DealtAsAnnounced
    <3> QED
      BY <2>3, <3>1, <3>4, FittingMessage
  <2>4. ASSUME who = "session"
        PROVE  /\ \A j \in DOMAIN dealt[i].name : dealt[i].name[j][1] = i
               /\ \A j \in DOMAIN dealt[i].body : dealt[i].body[j][1] = i
    <3>1. dealt[i] = Cut(i, sent[i])
      BY <2>4 DEF BInv, DealtAsAnnounced
    <3> QED
      BY <3>1 DEF Cut
  <2> QED
    BY <2>2, <2>3, <2>4
<1>2. IInv /\ IInv' /\ BInv /\ [Next]_vars => BInv'
  BY NextBInv
<1> QED
  BY Invariance, InitBInv, <1>1, <1>2, PTL DEF Spec

-----------------------------------------------------------------------------
(* What a spoilt message leaves on the stream.  Once its header has been   *)
(* taken, a piece too many lies behind those the reader still waits for,   *)
(* where it will look for the next header; it takes no message behind it.  *)
PieceTooMany ==
    who = "session" /\ cut = "no" /\ (\E i \in 1 .. Taken : i \in DOMAIN sent /\ Spoilt(sent[i]))
        => Awaited + 1 \in DOMAIN wire /\ wire[Awaited + 1][2] # 0

LastTaken ==
    who = "session" =>
        \A i \in DOMAIN sent : Spoilt(sent[i]) =>
            Len(dealt) <= i /\ (cut = "no" => Taken <= i)

EInv == PieceTooMany /\ LastTaken

LEMMA InitEInv == Init => EInv
<1> SUFFICES ASSUME Init PROVE EInv
  OBVIOUS
<1>1. sent = <<>> /\ DOMAIN sent = {}
  BY DEF Init
<1> QED
  BY <1>1 DEF EInv, PieceTooMany, LastTaken

(* A step that takes nothing from the stream and may add something to it.  *)
LEMMA NothingTaken ==
    ASSUME IInv, IInv', EInv, cut' = cut, who' = who, dealt' = dealt,
           at' = at, missing' = missing, sent' = sent \/ cut = "no",
           \A i \in DOMAIN sent : i \in DOMAIN sent' /\ sent'[i] = sent[i],
           \A p \in DOMAIN wire : p \in DOMAIN wire' /\ wire'[p] = wire[p]
    PROVE  EInv'
<1>1. /\ Len(sent) \in Nat /\ DOMAIN sent = 1 .. Len(sent) /\ Taken \in Nat
      /\ Len(dealt) \in Nat /\ DOMAIN sent' = 1 .. Len(sent)' /\ Len(sent)' \in Nat
  BY Typing DEF IInv
<1>2. Taken' = Taken /\ Awaited' = Awaited
  BY DEF Taken, Awaited
<1>3. who = "session" /\ cut = "no" => Taken <= Len(sent)
  BY DEF IInv, SessionAligned, Structure
<1>4. Len(dealt) <= Taken
  BY <1>1 DEF Taken
<1>5. ASSUME NEW i \in DOMAIN sent', i \notin DOMAIN sent
      PROVE  who = "session" /\ cut = "no" => Taken < i
  BY <1>1, <1>3, <1>5
<1>6. PieceTooMany'
  <2> SUFFICES ASSUME who = "session", cut = "no",
                      NEW i \in 1 .. Taken, i \in DOMAIN sent', Spoilt(sent'[i])
               PROVE  Awaited + 1 \in DOMAIN wire' /\ wire'[Awaited + 1][2] # 0
    BY <1>2 DEF PieceTooMany, Spoilt, Misframed
  <2>1. i \in DOMAIN sent
    BY <1>1, <1>5
  <2>2. Awaited + 1 \in DOMAIN wire /\ wire[Awaited + 1][2] # 0
    BY <2>1 DEF EInv, PieceTooMany
  <2> QED
    BY <2>2
<1>7. LastTaken'
  <2> SUFFICES ASSUME who = "session", NEW i \in DOMAIN sent', Spoilt(sent'[i])
               PROVE  Len(dealt) <= i /\ (cut = "no" => Taken <= i)
    BY <1>2 DEF LastTaken
  <2>1. CASE i \in DOMAIN sent
    BY <2>1 DEF EInv, LastTaken
  <2>2. CASE i \notin DOMAIN sent
    <3>1. cut = "no" /\ Taken < i
      BY <1>5, <2>2
    <3> QED
      BY <1>1, <1>4, <3>1
  <2> QED
    BY <2>1, <2>2
<1> QED
  BY <1>6, <1>7 DEF EInv

(* A piece is taken: the one too many comes closer.                        *)
LEMMA PieceTaken ==
    ASSUME IInv, EInv, ReadPiece
    PROVE  EInv'
<1>1. /\ cut = "no" /\ at = "body" /\ wire # <<>>
      /\ cut' = cut /\ who' = who /\ sent' = sent /\ dealt' = dealt
      /\ missing' = missing - 1 /\ at' = (IF missing = 1 THEN "deal" ELSE "body")
      /\ wire' = Tail(wire)
  BY DEF ReadPiece
<1>2. wire \in Seq(Token) /\ missing \in Nat /\ missing > 0
  BY <1>1, Typing DEF IInv, TypeOK
<1>3. /\ Len(wire) \in Nat \ {0} /\ DOMAIN wire = 1 .. Len(wire)
      /\ DOMAIN wire' = 1 .. Len(wire) - 1
      /\ \A p \in 1 .. Len(wire) - 1 : wire'[p] = wire[p + 1]
  BY <1>1, <1>2, TailOf
<1>4. Taken' = Taken /\ Awaited = missing /\ Awaited' = missing - 1
  BY <1>1, <1>2 DEF Taken, Awaited
<1>5. PieceTooMany'
  <2> SUFFICES ASSUME who = "session",
                      NEW i \in 1 .. Taken, i \in DOMAIN sent, Spoilt(sent[i])
               PROVE  missing - 1 + 1 \in DOMAIN wire' /\ wire'[missing - 1 + 1][2] # 0
    BY <1>1, <1>4 DEF PieceTooMany
  <2>1. missing + 1 \in DOMAIN wire /\ wire[missing + 1][2] # 0
    BY <1>1, <1>4 DEF EInv, PieceTooMany
  <2>2. missing \in 1 .. Len(wire) - 1 /\ missing - 1 + 1 = missing
    BY <1>2, <1>3, <2>1
  <2> QED
    BY <1>3, <2>1, <2>2
<1>6. LastTaken'
  BY <1>1, <1>4 DEF EInv, LastTaken
<1> QED
  BY <1>5, <1>6 DEF EInv

LEMMA MessageDealt ==
    ASSUME IInv, EInv, Deal
    PROVE  EInv'
<1>1. /\ cut = "no" /\ at = "deal" /\ cut' = cut /\ who' = who /\ sent' = sent /\ wire' = wire
      /\ at' = "header" /\ dealt' = Append(dealt, Taking)
  BY DEF Deal, Taking
<1>2. Len(dealt') = Len(dealt) + 1
  <2>1. dealt \in Seq(Dealt) /\ Taking \in Dealt
    BY <1>1, TakingOf DEF IInv, TypeOK
  <2> QED
    BY <1>1, <2>1, AppendTo
<1>3. Taken' = Taken /\ Awaited' = Awaited /\ Len(dealt') = Taken
  BY <1>1, <1>2 DEF Taken, Awaited
<1>4. PieceTooMany'
  BY <1>1, <1>3 DEF EInv, PieceTooMany
<1>5. LastTaken'
  BY <1>1, <1>3 DEF EInv, LastTaken
<1> QED
  BY <1>4, <1>5 DEF EInv

(* The header of a message that a session accepts is not behind a spoilt   *)
(* one; if it is that of one itself, more follows than it announces.       *)
LEMMA HeaderTaken ==
    ASSUME IInv, IInv', EInv, ReadHeader
    PROVE  EInv'
<1> DEFINE n == Len(dealt)
<1>1. /\ cut = "no" /\ at = "header" /\ wire # <<>>
      /\ wire' = Tail(wire) /\ who' = who /\ sent' = sent /\ dealt' = dealt
      /\ GivesUp \/ ReadsKeepAlive \/ ReadsHead
  BY ReadHeaderCases DEF IInv
<1>2. /\ wire \in Seq(Token) /\ n \in Nat
      /\ Len(sent) \in Nat /\ DOMAIN sent = 1 .. Len(sent)
      /\ \A i \in 1 .. Len(sent) : sent[i] \in Message /\ sent[i] \in Messages[who]
  BY Typing DEF IInv
<1>3. Head(wire) = wire[1] /\ wire[1] \in Token /\ 1 \in DOMAIN wire
  BY <1>1, <1>2, TailOf
<1>4. Taken = n /\ Awaited = 0 /\ Awaited + 1 = 1
  BY <1>1 DEF Taken, Awaited
<1>5. CASE who # "session"
  BY <1>1, <1>5 DEF EInv, PieceTooMany, LastTaken
<1>6. CASE who = "session" /\ cut' # "no"
  BY <1>1, <1>6 DEF EInv, PieceTooMany, LastTaken
<1>7. CASE who = "session" /\ cut' = "no"
  <2>1. IsHead(wire[1])
    BY <1>1, <1>3, <1>7 DEF ReadHeader, ValidHead
  <2>2. ASSUME NEW i \in 1 .. n, i \in DOMAIN sent, Spoilt(sent[i])
        PROVE  FALSE
    <3>1. wire[1][2] # 0
      BY <1>1, <1>4, <1>7, <2>2 DEF EInv, PieceTooMany
    <3> QED
      BY <2>1, <3>1 DEF IsHead
  <2>3. CASE ReadsKeepAlive
    <3>1. at' = at /\ missing' = missing
      BY <2>3 DEF ReadsKeepAlive
    <3>2. Taken' = n
      BY <1>1, <3>1 DEF Taken
    <3>3. PieceTooMany'
      BY <1>1, <2>2, <3>2 DEF PieceTooMany
    <3>4. LastTaken'
      BY <1>1, <1>4, <3>2 DEF EInv, LastTaken
    <3> QED
      BY <3>3, <3>4 DEF EInv
  <2>4. CASE ReadsHead
    <3>1. /\ FrameHead(wire[1]) /\ missing' = Announced(sent[wire[1][1]])
          /\ at' = (IF missing' = 0 THEN "deal" ELSE "body")
          /\ BodyLength(sent[wire[1][1]]) <= MaxBody
      BY <1>3, <1>7, <2>4 DEF ReadsHead
    <3>2. Aligned(n)
      BY <1>1, <1>4, <1>7 DEF IInv, SessionAligned
    <3>3. /\ wire[1][1] = n + 1
          /\ \A j \in 1 .. Pieces(sent[n + 1]) : j \in DOMAIN Tail(wire) /\ Tail(wire)[j][2] # 0
      BY <1>1, <3>1, <3>2, NextIsHeader
    <3>4. n + 1 \in DOMAIN sent /\ sent[n + 1] \in Message /\ ~sent[n + 1].exact
      <4>1. wire[1][1] \in 1 .. Len(sent)
        BY <1>3, <3>1 DEF IInv, Tokens
      <4> QED
        BY <1>2, <1>7, <3>3, <4>1, StreamAssumption
    <3>5. missing' \in Nat /\ Pieces(sent[n + 1]) \in Nat /\ missing' <= Pieces(sent[n + 1])
      BY <3>1, <3>3, <3>4, Numbers, AcceptedFits
    <3>6. Taken' = n + 1 /\ Awaited' = missing'
      BY <1>1, <3>1 DEF Taken, Awaited
    <3>7. PieceTooMany'
      <4> SUFFICES ASSUME NEW i \in 1 .. n + 1, i \in DOMAIN sent, Spoilt(sent[i])
                   PROVE  missing' + 1 \in DOMAIN wire' /\ wire'[missing' + 1][2] # 0
        BY <1>1, <3>6 DEF PieceTooMany
      <4>1. i = n + 1
        BY <1>2, <2>2
      <4>2. ~(BodyLength(sent[n + 1]) > MaxBody)
        BY <3>1, <3>3, <3>4, Numbers, StreamAssumption
      <4>3. missing' # Pieces(sent[n + 1])
        BY <3>1, <3>3, <4>1, <4>2 DEF Spoilt, Misframed
      <4>4. missing' + 1 \in 1 .. Pieces(sent[n + 1])
        <5>1. \A a, b \in Nat : a <= b /\ a # b => a + 1 \in 1 .. b
          OBVIOUS
        <5> QED
          BY <3>5, <4>3, <5>1, Zenon
      <4>5. \A j \in 1 .. Pieces(sent[n + 1]) : j \in DOMAIN wire' /\ wire'[j][2] # 0
        BY <1>1, <3>3, Zenon
      <4> QED
        BY <4>4, <4>5, Zenon
    <3>8. LastTaken'
      <4> SUFFICES ASSUME NEW i \in DOMAIN sent, Spoilt(sent[i])
                   PROVE  n <= i /\ n + 1 <= i
        BY <1>1, <3>6 DEF LastTaken
      <4>1. i \notin 1 .. n
        BY <2>2
      <4> QED
        BY <1>2, <4>1
    <3> QED
      BY <3>7, <3>8 DEF EInv
  <2>5. ~GivesUp
    BY <1>7 DEF GivesUp
  <2> QED
    BY <1>1, <2>3, <2>4, <2>5
<1> QED
  BY <1>5, <1>6, <1>7

LEMMA NextEInv ==
    ASSUME IInv, IInv', EInv, [Next]_vars
    PROVE  EInv'
<1>1. CASE WriteMessage
  <2>1. PICK m \in Messages[who] :
            /\ sent' = Append(sent, m)
            /\ wire' = wire \o Frame(Len(sent) + 1, m)
    BY <1>1 DEF WriteMessage
  <2>2. /\ cut = "no" /\ cut' = cut /\ who' = who /\ dealt' = dealt
        /\ at' = at /\ missing' = missing
    BY <1>1 DEF WriteMessage, reading
  <2>3. /\ wire \in Seq(Token) /\ sent \in Seq(Message) /\ m \in Message
        /\ Len(sent) \in Nat /\ Len(sent) < MaxSent
        /\ \A p \in DOMAIN wire : FrameHead(wire[p]) => wire[p][1] \in 1 .. Len(sent)
    BY <1>1, StreamAssumption, Typing DEF IInv, Tokens, WriteMessage
  <2>4. \A i \in DOMAIN sent : i \in DOMAIN sent' /\ sent'[i] = sent[i]
    BY <2>1, <2>3, AppendTo
  <2>5. \A p \in DOMAIN wire : p \in DOMAIN wire' /\ wire'[p] = wire[p]
    <3>1. 0 \in Nat /\ 0 <= Len(sent) + 1
      BY <2>3
    <3> QED
      BY <2>1, <2>3, <3>1, AddFrame
  <2> QED
    BY <2>2, <2>4, <2>5, NothingTaken
<1>2. CASE Connected \/ KeepAlive \/ Tick \/ UNCHANGED vars
  <2>1. /\ cut' = cut /\ who' = who /\ sent' = sent /\ dealt' = dealt
        /\ at' = at /\ missing' = missing
        /\ wire' = wire \/ wire' = Append(wire, KeepAlived)
    BY <1>2 DEF Connected, KeepAlive, Tick, vars, reading
  <2>2. wire \in Seq(Token) /\ KeepAlived \in Token
    BY StreamAssumption, Typing DEF IInv, KeepAlived, Token
  <2>3. \A p \in DOMAIN wire : p \in DOMAIN wire' /\ wire'[p] = wire[p]
    BY <2>1, <2>2, AppendTo
  <2> QED
    BY <2>1, <2>3, NothingTaken
<1>3. CASE ReadHeader
  BY <1>3, HeaderTaken
<1>4. CASE ReadPiece
  BY <1>4, PieceTaken
<1>5. CASE Deal
  BY <1>5, MessageDealt
<1>6. CASE Kick
  <2>1. cut' = "quiet" /\ who' = who /\ sent' = sent /\ dealt' = dealt
    BY <1>6 DEF Kick
  <2> QED
    BY <2>1 DEF EInv, PieceTooMany, LastTaken
<1> QED
  BY <1>1, <1>2, <1>3, <1>4, <1>5, <1>6 DEF Next

(* Whatever follows a spoilt message, and however much of it, a session    *)
(* deals with none of it, and while it has not given up the stream it has  *)
(* something to read: reading on alone ends in giving up.                  *)
THEOREM NothingBehindSpoilt == Spec => []SpoiltEndsIt
<1>1. IInv /\ EInv => SpoiltEndsIt
  <2> SUFFICES ASSUME IInv, EInv, who = "session", NEW i \in DOMAIN sent, Spoilt(sent[i]), cut = "no"
               PROVE  wire # <<>>
    BY DEF SpoiltEndsIt, EInv, LastTaken, CanGoOn
  <2>1. /\ wire \in Seq(Token) /\ Taken \in Nat
        /\ Len(sent) \in Nat /\ DOMAIN sent = 1 .. Len(sent)
    BY Typing DEF IInv
  <2>2. CASE i \in 1 .. Taken
    <3>1. Awaited + 1 \in DOMAIN wire
      BY <2>2 DEF EInv, PieceTooMany
    <3> QED
      BY <3>1
  <2>3. CASE i \in Taken + 1 .. Len(sent)
    <3>1. Ordered(wire, Taken + 1, Len(sent))
      BY DEF IInv, SessionAligned, Structure
    <3>2. PICK p \in DOMAIN wire : wire[p][1] = i
      BY <2>3, <3>1 DEF Ordered
    <3> QED
      BY <3>2
  <2> QED
    BY <2>1, <2>2, <2>3
<1>2. IInv /\ IInv' /\ EInv /\ [Next]_vars => EInv'
  BY NextEInv
<1> QED
  BY Invariance, InitEInv, <1>1, <1>2, PTL DEF Spec

(* Any message that a client compresses is spoilt, unless it compresses to *)
(* exactly its own length.                                                 *)
THEOREM CompressedIsSpoilt ==
    ASSUME NEW m \in Messages["session"], m.body >= Threshold, m.squeezed # m.body
    PROVE  Spoilt(m)
<1>1. m \in Message /\ ~m.exact /\ Threshold \in Nat /\ MaxBody \in Nat
  BY StreamAssumption
<1>2. m.name \in Nat /\ m.body \in Nat /\ m.squeezed \in Nat
  BY <1>1 DEF Message
<1>3. NameLength(m) \in Nat /\ NameLength(m) <= m.name
  BY <1>1, Numbers
<1>4. BodyLength(m) = IF m.squeezed <= m.body THEN m.squeezed ELSE MaxBody + 1
  BY <1>1, <1>2 DEF BodyLength, Compressed, ErrorCode
<1>5. CASE m.squeezed <= m.body
  <2>1. Announced(m) = NameLength(m) + m.squeezed /\ Pieces(m) = m.name + m.body
    BY <1>1, <1>4, <1>5 DEF Announced, Pieces
  <2> QED
    BY <1>2, <1>3, <1>5, <2>1 DEF Spoilt, Misframed
<1>6. CASE m.squeezed > m.body
  BY <1>1, <1>2, <1>4, <1>6 DEF Spoilt
<1> QED
  BY <1>2, <1>5, <1>6

-----------------------------------------------------------------------------
(* Time.  How long ago the timer was started, and how long it takes until  *)
(* the next keepalive at most.                                             *)
Elapsed == Quiet - kick

Wait == IF half = 1 THEN sleep ELSE sleep + Half

(* At every point of the reader the time since the start of the timer is   *)
(* bounded: by the wait for a keepalive, and by Delay for each step taken  *)
(* since.                                                                  *)
InTime ==
    /\ ~alive => half = 1 /\ wire = <<>> /\ at = "header" /\ Elapsed <= idle
    /\ alive /\ at = "header" /\ wire = <<>> => Elapsed + Wait <= 2 * Half
    /\ alive /\ at = "header" /\ wire # <<>> => Elapsed <= 2 * Half + idle
    /\ at = "body" => /\ missing <= Announced(sent[message])
                      /\ Elapsed <= 2 * Half + Delay * (1 + Announced(sent[message]) - missing) + idle
    /\ at = "deal" => Elapsed <= 2 * Half + Delay * (1 + Announced(sent[message])) + idle

KInv == (who = "session" /\ cut = "no" => InTime) /\ KickedIfSlow

LEMMA InitKInv == Init => KInv
<1> SUFFICES ASSUME Init PROVE KInv
  OBVIOUS
<1>1. Quiet - Quiet = 0
  BY StreamAssumption
<1> QED
  BY <1>1 DEF Init, KInv, InTime, KickedIfSlow, Elapsed, Wait

(* A session between messages has not waited too long, and in a message    *)
(* it has something to read.                                               *)
LEMMA BodyIsThere ==
    ASSUME IInv, who = "session", cut = "no", at = "body"
    PROVE  wire # <<>>
<1>1. Aligned(Taken) /\ Awaited = missing /\ missing \in Nat /\ missing > 0
  BY DEF IInv, SessionAligned, Awaited, TypeOK
<1>2. 1 \in 1 .. missing
  BY <1>1
<1>3. 1 \in DOMAIN wire
  BY <1>1, <1>2 DEF IInv, Structure
<1> QED
  BY <1>3

LEMMA TimeTypes ==
    ASSUME TypeOK, Tokens
    PROVE  /\ Quiet \in Nat /\ Half \in Nat /\ Delay \in Nat
           /\ kick \in 0 .. Quiet /\ sleep \in 0 .. Half /\ idle \in 0 .. Delay
           /\ half \in {1, 2} /\ alive \in BOOLEAN /\ missing \in Nat
           /\ at # "header" => Announced(sent[message]) \in Nat
<1>1. at # "header" => sent[message] \in Message
  BY Typing DEF Tokens
<1> QED
  BY <1>1, Numbers, StreamAssumption DEF TypeOK

LEMMA KickIsLate ==
    ASSUME IInv, KInv, Kick, Delay <= Half, 2 * Half + Delay < Quiet
    PROVE  KInv'
<1>1. /\ who = "session" /\ cut = "no" /\ kick = 0 /\ cut' = "quiet"
      /\ at' = at /\ message' = message /\ sent' = sent /\ missing' = missing
  BY DEF Kick, reading
<1>2. InTime /\ Elapsed = Quiet
  BY <1>1, StreamAssumption DEF KInv, Elapsed
<1>3. /\ Quiet \in Nat /\ Half \in Nat /\ Delay \in Nat /\ idle \in 0 .. Delay
      /\ sleep \in 0 .. Half /\ half \in {1, 2} /\ alive \in BOOLEAN /\ missing \in Nat
      /\ at # "header" => Announced(sent[message]) \in Nat
  BY TimeTypes DEF IInv
<1>4. at # "header"
  <2>1. Wait \in Nat
    BY <1>3 DEF Wait
  <2> QED
    BY <1>2, <1>3, <2>1 DEF InTime
<1>5. at = "body" \/ at = "deal"
  BY <1>4 DEF IInv, TypeOK
<1> DEFINE a == Announced(sent[message])
<1>6. CASE at = "deal"
  <2>1. Quiet <= 2 * Half + Delay * (1 + a) + Delay
    BY <1>2, <1>3, <1>4, <1>6 DEF InTime
  <2>2. Delay * (1 + a) + Delay = Delay * (a + 2)
    BY <1>3, <1>4
  <2> QED
    BY <1>1, <1>3, <1>4, <2>1, <2>2 DEF KInv, KickedIfSlow
<1>7. CASE at = "body"
  <2>1. Quiet <= 2 * Half + Delay * (1 + a - missing) + Delay /\ missing <= a
    BY <1>2, <1>3, <1>4, <1>7 DEF InTime
  <2>2. Delay * (1 + a - missing) + Delay = Delay * (a + 2) - Delay * missing
    BY <1>3, <1>4
  <2>3. Delay * missing >= 0
    BY <1>3
  <2>4. 2 * Half + Delay * (a + 2) >= Quiet
    BY <1>3, <1>4, <2>1, <2>2, <2>3
  <2> QED
    BY <1>1, <1>4, <2>4 DEF KInv, KickedIfSlow
<1> QED
  BY <1>5, <1>6, <1>7

(* Writing starts the time that the reader takes, if it had nothing to do. *)
LEMMA WriteInTime ==
    ASSUME IInv, KInv, WriteMessage
    PROVE  KInv'
<1>1. PICK m \in Messages[who] : sent' = Append(sent, m) /\ wire' = wire \o Frame(Len(sent) + 1, m)
  BY DEF WriteMessage
<1>2. /\ cut = "no" /\ (who = "session" => alive) /\ cut' = cut /\ who' = who
      /\ at' = at /\ message' = message /\ missing' = missing
      /\ kick' = kick /\ alive' = alive /\ half' = half /\ sleep' = sleep
      /\ idle' = IF CanGoOn THEN idle ELSE 0
  BY DEF WriteMessage, reading, keeping
<1>3. /\ Quiet \in Nat /\ Half \in Nat /\ Delay \in Nat
      /\ kick \in 0 .. Quiet /\ sleep \in 0 .. Half /\ idle \in 0 .. Delay
      /\ half \in {1, 2} /\ alive \in BOOLEAN /\ missing \in Nat
      /\ at # "header" => Announced(sent[message]) \in Nat
  BY TimeTypes DEF IInv
<1>4. at # "header" => sent'[message] = sent[message]
  <2>1. sent \in Seq(Messages[who])
    BY DEF IInv, TypeOK
  <2> QED
    BY <1>1, <2>1, AppendTo DEF IInv, Tokens
<1>5. wire' # <<>>
  <2>1. wire \in Seq(Token) /\ m \in Message /\ Len(sent) + 1 \in 1 .. MaxSent
    <3>1. Messages[who] \subseteq Message
      BY StreamAssumption DEF IInv, Tokens
    <3>2. wire \in Seq(Token) /\ Len(sent) \in Nat
      BY Typing DEF IInv
    <3>3. MaxSent \in Nat /\ Len(sent) < MaxSent
      BY StreamAssumption DEF WriteMessage
    <3> QED
      BY <1>1, <3>1, <3>2, <3>3
  <2>2. Frame(Len(sent) + 1, m) \in Seq(Token) /\ Len(Frame(Len(sent) + 1, m)) = 1 + Pieces(m)
    BY <2>1, FrameOf
  <2>3. Frame(Len(sent) + 1, m) # <<>>
    <3>1. Pieces(m) \in Nat
      BY <2>1, Numbers
    <3>2. Len(<<>>) = 0
      OBVIOUS
    <3> QED
      BY <2>2, <3>1, <3>2
  <2> QED
    BY <1>1, <2>1, <2>2, <2>3, ConcatEqualIffEmpty
<1>6. KickedIfSlow'
  BY <1>2 DEF KickedIfSlow
<1>7. ASSUME who = "session"
      PROVE  InTime'
  <2>1. InTime /\ alive
    BY <1>2, <1>7 DEF KInv
  <2>2. ASSUME at = "header"
        PROVE  Elapsed <= 2 * Half + idle'
    <3>1. Wait \in Nat
      BY <1>3 DEF Wait
    <3>2. CASE wire = <<>>
      <4>1. Elapsed + Wait <= 2 * Half /\ idle' = 0
        BY <1>2, <2>1, <2>2, <3>2 DEF InTime, CanGoOn
      <4> QED
        BY <1>3, <3>1, <4>1 DEF Elapsed
    <3>3. CASE wire # <<>>
      BY <1>2, <2>1, <2>2, <3>3 DEF InTime, CanGoOn
    <3> QED
      BY <3>2, <3>3
  <2>3. at = "body" => wire # <<>>
    BY <1>2, <1>7, BodyIsThere
  <2>4. at = "body" \/ at = "deal" => idle' = idle
    BY <1>2, <2>3 DEF CanGoOn
  <2> QED
    BY <1>2, <1>4, <1>5, <2>1, <2>2, <2>4 DEF InTime, Elapsed
<1> QED
  BY <1>2, <1>6, <1>7 DEF KInv

LEMMA OthersInTime ==
    ASSUME IInv, KInv, Connected \/ KeepAlive \/ Tick, Delay <= Half
    PROVE  KInv'
<1>1. /\ Quiet \in Nat /\ Half \in Nat /\ Delay \in Nat
      /\ kick \in 0 .. Quiet /\ sleep \in 0 .. Half /\ idle \in 0 .. Delay
      /\ half \in {1, 2} /\ alive \in BOOLEAN /\ missing \in Nat
      /\ at # "header" => Announced(sent[message]) \in Nat
  BY TimeTypes DEF IInv
<1>2. /\ who = "session" /\ cut = "no" /\ cut' = cut /\ who' = who /\ sent' = sent
      /\ at' = at /\ message' = message /\ missing' = missing
  BY DEF Connected, KeepAlive, Tick, reading
<1>3. InTime /\ KickedIfSlow'
  BY <1>2 DEF KInv, KickedIfSlow
<1>4. CASE Connected
  BY <1>1, <1>2, <1>3, <1>4 DEF Connected, KInv, InTime, Elapsed, Wait
<1>5. CASE KeepAlive
  <2>1. kick' = kick /\ alive' = alive /\ sleep = 0 /\ sleep' = Half
    BY <1>5 DEF KeepAlive
  <2>2. CASE half = 1 /\ alive
    <3>1. /\ wire' = Append(wire, KeepAlived) /\ half' = 2
          /\ idle' = IF CanGoOn THEN idle ELSE 0
      BY <1>5, <2>2 DEF KeepAlive
    <3>2. wire' # <<>>
      <4>1. wire \in Seq(Token) /\ KeepAlived \in Token
        BY Typing, StreamAssumption DEF IInv, KeepAlived, Token
      <4> QED
        BY <3>1, <4>1, AppendProperties
    <3>3. at = "body" => wire # <<>>
      BY <1>2, BodyIsThere
    <3>4. at = "body" \/ at = "deal" => idle' = idle
      BY <3>1, <3>3 DEF CanGoOn
    <3>5. ASSUME at = "header"
          PROVE  Elapsed <= 2 * Half + idle'
      <4>1. CASE wire = <<>>
        <5>1. Elapsed + 0 <= 2 * Half /\ idle' = 0
          BY <1>3, <2>1, <2>2, <3>1, <3>5, <4>1 DEF InTime, Wait, CanGoOn
        <5> QED
          BY <1>1, <5>1 DEF Elapsed
      <4>2. CASE wire # <<>>
        BY <1>3, <2>2, <3>1, <3>5, <4>2 DEF InTime, CanGoOn
      <4> QED
        BY <4>1, <4>2
    <3> QED
      BY <1>2, <1>3, <2>1, <2>2, <3>2, <3>4, <3>5 DEF KInv, InTime, Elapsed
  <2>3. CASE ~(half = 1 /\ alive)
    <3>1. wire' = wire /\ idle' = idle /\ half' = 1
      BY <1>5, <2>3 DEF KeepAlive
    <3>2. alive => Wait = 0 + Half /\ Wait' = Half
      BY <2>1, <2>3, <3>1 DEF Wait
    <3>3. alive => Wait' = Wait
      BY <1>1, <3>2
    <3> QED
      BY <1>2, <1>3, <2>1, <3>1, <3>3 DEF KInv, InTime, Elapsed
  <2> QED
    BY <2>2, <2>3
<1>6. CASE Tick
  <2>1. /\ kick' = kick - 1 /\ sleep' = sleep - 1 /\ kick > 0 /\ sleep > 0
        /\ idle' = (IF CanGoOn \/ ~alive THEN idle + 1 ELSE 0)
        /\ wire' = wire /\ alive' = alive /\ half' = half
    BY <1>6 DEF Tick
  <2>2. Elapsed' = Elapsed + 1 /\ Elapsed \in Nat
    BY <1>1, <2>1, StreamAssumption DEF Elapsed
  <2>3. Wait' = Wait - 1
    BY <1>1, <2>1 DEF Wait
  <2>4. at = "body" => wire # <<>>
    BY <1>2, BodyIsThere
  <2>5. ~alive => half' = 1 /\ wire' = <<>> /\ at' = "header" /\ Elapsed' <= idle'
    BY <1>1, <1>2, <1>3, <2>1, <2>2 DEF InTime
  <2>6. alive /\ at = "header" /\ wire = <<>> => Elapsed' + Wait' <= 2 * Half
    <3>1. Wait \in Nat
      BY <1>1 DEF Wait
    <3> QED
      BY <1>1, <1>3, <2>2, <2>3, <3>1 DEF InTime
  <2>7. CanGoOn => idle' = idle + 1
    BY <2>1
  <2>8. alive /\ at = "header" /\ wire # <<>> => Elapsed' <= 2 * Half + idle'
    BY <1>1, <1>3, <2>2, <2>7 DEF InTime, CanGoOn
  <2>9. at = "body" => /\ missing <= Announced(sent[message])
                       /\ Elapsed' <= 2 * Half + Delay * (1 + Announced(sent[message]) - missing) + idle'
    <3> SUFFICES ASSUME at = "body"
                 PROVE  /\ missing <= Announced(sent[message])
                        /\ Elapsed' <= 2 * Half + Delay * (1 + Announced(sent[message]) - missing) + idle'
      OBVIOUS
    <3>1. PICK d : d = Delay * (1 + Announced(sent[message]) - missing)
      OBVIOUS
    <3>2. d \in Int /\ idle' = idle + 1
      BY <1>1, <2>4, <2>7, <3>1 DEF CanGoOn
    <3>3. missing <= Announced(sent[message]) /\ Elapsed <= 2 * Half + d + idle
      BY <1>3, <3>1 DEF InTime
    <3> QED
      BY <1>1, <2>2, <3>1, <3>2, <3>3
  <2>10. at = "deal" => Elapsed' <= 2 * Half + Delay * (1 + Announced(sent[message])) + idle'
    <3> SUFFICES ASSUME at = "deal"
                 PROVE  Elapsed' <= 2 * Half + Delay * (1 + Announced(sent[message])) + idle'
      OBVIOUS
    <3>1. PICK d : d = Delay * (1 + Announced(sent[message]))
      OBVIOUS
    <3>2. d \in Int /\ idle' = idle + 1
      BY <1>1, <2>7, <3>1 DEF CanGoOn
    <3>3. Elapsed <= 2 * Half + d + idle
      BY <1>3, <3>1 DEF InTime
    <3> QED
      BY <1>1, <2>2, <3>1, <3>2, <3>3
  <2> QED
    BY <1>2, <1>3, <2>1, <2>5, <2>6, <2>8, <2>9, <2>10 DEF KInv, InTime
<1> QED
  BY <1>4, <1>5, <1>6

LEMMA ReaderInTime ==
    ASSUME IInv, KInv, ReadHeader \/ ReadPiece \/ Deal
    PROVE  KInv'
<1>1. /\ Quiet \in Nat /\ Half \in Nat /\ Delay \in Nat
      /\ kick \in 0 .. Quiet /\ sleep \in 0 .. Half /\ idle \in 0 .. Delay
      /\ half \in {1, 2} /\ alive \in BOOLEAN /\ missing \in Nat
      /\ at # "header" => Announced(sent[message]) \in Nat
  BY TimeTypes DEF IInv
<1>2. /\ cut = "no" /\ who' = who /\ sent' = sent /\ idle' = 0
      /\ alive' = alive /\ half' = half /\ sleep' = sleep
      /\ cut' \in {"no", "invalid", "astray"}
  <2>1. CASE ReadHeader
    BY <2>1, ReadHeaderCases DEF IInv, GivesUp, ReadsKeepAlive, ReadsHead
  <2>2. CASE ReadPiece \/ Deal
    BY <2>2 DEF ReadPiece, Deal, keeping
  <2> QED
    BY <2>1, <2>2
<1>3. KickedIfSlow'
  BY <1>2 DEF KickedIfSlow
<1> SUFFICES ASSUME who = "session", cut' = "no"
             PROVE  InTime'
  BY <1>2, <1>3 DEF KInv
<1>4. InTime /\ Wait \in Nat /\ Wait <= 2 * Half /\ Wait' = Wait
  BY <1>1, <1>2 DEF KInv, Wait
<1>5. alive
  BY <1>4 DEF InTime, ReadHeader, ReadPiece, Deal
<1>6. ASSUME kick' = Quiet, at' = "header"
      PROVE  InTime'
  <2>1. Elapsed' = 0
    BY <1>1, <1>6 DEF Elapsed
  <2> QED
    BY <1>1, <1>2, <1>4, <1>5, <1>6, <2>1 DEF InTime
<1>7. CASE Deal
  BY <1>6, <1>7 DEF Deal, Restarted
<1>8. CASE ReadPiece
  <2>1. /\ at = "body" /\ message' = message /\ kick' = kick /\ missing' = missing - 1
        /\ at' = (IF missing = 1 THEN "deal" ELSE "body")
    BY <1>8 DEF ReadPiece
  <2>2. PICK a : a = Announced(sent[message])
    OBVIOUS
  <2>3. PICK d : d = Delay * (1 + a - missing)
    OBVIOUS
  <2>4. missing <= a /\ Elapsed <= 2 * Half + d + idle /\ a \in Nat
    BY <1>1, <1>4, <2>1, <2>2, <2>3 DEF InTime
  <2>5. d \in Int /\ Delay * (1 + a - (missing - 1)) = d + Delay
    BY <1>1, <2>3, <2>4
  <2>6. Elapsed \in Int /\ Elapsed' = Elapsed /\ Elapsed <= 2 * Half + (d + Delay)
    BY <1>1, <2>1, <2>4, <2>5 DEF Elapsed
  <2>7. missing - 1 <= a
    BY <1>1, <2>4
  <2>8. CASE missing = 1
    <3>1. 1 + a - (missing - 1) = 1 + a /\ at' = "deal"
      BY <2>1, <2>4, <2>8
    <3>2. Elapsed' <= 2 * Half + Delay * (1 + a) + 0
      BY <1>1, <2>4, <2>5, <2>6, <3>1
    <3> QED
      BY <1>2, <1>5, <2>1, <2>2, <3>1, <3>2 DEF InTime
  <2>9. CASE missing # 1
    <3>1. Elapsed' <= 2 * Half + Delay * (1 + a - missing') + 0
      BY <1>1, <2>1, <2>5, <2>6
    <3> QED
      BY <1>2, <1>5, <2>1, <2>2, <2>7, <2>9, <3>1 DEF InTime
  <2> QED
    BY <2>8, <2>9
<1>9. CASE ReadHeader
  <2>1. at = "header" /\ wire # <<>> /\ (GivesUp \/ ReadsKeepAlive \/ ReadsHead)
    BY <1>9, ReadHeaderCases DEF IInv
  <2>2. CASE ReadsKeepAlive
    BY <1>6, <2>1, <2>2 DEF ReadsKeepAlive
  <2>3. CASE ReadsHead
    <3>1. /\ missing' = Announced(sent[message']) /\ kick' = kick
          /\ at' = (IF missing' = 0 THEN "deal" ELSE "body")
      BY <2>3 DEF ReadsHead
    <3>2. missing' \in Nat
      BY <1>9, ReadHeaderTypes DEF IInv, TypeOK
    <3>3. Elapsed' = Elapsed /\ Elapsed \in Int /\ Elapsed <= 2 * Half + Delay
      BY <1>1, <1>4, <1>5, <2>1, <3>1 DEF InTime, Elapsed
    <3>4. Elapsed' <= 2 * Half + Delay * (1 + missing' - missing') + 0
      <4>1. \A k \in Nat : 1 + k - k = 1
        OBVIOUS
      <4>2. Delay * 1 = Delay
        BY <1>1
      <4>3. Delay * (1 + missing' - missing') = Delay
        BY <3>2, <4>1, <4>2
      <4> QED
        BY <1>1, <3>3, <4>3
    <3>5. missing' = 0 => Elapsed' <= 2 * Half + Delay * (1 + missing') + 0
      BY <1>1, <3>3
    <3> QED
      BY <1>2, <1>5, <3>1, <3>2, <3>4, <3>5 DEF InTime
  <2> QED
    BY <2>1, <2>2, <2>3 DEF GivesUp
<1> QED
  BY <1>7, <1>8, <1>9

(* If no step of the reader takes longer than one sleep of the keepalive   *)
(* thread, and two of them and one such step are shorter than the time     *)
(* that the session allows, the session gives up a client in the middle of *)
(* a message only, and not before it has had two sleeps and a step for the *)
(* header, for every piece and for deal().                                 *)
THEOREM KicksAreLate ==
    ASSUME Delay <= Half, 2 * Half + Delay < Quiet
    PROVE  Spec => []KickedIfSlow
<1>1. IInv /\ KInv /\ [Next]_vars => KInv'
  <2> SUFFICES ASSUME IInv, KInv, [Next]_vars PROVE KInv'
    OBVIOUS
  <2>1. CASE UNCHANGED vars
    BY <2>1 DEF vars, reading, keeping, KInv, InTime, KickedIfSlow, Elapsed, Wait
  <2> QED
    BY <2>1, WriteInTime, OthersInTime, ReaderInTime, KickIsLate DEF Next
<1>2. KInv => KickedIfSlow
  BY DEF KInv
<1> QED
  BY Invariance, InitKInv, <1>1, <1>2, PTL DEF Spec
=============================================================================
