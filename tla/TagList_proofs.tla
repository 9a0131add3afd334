--------------------------- MODULE TagList_proofs ---------------------------
(***************************************************************************)
(* Proofs about lists of tags: what splitting and joining compute, for     *)
(* every string and every list.  The recursion of Split and of Join is     *)
(* unfolded once and for all; induction is over the length.                *)
(***************************************************************************)
EXTENDS TagList, SequenceTheorems, FiniteSetTheorems, WellFoundedInduction, TLAPS

-----------------------------------------------------------------------------
(* Sequences of whatever: what their elements are.                         *)
ElementsOf(q) == {q[i] : i \in DOMAIN q}
List(q) == q \in Seq(ElementsOf(q))

LEMMA FunctionIsSeq ==
    ASSUME NEW E, NEW n \in Nat, NEW q \in [1 .. n -> E]
    PROVE  q \in Seq(E)
<1>1. Seq(E) = UNION {[1 .. m -> E] : m \in Nat}
  BY SeqDef
<1> QED
  BY <1>1

LEMMA ListOf ==
    ASSUME NEW S, NEW q \in Seq(S)
    PROVE  List(q) /\ ElementsOf(q) \subseteq S
<1>1. DOMAIN q = 1 .. Len(q) /\ Len(q) \in Nat /\ q \in [1 .. Len(q) -> S]
  BY LenProperties
<1>2. q \in [1 .. Len(q) -> ElementsOf(q)]
  BY <1>1 DEF ElementsOf
<1>3. List(q)
  <2>1. \A E : \A n \in Nat : q \in [1 .. n -> E] => q \in Seq(E)
    BY FunctionIsSeq
  <2>2. q \in Seq(ElementsOf(q))
    BY <1>1, <1>2, <2>1
  <2> QED
    BY <2>2 DEF List
<1>4. ElementsOf(q) \subseteq S
  BY <1>1 DEF ElementsOf
<1> QED
  BY <1>3, <1>4

LEMMA EmptyList == List(<<>>) /\ ElementsOf(<<>>) = {}
<1>1. ElementsOf(<<>>) = {}
  BY DEF ElementsOf
<1>2. \A S : <<>> \in Seq(S)
  BY EmptySeq
<1> QED
  BY <1>1, <1>2 DEF List

LEMMA ListTail ==
    ASSUME NEW q, List(q), q # <<>>
    PROVE  Head(q) \in ElementsOf(q) /\ List(Tail(q)) /\ ElementsOf(Tail(q)) \subseteq ElementsOf(q)
<1>1. Head(q) \in ElementsOf(q) /\ Tail(q) \in Seq(ElementsOf(q))
  BY HeadTailProperties DEF List
<1> QED
  BY <1>1, ListOf

LEMMA ListAppend ==
    ASSUME NEW q, List(q), NEW e
    PROVE  /\ List(Append(q, e)) /\ Append(q, e) # <<>>
           /\ ElementsOf(Append(q, e)) \subseteq ElementsOf(q) \cup {e}
<1> DEFINE S == ElementsOf(q) \cup {e}
<1>1. q \in Seq(S)
  BY SeqMonotonic DEF List
<1>2. Append(q, e) \in Seq(S) /\ Append(q, e) # <<>>
  BY <1>1, AppendProperties
<1> QED
  BY <1>2, ListOf

LEMMA ListAppendAt ==
    ASSUME NEW q, List(q), NEW e
    PROVE  /\ List(Append(q, e)) /\ Len(q) \in Nat /\ DOMAIN q = 1 .. Len(q)
           /\ DOMAIN Append(q, e) = 1 .. Len(q) + 1
           /\ \A i \in DOMAIN q : Append(q, e)[i] = q[i]
           /\ Append(q, e)[Len(q) + 1] = e
<1> DEFINE S == ElementsOf(q) \cup {e}
<1>1. q \in Seq(S)
  BY SeqMonotonic DEF List
<1> HIDE DEF S
<1>2. Len(q) \in Nat /\ DOMAIN q = 1 .. Len(q)
  BY <1>1, LenProperties
<1>3. e \in S
  BY DEF S
<1>4. /\ Append(q, e) \in Seq(S)
      /\ Len(Append(q, e)) = Len(q) + 1
      /\ \A i \in 1 .. Len(q) : Append(q, e)[i] = q[i]
      /\ Append(q, e)[Len(q) + 1] = e
  BY <1>1, <1>3, AppendProperties
<1>5. DOMAIN Append(q, e) = 1 .. Len(q) + 1
  BY <1>4, LenProperties
<1> QED
  BY <1>2, <1>4, <1>5, ListAppend

LEMMA ListConcat ==
    ASSUME NEW p, List(p), NEW q, List(q)
    PROVE  List(p \o q) /\ ElementsOf(p \o q) \subseteq ElementsOf(p) \cup ElementsOf(q)
<1> DEFINE S == ElementsOf(p) \cup ElementsOf(q)
<1>1. p \in Seq(S) /\ q \in Seq(S)
  BY SeqMonotonic DEF List
<1>2. p \o q \in Seq(S)
  BY <1>1, ConcatProperties
<1> QED
  BY <1>2, ListOf

LEMMA OneElement ==
    ASSUME NEW e
    PROVE  List(<<e>>) /\ ElementsOf(<<e>>) \subseteq {e}
<1>1. <<e>> \in Seq({e})
  OBVIOUS
<1>2. List(<<e>>) /\ ElementsOf(<<e>>) \subseteq {e}
  BY <1>1, ListOf
<1> QED
  BY <1>2

LEMMA TwoElements ==
    ASSUME NEW d, NEW e
    PROVE  List(<<d, e>>) /\ ElementsOf(<<d, e>>) \subseteq {d, e}
<1>1. <<d, e>> \in Seq({d, e})
  OBVIOUS
<1>2. List(<<d, e>>) /\ ElementsOf(<<d, e>>) \subseteq {d, e}
  BY <1>1, ListOf
<1> QED
  BY <1>2

-----------------------------------------------------------------------------
(* Induction, with a set in place of a predicate.                          *)
LEMMA Least ==
    ASSUME NEW S, S \subseteq Nat, S # {}
    PROVE  \E x \in S : \A y \in S : x <= y
<1>1. \E x \in S : \A y \in S : ~ (<<y, x>> \in OpToRel(<, Nat))
  BY WFMin, NatLessThanWellFounded
<1>2. \A x, y \in Nat : <<x, y>> \in OpToRel(<, Nat) <=> x < y
  BY DEF OpToRel
<1>3. PICK R : /\ \E x \in S : \A y \in S : <<y, x>> \notin R
               /\ \A x, y \in Nat : <<x, y>> \in R <=> x < y
  BY <1>1, <1>2, Zenon
<1>4. PICK x \in S : \A y \in S : <<y, x>> \notin R
  BY <1>3
<1>5. ASSUME NEW y \in S PROVE x <= y
  <2>1. x \in Nat /\ y \in Nat /\ <<y, x>> \notin R
    BY <1>4
  <2>2. ~(y < x)
    BY <1>3, <2>1
  <2> QED
    BY <2>1, <2>2
<1> QED
  BY <1>5

LEMMA Induct ==
    ASSUME NEW P, 0 \in P, \A n \in Nat : n \in P => n + 1 \in P
    PROVE  \A n \in Nat : n \in P
<1>1. PICK S : S = {n \in Nat : n \notin P}
  OBVIOUS
<1>2. ASSUME S # {}
      PROVE  FALSE
  <2>1. PICK m \in S : \A y \in S : m <= y
    BY <1>1, <1>2, Least
  <2>2. m \in Nat \ {0} /\ m - 1 \in Nat /\ m - 1 \notin S /\ (m - 1) + 1 = m
    BY <1>1, <2>1
  <2> QED
    BY <1>1, <2>1, <2>2
<1> QED
  BY <1>1, <1>2
-----------------------------------------------------------------------------
(* Where a string is cut.                                                  *)
First(s) == Min(Separators(s))
FrontTag(s) == SubSeq(s, 1, First(s) - 1)
Behind(s) == SubSeq(s, First(s) + 2, Len(s))

LEMMA SeparatorAt ==
    ASSUME NEW s, List(s), NEW i \in 1 .. Len(s) - 1
    PROVE  i \in Separators(s) <=> s[i] = "|" /\ s[i + 1] = "|"
<1>1. PICK E : s \in Seq(E) /\ "|" \in E
  <2>1. s \in Seq(ElementsOf(s) \cup {"|"})
    BY SeqMonotonic DEF List
  <2> QED
    BY <2>1
<1>2. PICK t : t = SubSeq(s, i, i + 1)
  OBVIOUS
<1>3. Len(s) \in Nat /\ i \in Int /\ i + 1 \in Int /\ \A j \in i .. i + 1 : s[j] \in E
  BY <1>1, LenProperties, ElementOfSeq
<1>4. t \in Seq(E) /\ Len(t) = 2 /\ t[1] = s[i] /\ t[2] = s[i + 1]
  BY <1>2, <1>3, SubSeqProperties
<1>5. Separator \in Seq(E) /\ Len(Separator) = 2 /\ Separator[1] = "|" /\ Separator[2] = "|"
  BY <1>1 DEF Separator
<1>6. t = Separator <=> t[1] = "|" /\ t[2] = "|"
  BY <1>4, <1>5, SeqEqual
<1> QED
  BY <1>2, <1>4, <1>6 DEF Separators

LEMMA FirstSeparator ==
    ASSUME NEW s, List(s), Separators(s) # {}
    PROVE  /\ First(s) \in Separators(s) /\ First(s) \in 1 .. Len(s) - 1 /\ Len(s) \in Nat
           /\ \A i \in Separators(s) : First(s) <= i
<1>1. Len(s) \in Nat /\ Separators(s) \subseteq 1 .. Len(s) - 1
  BY LenProperties DEF List, Separators
<1>2. \E x \in Separators(s) : \A y \in Separators(s) : x <= y
  BY <1>1, Least
<1>3. First(s) \in Separators(s) /\ \A y \in Separators(s) : First(s) <= y
  BY <1>2 DEF First, Min
<1> QED
  BY <1>1, <1>3

LEMMA CutString ==
    ASSUME NEW E, NEW s \in Seq(E), Separators(s) # {}
    PROVE  /\ FrontTag(s) \in Seq(E) /\ Len(FrontTag(s)) = First(s) - 1
           /\ \A i \in 1 .. First(s) - 1 : FrontTag(s)[i] = s[i]
           /\ Behind(s) \in Seq(E) /\ Len(Behind(s)) = Len(s) - First(s) - 1
           /\ \A i \in 1 .. Len(s) - First(s) - 1 : Behind(s)[i] = s[First(s) + 1 + i]
           /\ Len(s) \in Nat /\ First(s) \in 1 .. Len(s) - 1
<1>1. First(s) \in 1 .. Len(s) - 1 /\ Len(s) \in Nat
  BY ListOf, FirstSeparator
<1>2. PICK n, p : n = Len(s) /\ p = First(s)
  OBVIOUS
<1>3. n \in Nat /\ p \in 1 .. n - 1 /\ \A i \in 1 .. n : s[i] \in E
  BY <1>1, <1>2, ElementOfSeq
<1>4. /\ FrontTag(s) \in Seq(E) /\ Len(FrontTag(s)) = p - 1
      /\ \A i \in 1 .. p - 1 : FrontTag(s)[i] = s[i]
  <2>1. 1 \in Int /\ p - 1 \in Int /\ \A i \in 1 .. p - 1 : s[i] \in E
    BY <1>3
  <2>2. PICK f : f = SubSeq(s, 1, p - 1)
    OBVIOUS
  <2>3. /\ f \in Seq(E) /\ Len(f) = IF 1 <= p - 1 THEN (p - 1) - 1 + 1 ELSE 0
        /\ \A i \in 1 .. (p - 1) - 1 + 1 : f[i] = s[1 + i - 1]
    BY <2>1, <2>2, SubSeqProperties
  <2>4. FrontTag(s) = f
    BY <1>2, <2>2 DEF FrontTag
  <2>5. Len(f) = p - 1 /\ \A i \in 1 .. p - 1 : f[i] = s[i]
    BY <1>3, <2>3
  <2> QED
    BY <2>3, <2>4, <2>5
<1>5. /\ Behind(s) \in Seq(E) /\ Len(Behind(s)) = n - p - 1
      /\ \A i \in 1 .. n - p - 1 : Behind(s)[i] = s[p + 1 + i]
  <2>1. p + 2 \in Int /\ n \in Int /\ \A i \in p + 2 .. n : s[i] \in E
    BY <1>3
  <2>2. PICK f : f = SubSeq(s, p + 2, n)
    OBVIOUS
  <2>3. /\ f \in Seq(E) /\ Len(f) = IF p + 2 <= n THEN n - (p + 2) + 1 ELSE 0
        /\ \A i \in 1 .. n - (p + 2) + 1 : f[i] = s[p + 2 + i - 1]
    BY <2>1, <2>2, SubSeqProperties
  <2>4. Behind(s) = f
    BY <1>2, <2>2 DEF Behind
  <2>5. Len(f) = n - p - 1 /\ \A i \in 1 .. n - p - 1 : f[i] = s[p + 1 + i]
    BY <1>3, <2>3
  <2> QED
    BY <2>3, <2>4, <2>5
<1> QED
  BY <1>2, <1>3, <1>4, <1>5
-----------------------------------------------------------------------------
(* split, where it calls f in place of itself.                             *)
SplitStep(f, s) ==
    IF Separators(s) = {} THEN <<s>> ELSE <<FrontTag(s)>> \o f[Behind(s)]

Short(E, n) == {s \in Seq(E) : Len(s) <= n}

(* What split is for a string only depends on what is behind a separator.  *)
LEMMA SplitStepSame ==
    ASSUME NEW s, NEW f, NEW g, Separators(s) # {} => f[Behind(s)] = g[Behind(s)]
    PROVE  SplitStep(f, s) = SplitStep(g, s)
BY DEF SplitStep

LEMMA ShortIsPlain ==
    ASSUME NEW E, NEW s \in Seq(E), Len(s) <= 1
    PROVE  Separators(s) = {}
<1>1. Len(s) \in Nat
  BY LenProperties
<1>2. 1 .. Len(s) - 1 = {}
  BY <1>1
<1> QED
  BY <1>2 DEF Separators

LEMMA BehindIsShort ==
    ASSUME NEW E, NEW n \in Nat, NEW s \in Short(E, n + 1), Separators(s) # {}
    PROVE  Behind(s) \in Short(E, n)
<1>1. s \in Seq(E) /\ Len(s) <= n + 1
  BY DEF Short
<1>2. /\ Behind(s) \in Seq(E) /\ Len(Behind(s)) = Len(s) - First(s) - 1
      /\ Len(s) \in Nat /\ First(s) \in 1 .. Len(s) - 1
  BY <1>1, CutString
<1> QED
  BY <1>1, <1>2 DEF Short

LEMMA SplitOnce ==
    ASSUME NEW E, NEW N \in Nat, NEW f, NEW g,
           \A s \in Short(E, N) : f[s] = SplitStep(f, s) /\ g[s] = SplitStep(g, s)
    PROVE  \A s \in Short(E, N) : f[s] = g[s]
<1>1. PICK P : P = {n \in Nat : \A s \in Short(E, N) : Len(s) <= n => f[s] = g[s]}
  OBVIOUS
<1>2. \A s \in Short(E, N) : s \in Seq(E) /\ List(s) /\ Len(s) \in Nat /\ Len(s) <= N
  BY ListOf, LenProperties DEF Short
<1>3. ASSUME NEW s \in Short(E, N), Separators(s) # {}
      PROVE  Behind(s) \in Short(E, N) /\ Len(Behind(s)) + 1 <= Len(s)
  <2>1. /\ Behind(s) \in Seq(E) /\ Len(Behind(s)) = Len(s) - First(s) - 1
        /\ Len(s) \in Nat /\ First(s) \in 1 .. Len(s) - 1
    BY <1>2, <1>3, CutString
  <2> QED
    BY <1>2, <2>1 DEF Short
<1>4. 0 \in P
  <2>1. ASSUME NEW s \in Short(E, N), Len(s) <= 0
        PROVE  f[s] = g[s]
    <3>1. Separators(s) = {}
      BY <1>2, <2>1, ShortIsPlain
    <3> QED
      BY <3>1, SplitStepSame
  <2> QED
    BY <1>1, <2>1
<1>5. ASSUME NEW n \in Nat, n \in P
      PROVE  n + 1 \in P
  <2>1. ASSUME NEW s \in Short(E, N), Len(s) <= n + 1
        PROVE  f[s] = g[s]
    <3>1. ASSUME Separators(s) # {}
          PROVE  f[Behind(s)] = g[Behind(s)]
      <4>1. Behind(s) \in Short(E, N) /\ Len(Behind(s)) + 1 <= Len(s)
        BY <1>3, <3>1
      <4>2. Len(Behind(s)) \in Nat /\ Len(s) \in Nat
        BY <1>2, <4>1
      <4>3. Len(Behind(s)) <= n
        BY <2>1, <4>1, <4>2
      <4> QED
        BY <1>1, <1>5, <4>1, <4>3
    <3> QED
      BY <3>1, SplitStepSame
  <2> QED
    BY <1>1, <2>1
<1>6. N \in P
  BY <1>4, <1>5, Induct
<1> QED
  BY <1>1, <1>2, <1>6

LEMMA SplitThere ==
    ASSUME NEW E
    PROVE  \A n \in Nat : \E f : \A s \in Short(E, n) : f[s] = SplitStep(f, s)
<1>1. PICK P : P = {n \in Nat : \E f : \A s \in Short(E, n) : f[s] = SplitStep(f, s)}
  OBVIOUS
<1>2. 0 \in P
  <2>1. ASSUME NEW s \in Short(E, 0)
        PROVE  Separators(s) = {}
    <3>1. s \in Seq(E) /\ Len(s) <= 0
      BY DEF Short
    <3> QED
      BY <3>1, ShortIsPlain
  <2>2. PICK f : f = [s \in Short(E, 0) |-> <<s>>]
    OBVIOUS
  <2>3. \A s \in Short(E, 0) : f[s] = SplitStep(f, s)
    BY <2>1, <2>2 DEF SplitStep
  <2> QED
    BY <1>1, <2>3
<1>3. ASSUME NEW n \in Nat, n \in P
      PROVE  n + 1 \in P
  <2>1. PICK f : \A s \in Short(E, n) : f[s] = SplitStep(f, s)
    BY <1>1, <1>3
  <2>2. PICK g : g = [s \in Short(E, n + 1) |-> SplitStep(f, s)]
    OBVIOUS
  <2>3. Short(E, n) \subseteq Short(E, n + 1)
    BY LenProperties DEF Short
  <2>4. \A s \in Short(E, n) : g[s] = f[s]
    BY <2>1, <2>2, <2>3
  <2>5. ASSUME NEW s \in Short(E, n + 1)
        PROVE  g[s] = SplitStep(g, s)
    <3>1. Separators(s) # {} => f[Behind(s)] = g[Behind(s)]
      BY <2>4, BehindIsShort
    <3>2. SplitStep(f, s) = SplitStep(g, s)
      BY <3>1, SplitStepSame
    <3> QED
      BY <2>2, <3>2
  <2> QED
    BY <1>1, <2>5
<1> QED
  <2>1. \A n \in Nat : n \in P
    BY <1>2, <1>3, Induct
  <2> QED
    BY <1>1, <2>1

LEMMA SplitFunction ==
    ASSUME NEW E
    PROVE  \E f : f = [s \in Seq(E) |-> SplitStep(f, s)]
<1> DEFINE Upto(n) == CHOOSE f : \A s \in Short(E, n) : f[s] = SplitStep(f, s)
<1>1. \A n \in Nat : \A s \in Short(E, n) : Upto(n)[s] = SplitStep(Upto(n), s)
  BY SplitThere
<1> HIDE DEF Upto
<1>2. PICK f : f = [s \in Seq(E) |-> Upto(Len(s))[s]]
  OBVIOUS
<1>3. ASSUME NEW s \in Seq(E)
      PROVE  f[s] = SplitStep(f, s)
  <2>1. PICK n : n = Len(s)
    OBVIOUS
  <2>2. n \in Nat /\ s \in Short(E, n)
    BY <2>1, LenProperties DEF Short
  <2>3. f[s] = SplitStep(Upto(n), s)
    BY <1>1, <1>2, <2>1, <2>2
  <2>4. ASSUME Separators(s) # {}
        PROVE  f[Behind(s)] = Upto(n)[Behind(s)]
    <3>1. PICK r, m : r = Behind(s) /\ m = Len(r)
      OBVIOUS
    <3>2. r \in Seq(E) /\ m \in Nat /\ m <= n
      <4>1. /\ r \in Seq(E) /\ m = n - First(s) - 1
            /\ n \in Nat /\ First(s) \in 1 .. n - 1
        BY <2>1, <2>4, <3>1, CutString
      <4> QED
        BY <4>1
    <3>3. r \in Short(E, m) /\ Short(E, m) \subseteq Short(E, n)
      BY <2>2, <3>1, <3>2, LenProperties DEF Short
    <3>4. PICK g, h : g = Upto(m) /\ h = Upto(n)
      OBVIOUS
    <3>5. \A t \in Short(E, m) : g[t] = SplitStep(g, t) /\ h[t] = SplitStep(h, t)
      BY <1>1, <2>2, <3>2, <3>3, <3>4
    <3>6. g[r] = h[r]
      BY <3>2, <3>3, <3>5, SplitOnce
    <3>7. f[r] = g[r]
      BY <1>2, <3>1, <3>2, <3>4
    <3> QED
      BY <3>1, <3>4, <3>6, <3>7
  <2> QED
    BY <2>3, <2>4, SplitStepSame
<1>4. f = [s \in Seq(E) |-> SplitStep(f, s)]
  BY <1>2, <1>3
<1> QED
  BY <1>4

(* Split() calls itself for what is behind the first separator.            *)
LEMMA SplitUnfold ==
    ASSUME NEW s, List(s)
    PROVE  Split(s) = IF Separators(s) = {} THEN <<s>> ELSE <<FrontTag(s)>> \o Split(Behind(s))
<1> DEFINE SplitOn(E) == CHOOSE split : split = [r \in Seq(E) |-> SplitStep(split, r)]
<1>1. \A r : Split(r) = SplitOn(ElementsOf(r))[r]
  BY DEF Split, ElementsOf, SplitStep, FrontTag, Behind, First
<1>2. \A E : SplitOn(E) = [r \in Seq(E) |-> SplitStep(SplitOn(E), r)]
  BY SplitFunction
<1> HIDE DEF SplitOn
<1>3. \A E : \A r \in Seq(E) : SplitOn(E)[r] = SplitStep(SplitOn(E), r)
  BY <1>2
<1>4. PICK E, f : E = ElementsOf(s) /\ f = SplitOn(E)
  OBVIOUS
<1>5. s \in Seq(E) /\ Split(s) = SplitStep(f, s)
  BY <1>1, <1>3, <1>4 DEF List
<1>6. ASSUME Separators(s) # {}
      PROVE  f[Behind(s)] = Split(Behind(s))
  <2>1. PICK r, D, g : r = Behind(s) /\ D = ElementsOf(r) /\ g = SplitOn(D)
    OBVIOUS
  <2>2. r \in Seq(E)
    BY <1>5, <1>6, <2>1, CutString
  <2>3. r \in Seq(D) /\ D \subseteq E /\ Len(r) \in Nat
    BY <2>1, <2>2, ListOf, LenProperties DEF List
  <2>4. r \in Short(D, Len(r)) /\ \A t \in Short(D, Len(r)) : t \in Seq(D) /\ t \in Seq(E)
    BY <2>3, SeqMonotonic DEF Short
  <2>5. \A t \in Short(D, Len(r)) : f[t] = SplitStep(f, t) /\ g[t] = SplitStep(g, t)
    BY <1>3, <1>4, <2>1, <2>4
  <2>6. f[r] = g[r]
    BY <2>3, <2>4, <2>5, SplitOnce
  <2>7. Split(r) = g[r]
    BY <1>1, <2>1
  <2> QED
    BY <2>1, <2>6, <2>7
<1> QED
  BY <1>5, <1>6 DEF SplitStep

(* Tags without a separator, out of characters in E.                       *)
Plain(E) == {t \in Seq(E) : Separators(t) = {}}

(* What is in front of the first separator is a tag.                       *)
LEMMA FrontIsPlain ==
    ASSUME NEW E, NEW s \in Seq(E), Separators(s) # {}
    PROVE  FrontTag(s) \in Plain(E)
<1>1. PICK t, p, n : t = FrontTag(s) /\ p = First(s) /\ n = Len(s)
  OBVIOUS
<1>2. /\ t \in Seq(E) /\ Len(t) = p - 1 /\ \A i \in 1 .. p - 1 : t[i] = s[i]
      /\ n \in Nat /\ p \in 1 .. n - 1
  BY <1>1, CutString
<1>3. List(s) /\ List(t) /\ \A i \in Separators(s) : p <= i
  BY <1>1, <1>2, ListOf, FirstSeparator
<1>4. ASSUME NEW i \in Separators(t)
      PROVE  FALSE
  <2>1. i \in 1 .. Len(t) - 1 /\ i \in 1 .. p - 2
    BY <1>2 DEF Separators
  <2>2. t[i] = "|" /\ t[i + 1] = "|"
    BY <1>3, <2>1, SeparatorAt
  <2>3. i \in 1 .. p - 1 /\ i + 1 \in 1 .. p - 1 /\ i \in 1 .. n - 1 /\ ~(p <= i)
    BY <1>2, <2>1
  <2>4. s[i] = "|" /\ s[i + 1] = "|"
    BY <1>2, <2>2, <2>3
  <2>5. i \in Separators(s)
    BY <1>1, <1>3, <2>3, <2>4, SeparatorAt
  <2> QED
    BY <1>3, <2>3, <2>5
<1> QED
  BY <1>1, <1>2, <1>4 DEF Plain

(* A string is cut into one or more tags none of which has a separator.    *)
THEOREM SplitIsPlain ==
    ASSUME NEW E, NEW s \in Seq(E)
    PROVE  Split(s) \in Seq(Plain(E)) /\ Split(s) # <<>>
<1>1. PICK P : P = {n \in Nat : \A r \in Seq(E) : Len(r) <= n => Split(r) \in Seq(Plain(E)) /\ Split(r) # <<>>}
  OBVIOUS
<1>2. ASSUME NEW r \in Seq(E), Separators(r) = {}
      PROVE  Split(r) \in Seq(Plain(E)) /\ Split(r) # <<>>
  <2>1. Split(r) = <<r>> /\ r \in Plain(E)
    BY <1>2, ListOf, SplitUnfold DEF Plain
  <2> QED
    BY <2>1
<1>3. 0 \in P
  <2>1. ASSUME NEW r \in Seq(E), Len(r) <= 0
        PROVE  Separators(r) = {}
    <3>1. Len(r) <= 1
      BY <2>1, LenProperties
    <3> QED
      BY <3>1, ShortIsPlain
  <2> QED
    BY <1>1, <1>2, <2>1
<1>4. ASSUME NEW n \in Nat, n \in P
      PROVE  n + 1 \in P
  <2>1. ASSUME NEW r \in Seq(E), Len(r) <= n + 1, Separators(r) # {}
        PROVE  Split(r) \in Seq(Plain(E)) /\ Split(r) # <<>>
    <3>1. PICK t, b : t = FrontTag(r) /\ b = Behind(r)
      OBVIOUS
    <3>2. b \in Seq(E) /\ Len(b) <= n
      <4>1. /\ b \in Seq(E) /\ Len(b) = Len(r) - First(r) - 1
            /\ Len(r) \in Nat /\ First(r) \in 1 .. Len(r) - 1
        BY <2>1, <3>1, CutString
      <4> QED
        BY <2>1, <4>1
    <3>3. PICK q : q = Split(b)
      OBVIOUS
    <3>4. q \in Seq(Plain(E)) /\ t \in Plain(E)
      BY <1>1, <1>4, <2>1, <3>1, <3>2, <3>3, FrontIsPlain
    <3>5. Split(r) = <<t>> \o q
      BY <2>1, <3>1, <3>3, ListOf, SplitUnfold
    <3> QED
      BY <3>4, <3>5
  <2> QED
    BY <1>1, <1>2, <2>1
<1>5. Len(s) \in Nat /\ Len(s) \in P
  BY <1>3, <1>4, Induct, LenProperties
<1> QED
  BY <1>1, <1>5
-----------------------------------------------------------------------------
(* FlattenSeq likewise, which is how lists are joined.                     *)
FlatStep(f, q, i) == IF i = 1 THEN q[i] ELSE f[i - 1] \o q[i]

LEMMA FlatFunction ==
    ASSUME NEW q, NEW N \in Nat
    PROVE  \E f : f = [i \in 1 .. N |-> FlatStep(f, q, i)]
<1>1. PICK P : P = {n \in Nat : \E f : \A i \in 1 .. n : f[i] = FlatStep(f, q, i)}
  OBVIOUS
<1>2. 0 \in P
  BY <1>1
<1>3. ASSUME NEW n \in Nat, n \in P
      PROVE  n + 1 \in P
  <2>1. PICK f : \A i \in 1 .. n : f[i] = FlatStep(f, q, i)
    BY <1>1, <1>3
  <2>2. PICK g : g = [i \in 1 .. n + 1 |-> FlatStep(f, q, i)]
    OBVIOUS
  <2>3. \A i \in 1 .. n : i \in 1 .. n + 1 /\ g[i] = f[i]
    BY <2>1, <2>2
  <2>4. ASSUME NEW i \in 1 .. n + 1
        PROVE  g[i] = FlatStep(g, q, i)
    <3>1. i # 1 => i - 1 \in 1 .. n
      OBVIOUS
    <3>2. FlatStep(f, q, i) = FlatStep(g, q, i)
      BY <2>3, <3>1 DEF FlatStep
    <3> QED
      BY <2>2, <3>2
  <2> QED
    BY <1>1, <2>4
<1>4. N \in P
  BY <1>2, <1>3, Induct
<1>5. PICK f : \A i \in 1 .. N : f[i] = FlatStep(f, q, i)
  BY <1>1, <1>4
<1>6. PICK g : g = [i \in 1 .. N |-> f[i]]
  OBVIOUS
<1>7. ASSUME NEW i \in 1 .. N
      PROVE  g[i] = FlatStep(g, q, i)
  <2>1. i # 1 => i - 1 \in 1 .. N
    OBVIOUS
  <2>2. FlatStep(f, q, i) = FlatStep(g, q, i)
    BY <1>6, <2>1 DEF FlatStep
  <2> QED
    BY <1>5, <1>6, <2>2
<1>8. g = [i \in 1 .. N |-> FlatStep(g, q, i)]
  BY <1>6, <1>7
<1> QED
  BY <1>8

LEMMA FlattenIs ==
    ASSUME NEW S, NEW q \in Seq(S), q # <<>>
    PROVE  \E f : /\ FlattenSeq(q) = f[Len(q)]
                  /\ \A i \in 1 .. Len(q) : f[i] = FlatStep(f, q, i)
<1>1. Len(q) \in Nat \ {0}
  BY EmptySeq
<1>2. PICK f : f = CHOOSE flatten : flatten = [i \in 1 .. Len(q) |-> FlatStep(flatten, q, i)]
  OBVIOUS
<1>3. FlattenSeq(q) = f[Len(q)]
  BY <1>1, <1>2 DEF FlattenSeq, FlatStep
<1>4. f = [i \in 1 .. Len(q) |-> FlatStep(f, q, i)]
  BY <1>1, <1>2, FlatFunction, SMTT(30)
<1>5. \A i \in 1 .. Len(q) : f[i] = FlatStep(f, q, i)
  BY <1>4
<1> QED
  BY <1>3, <1>5

LEMMA FlatType ==
    ASSUME NEW C, NEW N \in Nat, NEW q, \A i \in 1 .. N : q[i] \in Seq(C),
           NEW f, \A i \in 1 .. N : f[i] = FlatStep(f, q, i)
    PROVE  \A i \in 1 .. N : f[i] \in Seq(C)
<1>1. PICK P : P = {n \in Nat : n \in 1 .. N => f[n] \in Seq(C)}
  OBVIOUS
<1>2. 0 \in P
  BY <1>1
<1>3. ASSUME NEW n \in Nat, n \in P
      PROVE  n + 1 \in P
  <2>1. SUFFICES ASSUME n + 1 \in 1 .. N
                 PROVE  f[n + 1] \in Seq(C)
    BY <1>1
  <2>2. CASE n = 0
    BY <2>1, <2>2 DEF FlatStep
  <2>3. CASE n # 0
    <3>1. n + 1 # 1 /\ (n + 1) - 1 = n /\ n \in 1 .. N
      BY <2>1, <2>3
    <3>2. f[n + 1] = f[n] \o q[n + 1]
      BY <2>1, <3>1 DEF FlatStep
    <3>3. f[n] \in Seq(C) /\ q[n + 1] \in Seq(C)
      BY <1>1, <1>3, <2>1, <3>1
    <3> QED
      BY <3>2, <3>3, ConcatProperties
  <2> QED
    BY <2>2, <2>3
<1>4. \A n \in Nat : n \in P
  BY <1>2, <1>3, Induct
<1> QED
  BY <1>1, <1>4

LEMMA FlattenUnfold ==
    ASSUME NEW C, NEW q \in Seq(Seq(C)), q # <<>>
    PROVE  /\ FlattenSeq(q) \in Seq(C)
           /\ Len(q) = 1 => FlattenSeq(q) = q[1]
           /\ Len(q) # 1 => FlattenSeq(q) = q[1] \o FlattenSeq(Tail(q))
<1>1. PICK n, r : n = Len(q) /\ r = Tail(q)
  OBVIOUS
<1>2. /\ n \in Nat \ {0} /\ r \in Seq(Seq(C)) /\ Len(r) = n - 1
      /\ \A i \in 1 .. n : q[i] \in Seq(C)
      /\ \A i \in 1 .. n - 1 : r[i] = q[i + 1]
  BY <1>1, EmptySeq, HeadTailProperties, ElementOfSeq
<1>3. PICK f : FlattenSeq(q) = f[n] /\ \A i \in 1 .. n : f[i] = FlatStep(f, q, i)
  BY <1>1, FlattenIs
<1>4. \A i \in 1 .. n : f[i] \in Seq(C)
  BY <1>2, <1>3, FlatType
<1>5. f[1] = q[1]
  BY <1>2, <1>3 DEF FlatStep
<1>6. ASSUME n # 1
      PROVE  FlattenSeq(q) = q[1] \o FlattenSeq(r)
  <2>1. r # <<>>
    BY <1>2, <1>6, EmptySeq
  <2>2. PICK g : FlattenSeq(r) = g[n - 1] /\ \A i \in 1 .. n - 1 : g[i] = FlatStep(g, r, i)
    <3>1. r \in Seq(Seq(C)) /\ Len(r) = n - 1
      BY <1>2
    <3>2. \E g : /\ FlattenSeq(r) = g[Len(r)]
                 /\ \A i \in 1 .. Len(r) : g[i] = FlatStep(g, r, i)
      BY <2>1, <3>1, FlattenIs
    <3> QED
      BY <3>1, <3>2
  <2>3. \A i \in 1 .. n - 1 : g[i] \in Seq(C)
    <3>1. n - 1 \in Nat /\ \A i \in 1 .. n - 1 : r[i] \in Seq(C)
      BY <1>2
    <3> QED
      BY <2>2, <3>1, FlatType
  <2>4. PICK P : P = {m \in Nat : m \in 1 .. n - 1 => f[m + 1] = q[1] \o g[m]}
    OBVIOUS
  <2>5. 0 \in P
    BY <2>4
  <2>6. ASSUME NEW m \in Nat, m \in P
        PROVE  m + 1 \in P
    <3>0. (m + 1) + 1 = m + 2 /\ m + 1 \in Nat
      OBVIOUS
    <3>1. SUFFICES ASSUME m + 1 \in 1 .. n - 1
                   PROVE  f[m + 2] = q[1] \o g[m + 1]
      <4>1. (m + 1 \in 1 .. n - 1 => f[(m + 1) + 1] = q[1] \o g[m + 1]) => m + 1 \in P
        BY <2>4, <3>0, Zenon
      <4> QED
        BY <3>0, <4>1
    <3>2. m + 2 \in 1 .. n /\ m + 2 # 1 /\ (m + 2) - 1 = m + 1 /\ m + 1 \in 1 .. n
      BY <1>2, <3>1
    <3>3. f[m + 2] = f[m + 1] \o q[m + 2]
      BY <1>3, <3>2 DEF FlatStep
    <3>4. r[m + 1] = q[m + 2]
      BY <1>2, <3>1
    <3>5. CASE m = 0
      <4>1. g[m + 1] = q[m + 2] /\ f[m + 1] = q[1]
        BY <1>5, <2>2, <3>1, <3>4, <3>5 DEF FlatStep
      <4> QED
        BY <3>3, <4>1
    <3>6. CASE m # 0
      <4>1. m \in 1 .. n - 1 /\ m + 1 # 1 /\ (m + 1) - 1 = m
        BY <1>2, <3>1, <3>6
      <4>2. f[m + 1] = q[1] \o g[m]
        BY <2>4, <2>6, <4>1
      <4>3. g[m + 1] = g[m] \o q[m + 2]
        BY <2>2, <3>1, <3>4, <4>1 DEF FlatStep
      <4>4. q[1] \in Seq(C) /\ g[m] \in Seq(C) /\ q[m + 2] \in Seq(C)
        BY <1>2, <2>3, <3>2, <4>1
      <4>5. (q[1] \o g[m]) \o q[m + 2] = q[1] \o (g[m] \o q[m + 2])
        <5>1. PICK a, b, c : a = q[1] /\ b = g[m] /\ c = q[m + 2]
          OBVIOUS
        <5>2. a \in Seq(C) /\ b \in Seq(C) /\ c \in Seq(C)
          BY <4>4, <5>1
        <5>3. (a \o b) \o c = a \o (b \o c)
          BY <5>2, ConcatAssociative, SMTT(30)
        <5> QED
          BY <5>1, <5>3
      <4> QED
        BY <3>3, <4>2, <4>3, <4>5
    <3> QED
      BY <3>5, <3>6
  <2>7. n - 1 \in Nat /\ n - 1 \in P
    <3>1. \A m \in Nat : m \in P
      BY <2>5, <2>6, Induct
    <3> QED
      BY <1>2, <3>1
  <2>8. n - 1 \in 1 .. n - 1 /\ (n - 1) + 1 = n
    BY <1>2, <1>6
  <2> QED
    BY <1>3, <2>2, <2>4, <2>7, <2>8
<1> QED
  BY <1>1, <1>2, <1>3, <1>4, <1>5, <1>6

-----------------------------------------------------------------------------
(* The tags of a list, each with a separator behind it.                    *)
Glued(list) == [i \in DOMAIN list |-> list[i] \o Separator]
Glue(list) == FlattenSeq(Glued(list))

LEMMA GluedTail ==
    ASSUME NEW E, NEW list \in Seq(Seq(E)), list # <<>>
    PROVE  /\ Glued(list) \in Seq(Seq(E \cup {"|"})) /\ Glued(list) # <<>>
           /\ Len(Glued(list)) = Len(list) /\ Len(list) \in Nat \ {0}
           /\ Glued(list)[1] = list[1] \o Separator /\ list[1] \in Seq(E)
           /\ Tail(Glued(list)) = Glued(Tail(list))
<1>1. PICK n, B, r : n = Len(list) /\ B = E \cup {"|"} /\ r = Tail(list)
  OBVIOUS
<1>2. n \in Nat \ {0} /\ DOMAIN list = 1 .. n
  BY <1>1, EmptySeq, LenProperties
<1>3. \A i \in 1 .. n : list[i] \in Seq(E)
  BY <1>1, ElementOfSeq
<1>4. r \in Seq(Seq(E)) /\ Len(r) = n - 1 /\ DOMAIN r = 1 .. n - 1
  BY <1>1, HeadTailProperties, LenProperties
<1>5. \A i \in 1 .. n - 1 : r[i] = list[i + 1]
  BY <1>1, HeadTailProperties
<1>6. Separator \in Seq(B)
  BY <1>1 DEF Separator
<1>7. \A i \in 1 .. n : list[i] \o Separator \in Seq(B)
  <2>1. \A i \in 1 .. n : list[i] \in Seq(B)
    BY <1>1, <1>3, SeqMonotonic
  <2> QED
    BY <1>6, <2>1, ConcatProperties
<1>8. PICK q : q = Glued(list)
  OBVIOUS
<1>9. q \in [1 .. n -> Seq(B)] /\ \A i \in 1 .. n : q[i] = list[i] \o Separator
  BY <1>2, <1>7, <1>8 DEF Glued
<1>10. q \in Seq(Seq(B))
  BY <1>2, <1>9, FunctionIsSeq
<1>11. Len(q) = n /\ q # <<>>
  <2>1. Len(q) \in Nat /\ DOMAIN q = 1 .. Len(q) /\ DOMAIN q = 1 .. n
    BY <1>9, <1>10, LenProperties
  <2>2. Len(q) = n
    <3>1. PICK k : k = Len(q)
      OBVIOUS
    <3>2. k \in Nat /\ 1 .. k = 1 .. n
      BY <2>1, <3>1
    <3>3. n \in 1 .. n /\ n + 1 \notin 1 .. n /\ n \in 1 .. k /\ n + 1 \notin 1 .. k
      BY <1>2, <3>2
    <3>4. k = n
      BY <1>2, <3>2, <3>3
    <3> QED
      BY <3>1, <3>4
  <2> QED
    BY <1>2, <1>10, <2>2, EmptySeq
<1>12. Tail(q) = Glued(r)
  <2>1. PICK t : t = Tail(q)
    OBVIOUS
  <2>2. t \in Seq(Seq(B)) /\ Len(t) = n - 1 /\ \A i \in 1 .. n - 1 : t[i] = q[i + 1]
    BY <1>10, <1>11, <2>1, HeadTailProperties
  <2>3. t \in [1 .. n - 1 -> Seq(B)]
    BY <2>2, LenProperties
  <2>4. \A i \in 1 .. n - 1 : i + 1 \in 1 .. n
    BY <1>2
  <2>5. \A i \in 1 .. n - 1 : t[i] = r[i] \o Separator
    BY <1>5, <1>9, <2>2, <2>4
  <2>6. t = [i \in 1 .. n - 1 |-> r[i] \o Separator]
    BY <2>3, <2>5
  <2> QED
    BY <1>4, <2>1, <2>6 DEF Glued
<1>13. 1 \in 1 .. n
  BY <1>2
<1> QED
  BY <1>1, <1>2, <1>3, <1>8, <1>9, <1>10, <1>11, <1>12, <1>13

LEMMA GlueUnfold ==
    ASSUME NEW E, NEW list \in Seq(Seq(E)), list # <<>>
    PROVE  /\ Glue(list) \in Seq(E \cup {"|"})
           /\ Len(list) = 1 => Glue(list) = list[1] \o Separator
           /\ Len(list) # 1 => Glue(list) = (list[1] \o Separator) \o Glue(Tail(list))
<1>1. PICK q, B : q = Glued(list) /\ B = E \cup {"|"}
  OBVIOUS
<1>2. /\ q \in Seq(Seq(B)) /\ q # <<>> /\ Len(q) = Len(list)
      /\ q[1] = list[1] \o Separator /\ Tail(q) = Glued(Tail(list))
  BY <1>1, GluedTail
<1>3. /\ FlattenSeq(q) \in Seq(B)
      /\ Len(q) = 1 => FlattenSeq(q) = q[1]
      /\ Len(q) # 1 => FlattenSeq(q) = q[1] \o FlattenSeq(Tail(q))
  BY <1>2, FlattenUnfold
<1> QED
  BY <1>1, <1>2, <1>3 DEF Glue

(* One sequence behind the other, with names for the parts.                *)
LEMMA ConcatAt ==
    ASSUME NEW S, NEW p \in Seq(S), NEW q \in Seq(S), NEW v, v = p \o q,
           NEW n, n = Len(p), NEW m, m = Len(q)
    PROVE  /\ v \in Seq(S) /\ Len(v) = n + m /\ n \in Nat /\ m \in Nat
           /\ \A i \in 1 .. n + m : v[i] = IF i <= n THEN p[i] ELSE q[i - n]
<1>1. p \o q \in Seq(S) /\ Len(p \o q) = Len(p) + Len(q)
  BY ConcatProperties
<1>2. \A i \in 1 .. Len(p) + Len(q) : (p \o q)[i] = IF i <= Len(p) THEN p[i] ELSE q[i - Len(p)]
  BY ConcatProperties
<1>3. n \in Nat /\ m \in Nat
  BY LenProperties
<1> QED
  BY <1>1, <1>2, <1>3

(* The last separator cut off again.                                       *)
CutLast(s) == SubSeq(s, 1, Len(s) - 2)

LEMMA CutLastIs ==
    ASSUME NEW B, NEW v \in Seq(B), NEW n \in Nat, Len(v) = n, n >= 2
    PROVE  /\ CutLast(v) \in Seq(B) /\ Len(CutLast(v)) = n - 2
           /\ \A i \in 1 .. n - 2 : CutLast(v)[i] = v[i]
<1>1. PICK c, m : c = SubSeq(v, 1, m) /\ m = n - 2
  OBVIOUS
<1>2. m \in Nat /\ 1 \in 1 .. Len(v) + 1 /\ m \in 0 .. Len(v)
  BY <1>1
<1>3. \A i \in 1 .. m : i \in 1 .. (m - 1 + 1) /\ 1 + i - 1 = i
  BY <1>2
<1>4. /\ c \in Seq(B)
      /\ Len(c) = IF 1 <= m THEN m - 1 + 1 ELSE 0
      /\ \A i \in 1 .. m - 1 + 1 : c[i] = v[1 + i - 1]
  BY <1>1, <1>2, SubSeqProperties
<1>5. Len(c) = m /\ \A i \in 1 .. m : c[i] = v[i]
  BY <1>2, <1>3, <1>4
<1> QED
  BY <1>1, <1>4, <1>5 DEF CutLast

LEMMA CutLastSeparator ==
    ASSUME NEW B, NEW u \in Seq(B), "|" \in B
    PROVE  CutLast(u \o Separator) = u /\ Len(u \o Separator) = Len(u) + 2
<1>1. PICK v, n, m : v = u \o Separator /\ n = Len(u) /\ m = Len(v) - 2
  OBVIOUS
<1>2. Separator \in Seq(B) /\ Len(Separator) = 2
  BY DEF Separator
<1>3. n \in Nat /\ v \in Seq(B) /\ Len(v) = n + 2 /\ \A i \in 1 .. n : v[i] = u[i]
  <2>1. n \in Nat
    BY <1>1, LenProperties
  <2>2. PICK t : t = Separator
    OBVIOUS
  <2>3. t \in Seq(B) /\ Len(t) = 2 /\ v = u \o t
    BY <1>1, <1>2, <2>2
  <2>4. /\ v \in Seq(B) /\ Len(v) = n + 2
        /\ \A i \in 1 .. n + 2 : v[i] = IF i <= n THEN u[i] ELSE t[i - n]
    <3>1. PICK k : k = Len(t)
      OBVIOUS
    <3>2. k = 2
      BY <2>3, <3>1
    <3>3. /\ v \in Seq(B) /\ Len(v) = n + k
          /\ \A i \in 1 .. n + k : v[i] = IF i <= n THEN u[i] ELSE t[i - n]
      <4>1. u \in Seq(B) /\ t \in Seq(B) /\ v = u \o t /\ n = Len(u) /\ k = Len(t)
        BY <1>1, <2>3, <3>1
      <4> QED
        BY <4>1, ConcatAt
    <3> QED
      BY <3>2, <3>3
  <2>5. \A i \in 1 .. n : i \in 1 .. n + 2 /\ i <= n
    BY <2>1
  <2> QED
    BY <2>1, <2>4, <2>5
<1>4. m = n
  BY <1>1, <1>3
<1>5. PICK c : c = CutLast(v)
  OBVIOUS
<1>6. c \in Seq(B) /\ Len(c) = m /\ \A i \in 1 .. m : c[i] = v[i]
  <2>1. n + 2 \in Nat /\ n + 2 >= 2 /\ (n + 2) - 2 = m
    BY <1>3, <1>4
  <2>2. \A k \in Nat : Len(v) = k /\ k >= 2 =>
            /\ c \in Seq(B) /\ Len(c) = k - 2
            /\ \A i \in 1 .. k - 2 : c[i] = v[i]
    BY <1>3, <1>5, CutLastIs
  <2>3. c \in Seq(B) /\ Len(c) = (n + 2) - 2 /\ \A i \in 1 .. (n + 2) - 2 : c[i] = v[i]
    BY <1>3, <2>1, <2>2
  <2> QED
    BY <2>1, <2>3
<1>7. c = u
  BY <1>1, <1>3, <1>4, <1>6, SeqEqual
<1> QED
  BY <1>1, <1>3, <1>5, <1>7

LEMMA CutLastBehind ==
    ASSUME NEW B, NEW u \in Seq(B), NEW g \in Seq(B), Len(g) >= 2
    PROVE  CutLast(u \o g) = u \o CutLast(g) /\ CutLast(g) \in Seq(B)
<1>1. PICK v, n, m : v = u \o g /\ n = Len(u) /\ m = Len(g)
  OBVIOUS
<1>2. n \in Nat /\ m \in Nat /\ m >= 2
  BY <1>1, LenProperties
<1>3. v \in Seq(B) /\ Len(v) = n + m
  BY <1>1, ConcatProperties
<1>4. \A i \in 1 .. n + m : v[i] = IF i <= n THEN u[i] ELSE g[i - n]
  BY <1>1, <1>3, ConcatProperties
<1>5. PICK c : c = CutLast(v)
  OBVIOUS
<1>6. PICK d : d = CutLast(g)
  OBVIOUS
<1>7. c \in Seq(B) /\ Len(c) = n + m - 2 /\ \A i \in 1 .. n + m - 2 : c[i] = v[i]
  BY <1>2, <1>3, <1>5, CutLastIs
<1>8. d \in Seq(B) /\ Len(d) = m - 2 /\ \A i \in 1 .. m - 2 : d[i] = g[i]
  BY <1>1, <1>2, <1>6, CutLastIs
<1>9. PICK w : w = u \o d
  OBVIOUS
<1>10. w \in Seq(B) /\ Len(w) = n + (m - 2)
  BY <1>1, <1>8, <1>9, ConcatProperties
<1>11. \A i \in 1 .. n + (m - 2) : w[i] = IF i <= n THEN u[i] ELSE d[i - n]
  BY <1>1, <1>8, <1>9, <1>10, ConcatProperties
<1>12. \A i \in 1 .. n + (m - 2) : c[i] = w[i]
  <2>1. ASSUME NEW i \in 1 .. n + (m - 2)
        PROVE  c[i] = w[i]
    <3>1. i \in 1 .. n + m - 2 /\ i \in 1 .. n + m /\ i \in Nat
      BY <1>2
    <3>2. ~(i <= n) => i - n \in 1 .. m - 2
      BY <1>2
    <3> QED
      BY <1>4, <1>7, <1>8, <1>11, <3>1, <3>2
  <2> QED
    BY <2>1
<1>13. c = w
  <2>1. Len(c) = Len(w)
    BY <1>2, <1>7, <1>10
  <2>2. \A i \in 1 .. Len(c) : c[i] = w[i]
    BY <1>10, <1>12, <2>1
  <2> QED
    BY <1>7, <1>10, <2>1, <2>2, SeqEqual
<1> QED
  BY <1>1, <1>5, <1>6, <1>8, <1>9, <1>13

LEMMA GlueLength ==
    ASSUME NEW E, NEW list \in Seq(Seq(E)), list # <<>>
    PROVE  Glue(list) \in Seq(E \cup {"|"}) /\ Len(Glue(list)) >= 2
<1>1. PICK B, h, hs : B = E \cup {"|"} /\ h = list[1] /\ hs = h \o Separator
  OBVIOUS
<1>2. Separator \in Seq(B) /\ "|" \in B
  BY <1>1 DEF Separator
<1>3. h \in Seq(B)
  <2>1. h \in Seq(E)
    BY <1>1, GluedTail
  <2> QED
    BY <1>1, <2>1, SeqMonotonic
<1>4. hs \in Seq(B) /\ Len(hs) = Len(h) + 2 /\ Len(h) \in Nat
  BY <1>1, <1>2, <1>3, CutLastSeparator, ConcatProperties, LenProperties
<1>5. PICK g, r, d : g = Glue(list) /\ r = Tail(list) /\ d = Glue(r)
  OBVIOUS
<1>6. g \in Seq(B) /\ (Len(list) = 1 => g = hs) /\ (Len(list) # 1 => g = hs \o d)
  BY <1>1, <1>5, GlueUnfold
<1>7. ASSUME Len(list) # 1
      PROVE  d \in Seq(B)
  <2>1. r \in Seq(Seq(E)) /\ Len(r) = Len(list) - 1 /\ Len(list) \in Nat \ {0}
    BY <1>5, HeadTailProperties, GluedTail
  <2>2. r # <<>>
    BY <1>7, <2>1, EmptySeq
  <2> QED
    BY <1>1, <1>5, <2>1, <2>2, GlueUnfold
<1>8. Len(list) # 1 => Len(g) = Len(hs) + Len(d) /\ Len(d) \in Nat
  BY <1>4, <1>6, <1>7, ConcatProperties, LenProperties, ZenonT(60)
<1>9. Len(g) >= 2
  BY <1>4, <1>6, <1>8
<1> QED
  BY <1>1, <1>5, <1>6, <1>9

(* A tag, a separator and the tags behind it, joined.                      *)
LEMMA JoinUnfold ==
    ASSUME NEW E, NEW list \in Seq(Seq(E)), list # <<>>
    PROVE  /\ Join(list) \in Seq(E \cup {"|"})
           /\ Len(list) = 1 => Join(list) = list[1]
           /\ Len(list) # 1 => Join(list) = (list[1] \o Separator) \o Join(Tail(list))
<1>1. PICK B, n, h, r : B = E \cup {"|"} /\ n = Len(list) /\ h = list[1] /\ r = Tail(list)
  OBVIOUS
<1>2. /\ n \in Nat \ {0} /\ h \in Seq(B) /\ r \in Seq(Seq(E))
      /\ n # 1 => r # <<>>
  <2>1. n \in Nat \ {0} /\ h \in Seq(E)
    BY <1>1, GluedTail
  <2>2. h \in Seq(B)
    BY <1>1, <2>1, SeqMonotonic
  <2>3. r \in Seq(Seq(E)) /\ Len(r) = n - 1
    BY <1>1, HeadTailProperties
  <2>4. n # 1 => r # <<>>
    BY <2>1, <2>3, EmptySeq
  <2> QED
    BY <2>1, <2>2, <2>3, <2>4
<1>3. Join(list) = CutLast(Glue(list)) /\ Join(r) = CutLast(Glue(r))
  BY DEF Join, CutLast, Glue, Glued
<1>4. PICK hs : hs = h \o Separator
  OBVIOUS
<1>5. hs \in Seq(B) /\ Len(hs) >= 2 /\ CutLast(hs) = h
  <2>1. Separator \in Seq(B) /\ "|" \in B
    BY <1>1 DEF Separator
  <2>2. hs \in Seq(B)
    BY <1>2, <1>4, <2>1, ConcatProperties
  <2>3. CutLast(hs) = h /\ Len(hs) = Len(h) + 2 /\ Len(h) \in Nat
    BY <1>2, <1>4, <2>1, CutLastSeparator, LenProperties
  <2> QED
    BY <2>2, <2>3
<1>6. /\ n = 1 => Glue(list) = hs
      /\ n # 1 => Glue(list) = hs \o Glue(r)
  BY <1>1, <1>4, GlueUnfold
<1>7. ASSUME n # 1
      PROVE  Join(list) = hs \o Join(r) /\ Join(list) \in Seq(B)
  <2>1. PICK g : g = Glue(r)
    OBVIOUS
  <2>2. g \in Seq(B) /\ Len(g) >= 2
    BY <1>1, <1>2, <1>7, <2>1, GlueLength
  <2>3. CutLast(hs \o g) = hs \o CutLast(g) /\ CutLast(g) \in Seq(B)
    BY <1>5, <2>2, CutLastBehind
  <2>4. hs \o CutLast(g) \in Seq(B)
    BY <1>5, <2>3, ConcatProperties
  <2> QED
    BY <1>3, <1>6, <1>7, <2>1, <2>3, <2>4
<1> QED
  BY <1>1, <1>2, <1>3, <1>4, <1>5, <1>6, <1>7

LEMMA JoinOfNone == Join(<<>>) = <<>>
<1>1. PICK q : q = Glued(<<>>)
  OBVIOUS
<1>2. q = <<>>
  BY <1>1 DEF Glued
<1>3. FlattenSeq(q) = <<>>
  BY <1>2 DEF FlattenSeq
<1>4. CutLast(<<>>) = <<>>
  BY DEF CutLast
<1>5. Join(<<>>) = CutLast(FlattenSeq(q))
  BY <1>1 DEF Join, CutLast, Glued
<1> QED
  BY <1>3, <1>4, <1>5

-----------------------------------------------------------------------------
(* Where a tag in front of a separator is cut: at the separator, unless    *)
(* the tag ends in a bar, which then is taken for the separator's first.   *)
LEMMA HeadIsCut ==
    ASSUME NEW B, NEW h \in Seq(B), Separators(h) = {}, NEW b \in Seq(B), "|" \in B,
           NEW s, s = (h \o Separator) \o b
    PROVE  /\ s \in Seq(B) /\ Separators(s) # {}
           /\ ~EndsInBar(h) => FrontTag(s) = h /\ Behind(s) = b
           /\ EndsInBar(h) => FrontTag(s) # h
<1>1. PICK n, m, hs, p, k : n = Len(h) /\ m = Len(b) /\ hs = h \o Separator /\ p = Separator /\ k = Len(hs)
  OBVIOUS
<1>2. p \in Seq(B) /\ Len(p) = 2 /\ p[1] = "|" /\ p[2] = "|"
  BY <1>1 DEF Separator
<1>3. n \in Nat /\ m \in Nat
  BY <1>1, LenProperties
<1>4. hs \in Seq(B) /\ k = n + 2
  BY <1>1, <1>2, CutLastSeparator, ConcatProperties
<1>5. /\ \A i \in 1 .. n : hs[i] = h[i]
      /\ hs[n + 1] = "|" /\ hs[n + 2] = "|"
  <2>1. hs = h \o p /\ Len(p) = 2
    BY <1>1, <1>2
  <2>2. \A i \in 1 .. n + Len(p) : hs[i] = IF i <= n THEN h[i] ELSE p[i - n]
    BY <1>1, <1>2, ConcatProperties, ZenonT(60)
  <2>3. \A i \in 1 .. n + 2 : hs[i] = IF i <= n THEN h[i] ELSE p[i - n]
    BY <1>2, <2>2
  <2>4. /\ \A i \in 1 .. n : i \in 1 .. n + 2 /\ i <= n
        /\ n + 1 \in 1 .. n + 2 /\ ~(n + 1 <= n) /\ (n + 1) - n = 1
        /\ n + 2 \in 1 .. n + 2 /\ ~(n + 2 <= n) /\ (n + 2) - n = 2
    BY <1>3
  <2>5. hs[n + 1] = p[1] /\ hs[n + 2] = p[2]
    BY <2>3, <2>4
  <2> QED
    BY <1>2, <2>3, <2>4, <2>5
<1>6. s \in Seq(B) /\ Len(s) = n + 2 + m /\ List(s) /\ List(h)
  <2>1. s \in Seq(B) /\ Len(s) = k + m
    <3>1. hs \in Seq(B) /\ b \in Seq(B) /\ s = hs \o b /\ k = Len(hs) /\ m = Len(b)
      BY <1>1, <1>4
    <3> QED
      BY <3>1, ConcatAt
  <2> QED
    BY <1>3, <1>4, <2>1, ListOf
<1>7. \A i \in 1 .. k + m : s[i] = IF i <= k THEN hs[i] ELSE b[i - k]
  <2>1. hs \in Seq(B) /\ b \in Seq(B) /\ s = hs \o b /\ k = Len(hs) /\ m = Len(b)
    BY <1>1, <1>4
  <2> QED
    BY <2>1, ConcatAt
<1>8. /\ \A i \in 1 .. n : s[i] = h[i]
      /\ s[n + 1] = "|" /\ s[n + 2] = "|"
      /\ \A i \in 1 .. m : s[n + 2 + i] = b[i]
  <2>1. /\ \A i \in 1 .. n : i \in 1 .. k + m /\ i <= k
        /\ n + 1 \in 1 .. k + m /\ n + 1 <= k
        /\ n + 2 \in 1 .. k + m /\ n + 2 <= k
        /\ \A i \in 1 .. m : n + 2 + i \in 1 .. k + m /\ ~(n + 2 + i <= k) /\ (n + 2 + i) - k = i
    BY <1>3, <1>4
  <2> QED
    BY <1>5, <1>7, <2>1
<1>9. n + 1 \in Separators(s)
  <2>1. n + 1 \in 1 .. Len(s) - 1 /\ (n + 1) + 1 = n + 2
    BY <1>3, <1>6
  <2> QED
    BY <1>6, <1>8, <2>1, SeparatorAt
<1>10. PICK f : f = First(s)
  OBVIOUS
<1>11. /\ f \in Separators(s) /\ f \in 1 .. n + 1 + m /\ f <= n + 1
       /\ \A i \in Separators(s) : f <= i
  <2>1. /\ f \in Separators(s) /\ f \in 1 .. Len(s) - 1
        /\ \A i \in Separators(s) : f <= i
    BY <1>6, <1>9, <1>10, FirstSeparator
  <2> QED
    BY <1>3, <1>6, <1>9, <2>1
<1>12. f >= n
  <2>1. SUFFICES ASSUME f < n
                 PROVE  FALSE
    BY <1>3, <1>11
  <2>2. f \in 1 .. n /\ f + 1 \in 1 .. n /\ f \in 1 .. Len(h) - 1 /\ f \in 1 .. Len(s) - 1
    BY <1>1, <1>3, <1>6, <1>11, <2>1
  <2>3. s[f] = "|" /\ s[f + 1] = "|"
    BY <1>6, <1>11, <2>2, SeparatorAt
  <2>4. h[f] = "|" /\ h[f + 1] = "|"
    BY <1>8, <2>2, <2>3
  <2> QED
    BY <1>6, <2>2, <2>4, SeparatorAt
<1>13. PICK t, r : t = FrontTag(s) /\ r = Behind(s)
  OBVIOUS
<1>14. /\ t \in Seq(B) /\ Len(t) = f - 1 /\ \A i \in 1 .. f - 1 : t[i] = s[i]
       /\ r \in Seq(B) /\ Len(r) = Len(s) - f - 1
       /\ \A i \in 1 .. Len(s) - f - 1 : r[i] = s[f + 1 + i]
  BY <1>6, <1>9, <1>10, <1>13, CutString, ZenonT(60)
<1>15. ASSUME EndsInBar(h)
       PROVE  t # h
  <2>1. n # 0 /\ h[n] = "|"
    BY <1>1, <1>15, EmptySeq DEF EndsInBar
  <2>2. n \in 1 .. Len(s) - 1 /\ n \in 1 .. n
    BY <1>3, <1>6, <2>1
  <2>3. n \in Separators(s)
    BY <1>6, <1>8, <2>1, <2>2, SeparatorAt
  <2>4. f <= n
    BY <1>11, <2>3
  <2>5. Len(t) < n
    BY <1>3, <1>11, <1>14, <2>4
  <2> QED
    BY <1>1, <1>3, <2>5
<1>16. ASSUME ~EndsInBar(h)
       PROVE  t = h /\ r = b
  <2>1. f # n
    <3>1. SUFFICES ASSUME f = n
                   PROVE  FALSE
      OBVIOUS
    <3>2. n \in 1 .. n /\ n # 0 /\ n \in 1 .. Len(s) - 1
      BY <1>3, <1>6, <1>11, <3>1
    <3>3. s[n] = "|"
      BY <1>6, <1>11, <3>1, <3>2, SeparatorAt
    <3>4. h[n] = "|" /\ h # <<>>
      BY <1>1, <1>8, <3>2, <3>3, EmptySeq
    <3> QED
      BY <1>1, <1>16, <3>4 DEF EndsInBar
  <2>2. f = n + 1
    BY <1>3, <1>11, <1>12, <2>1
  <2>3. Len(t) = n /\ \A i \in 1 .. n : t[i] = h[i]
    <3>1. f - 1 = n
      BY <1>3, <2>2
    <3> QED
      BY <1>8, <1>14, <3>1
  <2>4. t = h
    BY <1>1, <1>14, <2>3, SeqEqual
  <2>5. Len(r) = m /\ \A i \in 1 .. m : r[i] = b[i]
    <3>1. Len(s) - f - 1 = m /\ \A i \in 1 .. m : f + 1 + i = n + 2 + i
      BY <1>3, <1>6, <2>2
    <3> QED
      BY <1>8, <1>14, <3>1, ZenonT(60)
  <2>6. r = b
    BY <1>1, <1>14, <2>5, SeqEqual
  <2> QED
    BY <2>4, <2>6
<1> QED
  BY <1>6, <1>9, <1>13, <1>15, <1>16

LEMMA FirstAndTail ==
    ASSUME NEW S, NEW q \in Seq(S), q # <<>>
    PROVE  /\ q[1] \in S /\ Tail(q) \in Seq(S) /\ Len(Tail(q)) = Len(q) - 1
           /\ q = <<q[1]>> \o Tail(q) /\ Len(q) \in Nat \ {0}
           /\ \A i \in 1 .. Len(q) - 1 : Tail(q)[i] = q[i + 1]
<1>1. PICK n, e, r : n = Len(q) /\ e = q[1] /\ r = Tail(q)
  OBVIOUS
<1>2. n \in Nat \ {0}
  BY <1>1, EmptySeq
<1>3. r \in Seq(S) /\ Len(r) = n - 1 /\ \A i \in 1 .. n - 1 : r[i] = q[i + 1]
  BY <1>1, HeadTailProperties
<1>4. e \in S
  <2>1. 1 \in 1 .. n
    BY <1>2
  <2> QED
    BY <1>1, <2>1, ElementOfSeq
<1>5. q = <<e>> \o r
  <2>1. PICK o, w : o = <<e>> /\ w = o \o r
    OBVIOUS
  <2>2. o \in Seq(S) /\ Len(o) = 1 /\ o[1] = e
    BY <1>4, <2>1
  <2>3. PICK k, l : k = Len(o) /\ l = Len(r)
    OBVIOUS
  <2>4. w \in Seq(S) /\ Len(w) = k + l
    BY <1>3, <2>1, <2>2, <2>3, ConcatProperties
  <2>5. \A i \in 1 .. k + l : w[i] = IF i <= k THEN o[i] ELSE r[i - k]
    BY <1>3, <2>1, <2>2, <2>3, ConcatProperties
  <2>6. k = 1 /\ l = n - 1 /\ k + l = n
    BY <1>2, <1>3, <2>2, <2>3
  <2>7. \A i \in 1 .. n : w[i] = q[i]
    <3>1. ASSUME NEW i \in 1 .. n
          PROVE  w[i] = q[i]
      <4>1. CASE i = 1
        BY <1>1, <2>2, <2>5, <2>6, <4>1
      <4>2. CASE i # 1
        <5>1. ~(i <= 1) /\ i - 1 \in 1 .. n - 1 /\ (i - 1) + 1 = i
          BY <1>2, <4>2
        <5>2. w[i] = r[i - 1]
          BY <2>5, <2>6, <5>1
        <5> QED
          BY <1>3, <5>1, <5>2
      <4> QED
        BY <4>1, <4>2
    <3> QED
      BY <3>1
  <2>8. q = w
    <3>1. Len(q) = Len(w) /\ \A i \in 1 .. Len(q) : q[i] = w[i]
      BY <1>1, <2>4, <2>6, <2>7
    <3> QED
      BY <2>4, <3>1, SeqEqual
  <2> QED
    BY <2>1, <2>8
<1> QED
  BY <1>1, <1>2, <1>3, <1>4, <1>5

LEMMA PutInFront ==
    ASSUME NEW S, NEW a \in S, NEW w \in Seq(S)
    PROVE  /\ <<a>> \o w \in Seq(S) /\ (<<a>> \o w)[1] = a
           /\ Len(<<a>> \o w) = Len(w) + 1 /\ Len(w) \in Nat
           /\ \A i \in 1 .. Len(w) : (<<a>> \o w)[i + 1] = w[i]
<1>1. PICK o, v, k, l : o = <<a>> /\ v = o \o w /\ k = Len(o) /\ l = Len(w)
  OBVIOUS
<1>2. o \in Seq(S) /\ k = 1 /\ o[1] = a /\ l \in Nat
  BY <1>1, LenProperties
<1>3. v \in Seq(S) /\ Len(v) = k + l
  BY <1>1, <1>2, ConcatProperties
<1>4. \A i \in 1 .. k + l : v[i] = IF i <= k THEN o[i] ELSE w[i - k]
  BY <1>1, <1>2, ConcatProperties
<1>5. v[1] = a /\ Len(v) = l + 1
  BY <1>2, <1>3, <1>4
<1>6. \A i \in 1 .. l : i + 1 \in 1 .. k + l /\ ~(i + 1 <= k) /\ (i + 1) - k = i
  BY <1>2
<1>7. \A i \in 1 .. l : v[i + 1] = w[i]
  BY <1>4, <1>6
<1> QED
  BY <1>1, <1>2, <1>3, <1>5, <1>7

LEMMA SameFirst ==
    ASSUME NEW S, NEW p \in Seq(S), NEW q \in Seq(S), NEW d \in S, NEW e \in S
    PROVE  <<d>> \o p = <<e>> \o q <=> d = e /\ p = q
<1>1. PICK v, w : v = <<d>> \o p /\ w = <<e>> \o q
  OBVIOUS
<1>2. v[1] = d /\ Len(v) = Len(p) + 1 /\ Len(p) \in Nat /\ \A i \in 1 .. Len(p) : v[i + 1] = p[i]
  BY <1>1, PutInFront
<1>3. w[1] = e /\ Len(w) = Len(q) + 1 /\ Len(q) \in Nat /\ \A i \in 1 .. Len(q) : w[i + 1] = q[i]
  BY <1>1, PutInFront
<1>4. ASSUME v = w
      PROVE  d = e /\ p = q
  <2>1. Len(p) = Len(q) /\ \A i \in 1 .. Len(p) : p[i] = q[i]
    BY <1>2, <1>3, <1>4
  <2> QED
    BY <1>2, <1>3, <1>4, <2>1, SeqEqual
<1> QED
  BY <1>1, <1>4

(* What joining makes of a list is cut into the list again if and only if  *)
(* no tag but the last ends in a bar: for all tags and lists of them.      *)
THEOREM JoinSplit ==
    ASSUME NEW E, NEW list \in Seq(Plain(E)), list # <<>>
    PROVE  Split(Join(list)) = list <=> \A i \in 1 .. Len(list) - 1 : ~EndsInBar(list[i])
<1> DEFINE Kept(q) == Split(Join(q)) = q <=> \A i \in 1 .. Len(q) - 1 : ~EndsInBar(q[i])
<1>1. PICK P : P = {n \in Nat : \A q \in Seq(Plain(E)) : q # <<>> /\ Len(q) = n => Kept(q)}
  OBVIOUS
<1>2. 0 \in P
  BY <1>1, EmptySeq
<1>3. ASSUME NEW n \in Nat, n \in P
      PROVE  n + 1 \in P
  <2>1. ASSUME NEW q \in Seq(Plain(E)), q # <<>>, Len(q) = n + 1
        PROVE  Kept(q)
    <3>1. PICK h, r, B : h = q[1] /\ r = Tail(q) /\ B = E \cup {"|"}
      OBVIOUS
    <3>2. /\ h \in Plain(E) /\ r \in Seq(Plain(E)) /\ Len(r) = n /\ q = <<h>> \o r
          /\ \A i \in 1 .. n : r[i] = q[i + 1]
      <4>1. /\ h \in Plain(E) /\ r \in Seq(Plain(E)) /\ Len(r) = (n + 1) - 1 /\ q = <<h>> \o r
            /\ \A i \in 1 .. (n + 1) - 1 : r[i] = q[i + 1]
        BY <2>1, <3>1, FirstAndTail
      <4>2. (n + 1) - 1 = n
        OBVIOUS
      <4> QED
        BY <4>1, <4>2
    <3>3. h \in Seq(B) /\ Separators(h) = {} /\ List(h)
      <4>1. h \in Seq(E) /\ Separators(h) = {}
        BY <3>2 DEF Plain
      <4> QED
        BY <3>1, <4>1, SeqMonotonic, ListOf
    <3>4. q \in Seq(Seq(E)) /\ r \in Seq(Seq(E))
      <4>1. Plain(E) \subseteq Seq(E)
        BY DEF Plain
      <4> QED
        BY <2>1, <3>2, <4>1, SeqMonotonic
    <3>5. CASE n = 0
      <4>1. r = <<>>
        BY <3>2, <3>5, EmptySeq
      <4>2. q = <<h>>
        BY <3>2, <4>1
      <4>3. Join(q) = h
        <5>1. Len(q) = 1
          BY <2>1, <3>5
        <5>2. Len(q) = 1 => Join(q) = q[1]
          BY <2>1, <3>4, JoinUnfold
        <5> QED
          BY <3>1, <5>1, <5>2
      <4>4. Split(h) = <<h>>
        BY <3>3, SplitUnfold
      <4>5. 1 .. Len(q) - 1 = {}
        BY <2>1, <3>5
      <4> QED
        BY <4>2, <4>3, <4>4, <4>5
    <3>6. CASE n # 0
      <4>1. r # <<>> /\ Kept(r)
        BY <1>1, <1>3, <3>2, <3>6, EmptySeq
      <4>2. PICK b, s, d : b = Join(r) /\ s = Join(q) /\ d = Split(b)
        OBVIOUS
      <4>3. b \in Seq(B)
        BY <3>1, <3>4, <4>1, <4>2, JoinUnfold
      <4>4. s = (h \o Separator) \o b
        <5>1. Len(q) # 1
          BY <2>1, <3>6
        <5> QED
          BY <2>1, <3>1, <3>4, <4>2, <5>1, JoinUnfold
      <4>5. "|" \in B
        BY <3>1
      <4>6. /\ s \in Seq(B) /\ Separators(s) # {}
            /\ ~EndsInBar(h) => FrontTag(s) = h /\ Behind(s) = b
            /\ EndsInBar(h) => FrontTag(s) # h
        BY <3>3, <4>3, <4>4, <4>5, HeadIsCut
      <4>7. PICK t, c : t = FrontTag(s) /\ c = Split(Behind(s))
        OBVIOUS
      <4>8. Split(s) = <<t>> \o c
        <5>1. List(s)
          BY <4>6, ListOf
        <5> QED
          BY <4>6, <4>7, <5>1, SplitUnfold
      <4>9. t \in Seq(B) /\ c \in Seq(Seq(B))
        <5>1. t \in Seq(B) /\ Behind(s) \in Seq(B)
          BY <4>6, <4>7, CutString
        <5>2. c \in Seq(Plain(B))
          BY <4>7, <5>1, SplitIsPlain
        <5>3. Plain(B) \subseteq Seq(B)
          BY DEF Plain
        <5> QED
          BY <5>1, <5>2, <5>3, SeqMonotonic
      <4>10. r \in Seq(Seq(B))
        <5>1. Seq(E) \subseteq Seq(B)
          BY <3>1, SeqMonotonic
        <5> QED
          BY <3>4, <5>1, SeqMonotonic
      <4>11. Split(s) = q <=> t = h /\ c = r
        <5>1. PICK D : D = Seq(B)
          OBVIOUS
        <5>2. t \in D /\ h \in D /\ c \in Seq(D) /\ r \in Seq(D)
          BY <3>3, <4>9, <4>10, <5>1
        <5>3. <<t>> \o c = <<h>> \o r <=> t = h /\ c = r
          BY <5>2, SameFirst
        <5> QED
          BY <3>2, <4>8, <5>3
      <4>12. (\A i \in 1 .. Len(q) - 1 : ~EndsInBar(q[i]))
                 <=> ~EndsInBar(h) /\ \A i \in 1 .. Len(r) - 1 : ~EndsInBar(r[i])
        <5>1. Len(q) - 1 = n /\ Len(r) - 1 = n - 1 /\ 1 \in 1 .. n
          BY <2>1, <3>2, <3>6
        <5>2. \A i \in 1 .. n - 1 : r[i] = q[i + 1] /\ i + 1 \in 1 .. n
          BY <3>2
        <5>3. \A i \in 1 .. n : i = 1 \/ (i - 1 \in 1 .. n - 1 /\ (i - 1) + 1 = i)
          OBVIOUS
        <5>4. ASSUME ~EndsInBar(h), \A i \in 1 .. n - 1 : ~EndsInBar(r[i]), NEW i \in 1 .. n
              PROVE  ~EndsInBar(q[i])
          <6>1. CASE i = 1
            BY <3>1, <5>4, <6>1
          <6>2. CASE i # 1
            <7>1. PICK j \in 1 .. n - 1 : j + 1 = i
              BY <5>3, <6>2
            <7>2. r[j] = q[i]
              BY <5>2, <7>1
            <7> QED
              BY <5>4, <7>1, <7>2
          <6> QED
            BY <6>1, <6>2
        <5>5. ASSUME \A i \in 1 .. n : ~EndsInBar(q[i])
              PROVE  ~EndsInBar(h) /\ \A i \in 1 .. n - 1 : ~EndsInBar(r[i])
          BY <3>1, <5>1, <5>2, <5>5
        <5> QED
          BY <5>1, <5>4, <5>5
      <4>13. CASE EndsInBar(h)
        BY <4>2, <4>6, <4>7, <4>11, <4>12, <4>13
      <4>14. CASE ~EndsInBar(h)
        <5>1. t = h /\ c = d
          BY <4>2, <4>6, <4>7, <4>14
        <5>2. d = r <=> \A i \in 1 .. Len(r) - 1 : ~EndsInBar(r[i])
          BY <4>1, <4>2
        <5> QED
          BY <4>2, <4>11, <4>12, <4>14, <5>1, <5>2
      <4> QED
        BY <4>13, <4>14
    <3> QED
      BY <3>5, <3>6
  <2>2. n + 1 \in Nat
    OBVIOUS
  <2> HIDE DEF Kept
  <2> QED
    BY <1>1, <2>1, <2>2
<1>4. Len(list) \in Nat /\ Len(list) \in P
  <2>1. Len(list) \in Nat
    BY LenProperties
  <2> HIDE DEF Kept
  <2>2. \A n \in Nat : n \in P
    BY <1>2, <1>3, Induct
  <2> QED
    BY <2>1, <2>2
<1>5. Kept(list)
  <2> HIDE DEF Kept
  <2> QED
    BY <1>1, <1>4
<1> QED
  BY <1>5

(* An order of a finite set has all its elements, each of them once.       *)
LEMMA OrderIsList ==
    ASSUME NEW T, IsFiniteSet(T), NEW list \in Orders(T)
    PROVE  /\ list \in Seq(T) /\ Len(list) = Cardinality(T)
           /\ ElementsOf(list) = T /\ (T # {} => list # <<>>)
<1>1. PICK n : n = Cardinality(T)
  OBVIOUS
<1>2. n \in Nat
  BY <1>1, FS_CardinalityType
<1>3. list \in [1 .. n -> T] /\ \A i, j \in 1 .. n : i # j => list[i] # list[j]
  BY <1>1 DEF Orders, SetToSeqs
<1>4. list \in Seq(T) /\ Len(list) = n
  BY <1>2, <1>3, FunctionIsSeq
<1>5. list \in Injection(1 .. n, T)
  BY <1>3 DEF Injection, IsInjective
<1>6. Cardinality(1 .. n) = n
  BY <1>2, FS_Interval
<1>7. list \in Surjection(1 .. n, T)
  BY <1>1, <1>5, <1>6, FS_Injection
<1>8. \A x \in T : \E i \in 1 .. n : list[i] = x
  BY <1>7 DEF Surjection
<1>9. ElementsOf(list) = T
  BY <1>3, <1>8 DEF ElementsOf
<1>10. T # {} => list # <<>>
  <2>1. n = 0 => T = {}
    BY <1>1, FS_EmptySet
  <2> QED
    BY <1>4, <2>1, EmptySeq
<1> QED
  BY <1>1, <1>4, <1>9, <1>10
=============================================================================
