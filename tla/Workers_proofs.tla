--------------------------- MODULE Workers_proofs ---------------------------
(* A proof about the sharing of resources between io threads, for any      *)
(* number of threads and sessions.                                         *)
EXTENDS Workers, FiniteSetTheorems, TLAPS

(* As long as no accept has failed, both counters agree, and a session's   *)
(* resource is the one of its thread; a thread is in one handler at most.  *)
IInv ==
    /\ TypeOK
    /\ failed = 0 => io_context_index = index
    /\ failed = 0 => \A s \in Sessions : at[s] # "new" => thread[s] = rc[s]
    /\ \A s, u \in Sessions :
           at[s] = "deal" /\ at[u] = "deal" /\ thread[s] = thread[u] => s = u

LEMMA Invariant == Spec => []IInv
<1>1. Init => IInv
  BY WorkersAssumption DEF Init, IInv, TypeOK, Slots, Places
<1>2. IInv /\ [Next]_vars => IInv'
  <2> SUFFICES ASSUME IInv, [Next]_vars PROVE IInv'
    OBVIOUS
  <2> USE WorkersAssumption DEF IInv, TypeOK, Slots, Places
  <2>1. ASSUME NEW s \in Sessions, Accept(s) PROVE IInv'
    BY <2>1 DEF Accept, NextIo, NextIndex
  <2>2. ASSUME NEW s \in Sessions, Deal(s) PROVE IInv'
    <3>1. buf' \in [Slots -> Sessions \cup {Nothing}]
      BY <2>2 DEF Deal
    <3>2. \A u \in Sessions \ {s} :
              at'[u] = at[u] /\ (at[u] = "deal" => thread[u] # thread[s])
      BY <2>2 DEF Deal, ThreadIdle
    <3> QED
      BY <2>2, <3>1, <3>2 DEF Deal
  <2>3. ASSUME NEW s \in Sessions, DealEnd(s) \/ CoroWrite(s) \/ CoroWriteEnd(s)
        PROVE  IInv'
    <3>1. buf' \in [Slots -> Sessions \cup {Nothing}]
      BY <2>3 DEF DealEnd, CoroWrite, CoroWriteEnd
    <3>2. /\ at' \in [Sessions -> Places] /\ at'[s] # "deal" /\ at[s] # "new"
          /\ \A u \in Sessions \ {s} : at'[u] = at[u]
      BY <2>3 DEF DealEnd, CoroWrite, CoroWriteEnd
    <3>3. UNCHANGED <<io_context_index, index, failed, thread, rc>>
      BY <2>3 DEF DealEnd, CoroWrite, CoroWriteEnd
    <3> QED
      BY <3>1, <3>2, <3>3
  <2>4. CASE AcceptError
    <3>1. failed' \in 0 .. AcceptErrors /\ failed' # 0
      BY <2>4 DEF AcceptError
    <3>2. io_context_index' \in Slots
      BY <2>4 DEF AcceptError, NextIo
    <3> QED
      BY <2>4, <3>1, <3>2 DEF AcceptError
  <2>5. CASE UNCHANGED vars
    BY <2>5 DEF vars
  <2> QED
    BY <2>1, <2>2, <2>3, <2>4, <2>5 DEF Next
<1> QED
  BY <1>1, <1>2, PTL DEF Spec

(* The two counters stay in the range of the vectors they index.           *)
THEOREM TypeCorrect == Spec => []TypeOK
<1>1. IInv => TypeOK
  BY DEF IInv
<1> QED
  BY <1>1, Invariant, PTL

(* Until an accept fails no two threads ever use a resource, or a          *)
(* compress_detail, at the same time.                                      *)
THEOREM NoErrorNoCompetition == Spec => []PairedUntilError
<1>1. IInv => PairedUntilError
  BY DEF IInv, PairedUntilError, NoCompetition, TypeOK, Places
<1> QED
  BY <1>1, Invariant, PTL

-----------------------------------------------------------------------------
(* Resources are given out in turns: in the present turn those before      *)
(* index have been given once more than the others.                        *)
Given(i) == {s \in Sessions : at[s] # "new" /\ rc[s] = i}

Turn(k) ==
    \A i \in Slots :
        IsFiniteSet(Given(i)) /\ Cardinality(Given(i)) = IF i < index THEN k + 1 ELSE k

InTurns == \E k \in Nat : Turn(k)

LEMMA InTurnsInit == Init => InTurns
<1> SUFFICES ASSUME Init PROVE InTurns
  OBVIOUS
<1>1. index = 0 /\ \A i \in Slots : Given(i) = {} /\ ~(i < 0)
  BY DEF Init, Given, Slots
<1>2. Turn(0)
  BY <1>1, FS_EmptySet DEF Turn
<1> QED
  BY <1>2 DEF InTurns

LEMMA InTurnsAccept ==
    ASSUME TypeOK, InTurns, NEW s \in Sessions, Accept(s)
    PROVE  InTurns'
<1>1. PICK k \in Nat : Turn(k)
  BY DEF InTurns
<1>2. Parallel \in Nat \ {0} /\ index \in 0 .. Parallel - 1 /\ Slots = 0 .. Parallel - 1
  BY WorkersAssumption DEF TypeOK, Slots
<1>3. /\ at[s] = "new" /\ at'[s] = "reading" /\ rc'[s] = index
      /\ \A u \in Sessions \ {s} : at'[u] = at[u] /\ rc'[u] = rc[u]
      /\ index' = IF index + 1 = Parallel THEN 0 ELSE index + 1
  BY DEF Accept, NextIndex, TypeOK
<1>4. s \notin Given(index) /\ \A i \in Slots : i = index => Given(i)' = Given(i) \cup {s}
  BY <1>3 DEF Given, Accept
<1>5. \A i \in Slots \ {index} : Given(i)' = Given(i)
  BY <1>3 DEF Given
<1>6. IsFiniteSet(Given(index)) /\ Cardinality(Given(index)) = k
  BY <1>1, <1>2 DEF Turn
<1>7. IsFiniteSet(Given(index) \cup {s}) /\ Cardinality(Given(index) \cup {s}) = k + 1
  BY <1>4, <1>6, FS_AddElement
<1>8. \A i \in Slots : /\ IsFiniteSet(Given(i)')
                       /\ Cardinality(Given(i)') = IF i < index + 1 THEN k + 1 ELSE k
  <2> SUFFICES ASSUME NEW i \in Slots
               PROVE  /\ IsFiniteSet(Given(i)')
                      /\ Cardinality(Given(i)') = IF i < index + 1 THEN k + 1 ELSE k
    OBVIOUS
  <2>1. CASE i = index
    <3>1. Given(i)' = Given(index) \cup {s}
      BY <1>4, <2>1
    <3> QED
      BY <1>2, <1>7, <2>1, <3>1
  <2>2. CASE i # index
    <3>1. Given(i)' = Given(i)
      BY <1>5, <2>2
    <3>2. IsFiniteSet(Given(i)) /\ Cardinality(Given(i)) = IF i < index THEN k + 1 ELSE k
      BY <1>1 DEF Turn
    <3>3. i < index <=> i < index + 1
      BY <1>2, <2>2
    <3> QED
      BY <3>1, <3>2, <3>3
  <2> QED
    BY <2>1, <2>2
<1>9. CASE index + 1 = Parallel
  <2>1. \A i \in Slots : i < index + 1 /\ ~(i < index')
    BY <1>2, <1>3, <1>9
  <2>2. Turn(k + 1)'
    BY <1>8, <2>1 DEF Turn
  <2> QED
    BY <2>2 DEF InTurns
<1>10. CASE index + 1 # Parallel
  <2>1. Turn(k)'
    BY <1>3, <1>8, <1>10 DEF Turn
  <2> QED
    BY <2>1 DEF InTurns
<1> QED
  BY <1>9, <1>10

LEMMA InTurnsOthers ==
    ASSUME TypeOK, InTurns, index' = index, rc' = rc,
           \A s \in Sessions : at'[s] = "new" <=> at[s] = "new"
    PROVE  InTurns'
<1>1. \A i \in Slots : Given(i)' = Given(i)
  BY DEF Given
<1>2. \A k \in Nat : Turn(k) => Turn(k)'
  BY <1>1 DEF Turn
<1> QED
  BY <1>2 DEF InTurns

(* However many accepts fail, the resources are shared out evenly.         *)
THEOREM EvenlyShared == Spec => []ResourcesBalanced
<1>1. TypeOK /\ InTurns /\ [Next]_vars => InTurns'
  <2> SUFFICES ASSUME TypeOK, InTurns, [Next]_vars PROVE InTurns'
    OBVIOUS
  <2>1. ASSUME NEW s \in Sessions, Accept(s) PROVE InTurns'
    BY <2>1, InTurnsAccept
  <2>2. ASSUME NEW s \in Sessions, Deal(s) \/ DealEnd(s) \/ CoroWrite(s) \/ CoroWriteEnd(s)
        PROVE  InTurns'
    <3>1. index' = index /\ rc' = rc /\ \A u \in Sessions : at'[u] = "new" <=> at[u] = "new"
      BY <2>2 DEF Deal, DealEnd, CoroWrite, CoroWriteEnd, TypeOK
    <3> QED
      BY <3>1, InTurnsOthers
  <2>3. CASE AcceptError \/ UNCHANGED vars
    BY <2>3, InTurnsOthers DEF AcceptError, vars
  <2> QED
    BY <2>1, <2>2, <2>3 DEF Next
<1>2. InTurns => ResourcesBalanced
  <2> SUFFICES ASSUME NEW k \in Nat, Turn(k), NEW i \in Slots, NEW j \in Slots
               PROVE  Cardinality(Given(i)) <= Cardinality(Given(j)) + 1
    BY DEF InTurns, ResourcesBalanced, Given
  <2>1. Cardinality(Given(i)) \in {k, k + 1} /\ Cardinality(Given(j)) \in {k, k + 1}
    BY DEF Turn
  <2> QED
    BY <2>1
<1> QED
  BY <1>1, <1>2, InTurnsInit, TypeCorrect, PTL DEF Spec
=============================================================================
