------------------------------ MODULE Workers ------------------------------
(***************************************************************************)
(* How rpc_server::run deals sessions out to io threads and to resources,  *)
(* and what the sessions of one io thread share.                           *)
(*                                                                         *)
(* Every accepted session gets an io_context (one thread each), a Resource *)
(* and a compress_detail.  The first is chosen by io_context_pool, the     *)
(* other two by a counter in run().  A session uses its Resource and its   *)
(* compress_detail without a lock while its thread is inside deal(); the   *)
(* reply of coro_write stays in the buffer of the compress_detail while    *)
(* the read coroutine is suspended in async_write.                         *)
(***************************************************************************)
EXTENDS Naturals, FiniteSets

CONSTANTS Sessions,
          Parallel,     \* parallel_num of run(): threads, and resources
          AcceptErrors, \* bound: accepts that fail
          Nothing       \* value of buf: no reply of coro_write

ASSUME WorkersAssumption ==
    /\ Parallel \in Nat \ {0}
    /\ AcceptErrors \in Nat
    /\ Nothing \notin Sessions

VARIABLES io_context_index, \* io_context_index_ of the pool
          index,            \* index of run(): the next resource
          failed,           \* accepts that have failed
          thread,           \* thread[s]: the io_context of session s
          rc,               \* rc[s]: index of its Resource and compress_detail
          at,               \* at[s]: where its read coroutine is
          buf               \* buf[i]: whose reply the buffer of detail i holds

vars == <<io_context_index, index, failed, thread, rc, at, buf>>

Slots == 0 .. Parallel - 1

Places == {"new", "reading", "deal", "writing", "writing_buf"}

TypeOK ==
    /\ io_context_index \in Slots
    /\ index \in Slots
    /\ failed \in 0 .. AcceptErrors
    /\ thread \in [Sessions -> Slots]
    /\ rc \in [Sessions -> Slots]
    /\ at \in [Sessions -> Places]
    /\ buf \in [Slots -> Sessions \cup {Nothing}]

Init ==
    /\ io_context_index = 0
    /\ index = 0
    /\ failed = 0
    /\ thread = [s \in Sessions |-> 0]
    /\ rc = [s \in Sessions |-> 0]
    /\ at = [s \in Sessions |-> "new"]
    /\ buf = [i \in Slots |-> Nothing]

(* get_io_context() moves on at every turn of the accept loop ...          *)
NextIo == IF io_context_index + 1 = Parallel THEN 0 ELSE io_context_index + 1

(* ... and run() moves on after an accept without error.                   *)
NextIndexNoWrap == IF index + 1 = Parallel THEN index ELSE index + 1
NextIndexLate == IF index = Parallel THEN 0 ELSE index + 1
NextIndex == IF index + 1 = Parallel THEN 0 ELSE index + 1

Accept(s) ==
    /\ at[s] = "new"
    /\ thread' = [thread EXCEPT ![s] = io_context_index]
    /\ rc' = [rc EXCEPT ![s] = index]
    /\ at' = [at EXCEPT ![s] = "reading"]
    /\ io_context_index' = NextIo
    /\ index' = NextIndex
    /\ UNCHANGED <<failed, buf>>

AcceptError ==
    /\ failed < AcceptErrors
    /\ failed' = failed + 1
    /\ io_context_index' = NextIo
    /\ UNCHANGED <<index, thread, rc, at, buf>>

(* The io thread of session s is in no handler.                            *)
ThreadIdle(s) == \A u \in Sessions : at[u] = "deal" => thread[u] # thread[s]

(* A message has been read: deal() begins.  A compressed body is unpacked  *)
(* into the shared buffer.                                                 *)
Deal(s) ==
    /\ at[s] = "reading" /\ ThreadIdle(s)
    /\ at' = [at EXCEPT ![s] = "deal"]
    /\ buf' \in {buf, [buf EXCEPT ![rc[s]] = Nothing]}
    /\ UNCHANGED <<io_context_index, index, failed, thread, rc>>

(* deal() returns without coro_respond().                                  *)
DealEnd(s) ==
    /\ at[s] = "deal"
    /\ at' = [at EXCEPT ![s] = "reading"]
    /\ UNCHANGED <<io_context_index, index, failed, thread, rc, buf>>

(* coro_write(): a reply below the threshold is written from where it is,  *)
(* a longer one from the shared buffer; the coroutine suspends.            *)
CoroWrite(s) ==
    /\ at[s] = "deal"
    /\ \/ /\ at' = [at EXCEPT ![s] = "writing"]
          /\ UNCHANGED buf
       \/ /\ at' = [at EXCEPT ![s] = "writing_buf"]
          /\ buf' = [buf EXCEPT ![rc[s]] = s]
    /\ UNCHANGED <<io_context_index, index, failed, thread, rc>>

(* The write has ended, and with it deal().                                *)
CoroWriteEnd(s) ==
    /\ at[s] \in {"writing", "writing_buf"} /\ ThreadIdle(s)
    /\ at' = [at EXCEPT ![s] = "reading"]
    /\ UNCHANGED <<io_context_index, index, failed, thread, rc, buf>>

Next ==
    \/ AcceptError
    \/ \E s \in Sessions :
          Accept(s) \/ Deal(s) \/ DealEnd(s) \/ CoroWrite(s) \/ CoroWriteEnd(s)

Spec == Init /\ [][Next]_vars

-----------------------------------------------------------------------------
(* Two threads are never in a handler with the same Resource and the same  *)
(* compress_detail, neither of which is locked ("you will not get          *)
(* competition").                                                          *)
NoCompetition ==
    \A s, u \in Sessions :
        at[s] = "deal" /\ at[u] = "deal" /\ s # u => rc[s] # rc[u]

(* As long as no accept has failed, the promise holds: the two counters    *)
(* move together.                                                          *)
PairedUntilError == failed = 0 => NoCompetition

(* Resources are shared out evenly, accept errors or not: the numbers of   *)
(* sessions that have been given two resources differ by one at most.      *)
ResourcesBalanced ==
    LET Load(i) == Cardinality({s \in Sessions : at[s] # "new" /\ rc[s] = i})
    IN  \A i, j \in Slots : Load(i) <= Load(j) + 1

(* The buffer a reply is being written from holds that reply until the     *)
(* write is over: the peer, which asserts the length of what it unpacks,   *)
(* gets the bytes that compress() produced.                                *)
ReplyIntact ==
    \A s \in Sessions : at[s] = "writing_buf" => buf[rc[s]] = s
=============================================================================
