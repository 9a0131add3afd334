---------------------------- MODULE FifoChannel ----------------------------
(***************************************************************************)
(* What one outgoing queue of a session promises to the threads that use   *)
(* it: packets leave in the order in which they were accepted, each of     *)
(* them once, and as long as the connection is open every accepted packet  *)
(* does leave.                                                             *)
(***************************************************************************)
EXTENDS Sequences

CONSTANT Packets

VARIABLES pending,    \* accepted and not yet delivered, oldest first
          delivered,  \* delivered, oldest first
          open        \* the connection is open

vars == <<pending, delivered, open>>

Init == pending = <<>> /\ delivered = <<>> /\ open = TRUE

Accept ==
    \E p \in Packets :
        /\ pending' = Append(pending, p)
        /\ UNCHANGED <<delivered, open>>

Deliver ==
    /\ pending # <<>>
    /\ delivered' = Append(delivered, Head(pending))
    /\ pending' = Tail(pending)
    /\ UNCHANGED open

Disconnect ==
    /\ open' = FALSE
    /\ UNCHANGED <<pending, delivered>>

Next == Accept \/ Deliver \/ Disconnect

Spec == Init /\ [][Next]_vars /\ WF_vars(open /\ Deliver)
=============================================================================
