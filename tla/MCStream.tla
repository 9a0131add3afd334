------------------------------ MODULE MCStream ------------------------------
(* Instances of Stream for TLC: short and long, plain and compressed.      *)
EXTENDS Stream

M(name, body, squeezed) == [name |-> name, body |-> body, squeezed |-> squeezed, exact |-> FALSE]
Exact(m) == [m EXCEPT !.exact = TRUE]

(* Without name and body; short; with a name that is too long; compressed; *)
(* not to be compressed; beyond the greatest length, and just of it.       *)
Both == {M(0, 0, 0), M(1, 1, 1), M(2, 1, 1), M(0, 3, 1), M(0, 3, 4), M(0, 6, 6)}

MCMessages ==
    [session |-> Both \cup {M(0, 5, 5)},
     client  |-> Both \cup {Exact(M(0, 3, 1))}]

(* Nothing but short messages and such as can be compressed.               *)
MCSqueezable ==
    [session |-> {M(1, 1, 1), M(0, 3, 1)},
     client  |-> {M(1, 1, 1), M(0, 3, 1)}]
=============================================================================
