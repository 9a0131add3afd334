------------------------------- MODULE PubSub -------------------------------
(***************************************************************************)
(* What the server's subscription table promises to publishers: a relation *)
(* between sessions and (topic, tag) pairs in which only living sessions   *)
(* occur.  A publish picks up the sessions related to a pair, all of them  *)
(* alive, and they stay related and alive until the publish lets go.       *)
(***************************************************************************)
CONSTANTS Sessions, Topics, Tags, Publishers

VARIABLES subs,     \* subs[s]: the pairs session s is subscribed to
          dead,     \* the sessions whose object has been destroyed
          targets   \* targets[p]: the sessions publisher p still has to reach

vars == <<subs, dead, targets>>

Pairs == Topics \X Tags

Init ==
    /\ subs = [s \in Sessions |-> {}]
    /\ dead = {}
    /\ targets = [p \in Publishers |-> {}]

Subscribe(s) ==
    \E P \in SUBSET Pairs :
        /\ s \notin dead
        /\ subs' = [subs EXCEPT ![s] = @ \cup P]
        /\ UNCHANGED <<dead, targets>>

(* Not while a publisher is on its way to some session.                    *)
Unsubscribe(s) ==
    \E pair \in Pairs :
        /\ \A p \in Publishers : targets[p] = {}
        /\ subs' = [subs EXCEPT ![s] = @ \ {pair}]
        /\ UNCHANGED <<dead, targets>>

Destroy(s) ==
    /\ subs[s] = {}
    /\ dead' = dead \cup {s}
    /\ UNCHANGED <<subs, targets>>

PickUp(p) ==
    \E pair \in Pairs :
        /\ targets[p] = {}
        /\ targets' = [targets EXCEPT ![p] = {s \in Sessions : pair \in subs[s]}]
        /\ UNCHANGED <<subs, dead>>

Reach(p) ==
    \E s \in targets[p] :
        /\ targets' = [targets EXCEPT ![p] = @ \ {s}]
        /\ UNCHANGED <<subs, dead>>

Next ==
    \/ \E s \in Sessions : Subscribe(s) \/ Unsubscribe(s) \/ Destroy(s)
    \/ \E p \in Publishers : PickUp(p) \/ Reach(p)

Spec == Init /\ [][Next]_vars
=============================================================================
