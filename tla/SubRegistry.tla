---------------------------- MODULE SubRegistry ----------------------------
(***************************************************************************)
(* The subscription table of the server, sub_conn_ (include/rpc_server.hpp)*)
(* as a value: a map from topic hash to a map from tag hash to the set of  *)
(* sessions subscribed, and the two operations that change it.             *)
(***************************************************************************)

CONSTANTS Sessions,  \* session objects, by address
          Topics,    \* hash values of topics
          Tags       \* hash values of tags

Registry == UNION {[T -> UNION {[G -> SUBSET Sessions] : G \in SUBSET Tags}] :
                   T \in SUBSET Topics}

EmptyRegistry == [t \in {} |-> {}]

(* Session s is in the set that publish() finds under topic t and tag g.   *)
Holds(R, t, g, s) ==
    /\ t \in DOMAIN R
    /\ g \in DOMAIN R[t]
    /\ s \in R[t][g]

(* The sessions found under a topic and a tag, none if a lookup fails.     *)
Conns(R, t, g) == {s \in Sessions : Holds(R, t, g, s)}

(* emplace / overwrite, and erase, of an entry of a map.                   *)
Put(f, k, v) == [x \in DOMAIN f \cup {k} |-> IF x = k THEN v ELSE f[x]]

Erase(f, k) == [x \in DOMAIN f \ {k} |-> f[x]]

(* add_subscribe: sess joins the sets of the given tags; missing maps and  *)
(* sets are created.                                                       *)
AddSubscribe(R, t, G, s) ==
    LET tag_conn == IF t \in DOMAIN R THEN R[t] ELSE [g \in {} |-> {}]
    IN  Put(R, t, [g \in DOMAIN tag_conn \cup G |->
                       (IF g \in DOMAIN tag_conn THEN tag_conn[g] ELSE {})
                           \cup (IF g \in G THEN {s} ELSE {})])

(* remove_subscribe without the removal of what has become empty.          *)
RemoveAndKeepEmpty(R, t, g, s) ==
    IF t \in DOMAIN R /\ g \in DOMAIN R[t] THEN [R EXCEPT ![t][g] = @ \ {s}] ELSE R

(* remove_subscribe: sess leaves one set; a set, then a map, that becomes  *)
(* empty is erased.                                                        *)
RemoveSubscribe(R, t, g, s) ==
    IF t \notin DOMAIN R THEN R
    ELSE IF g \notin DOMAIN R[t] THEN R
    ELSE LET conns    == R[t][g] \ {s}
             tag_conn == IF conns # {} THEN Put(R[t], g, conns) ELSE Erase(R[t], g)
         IN  IF DOMAIN tag_conn # {} THEN Put(R, t, tag_conn) ELSE Erase(R, t)

(* No map and no set is left behind empty.                                 *)
Compact(R) ==
    \A t \in DOMAIN R :
        /\ DOMAIN R[t] # {}
        /\ \A g \in DOMAIN R[t] : R[t][g] # {}
=============================================================================
