---------------------------- MODULE MCClientApi ----------------------------
(* Instances of ClientApi for TLC: what threads and callbacks do.          *)
EXTENDS ClientApi, TLC

CONSTANTS t1, t2

a == <<"a">>
b == <<"b">>
ab == <<"a", "|", "|", "b">>

MCCallbacks == {"k1", "k2", "k3", "k4"}
MCTopics == {"x", "y"}

Program(p, q) == t1 :> p @@ t2 :> q

MCPrograms ==
    {Program(<<Call("k1")>>, <<Call("k4")>>),
     Program(<<Call("k1")>>, <<Subscribe("y", a)>>),
     Program(<<Subscribe("x", ab)>>, <<Cancel("x", a), Subscribe("x", <<>>)>>)}

(* The callback of k1 calls and subscribes, that of topic x calls, that of *)
(* topic y subscribes.                                                     *)
MCHandlers ==
    "k1" :> <<Call("k3"), Subscribe("x", b)>> @@ "k2" :> <<>> @@ "k3" :> <<>> @@ "k4" :> <<>>
        @@ "x" :> <<Call("k2")>> @@ "y" :> <<Subscribe("x", b)>>
=============================================================================
