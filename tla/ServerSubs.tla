----------------------------- MODULE ServerSubs -----------------------------
(***************************************************************************)
(* Subscriptions and the lifetime of sessions on the server.               *)
(*                                                                         *)
(* sub_conn_ holds raw session pointers and is guarded by sub_conn_mtx_.   *)
(* A session object lives as long as a coroutine or an outstanding write   *)
(* holds a shared_ptr to it: its read coroutine, its kick-timer coroutine, *)
(* and the completion handler of its publish chain.  Both coroutines run   *)
(* on the one thread of the session's io_context, so they interleave only  *)
(* where they suspend; publishers and the io threads of other sessions     *)
(* interleave at the mutex.                                                *)
(***************************************************************************)
EXTENDS SubRegistry

CONSTANTS Publishers,  \* threads that call rpc_server::publish
          Star,        \* the hash of the tag "*"
          Free         \* value of mtx: nobody holds the mutex

ASSUME SubsAssumption ==
    /\ Star \in Tags
    /\ Free \notin Publishers

Pairs == Topics \X Tags

VARIABLES sub_conn,  \* the table
          mtx,       \* sub_conn_mtx_: the publisher that holds it, or Free
          keys,      \* keys[s]: subscribe_keys_hash_, as a set of pairs
          reader,    \* reader[s]: the read coroutine
          kicker,    \* kicker[s]: the kick-timer coroutine
          io,        \* io[s]: what the io thread is doing for session s
          job,       \* job[s]: the pairs of the message being dealt with
          todo,      \* todo[s]: the pairs still to be removed from the table
          inbuf,     \* inbuf[s]: a message has been read, its deal() is due
          open,      \* open[s]: socket_.is_open()
          chain,     \* chain[s]: the chain of writes of pub_send_queue_
          round,     \* round[p]: where publisher p is in publish()
          about,     \* about[p]: the topic and tag p publishes, <<>> outside
          targets    \* targets[p]: the rest of p's copy of a conn_set

sessionVars == <<keys, reader, kicker, io, job, todo, inbuf, open, chain>>
publisherVars == <<mtx, round, about, targets>>
vars == <<sub_conn, sessionVars, publisherVars>>

TypeOK ==
    /\ sub_conn \in Registry
    /\ mtx \in Publishers \cup {Free}
    /\ keys \in [Sessions -> SUBSET Pairs]
    /\ reader \in [Sessions -> {"none", "up", "done"}]
    /\ kicker \in [Sessions -> {"none", "up", "done"}]
    /\ io \in [Sessions -> {"idle", "adding", "cancelling", "free_reader", "free_kicker"}]
    /\ job \in [Sessions -> SUBSET Pairs]
    /\ todo \in [Sessions -> SUBSET Pairs]
    /\ inbuf \in [Sessions -> BOOLEAN]
    /\ open \in [Sessions -> BOOLEAN]
    /\ chain \in [Sessions -> {"empty", "busy", "stuck"}]
    /\ round \in [Publishers -> {"out", "star", "tag"}]
    /\ about \in [Publishers -> Pairs \cup {<<>>}]
    /\ targets \in [Publishers -> SUBSET Sessions]

Init ==
    /\ sub_conn = EmptyRegistry
    /\ mtx = Free
    /\ keys = [s \in Sessions |-> {}]
    /\ reader = [s \in Sessions |-> "none"]
    /\ kicker = [s \in Sessions |-> "none"]
    /\ io = [s \in Sessions |-> "idle"]
    /\ job = [s \in Sessions |-> {}]
    /\ todo = [s \in Sessions |-> {}]
    /\ inbuf = [s \in Sessions |-> FALSE]
    /\ open = [s \in Sessions |-> FALSE]
    /\ chain = [s \in Sessions |-> "empty"]
    /\ round = [p \in Publishers |-> "out"]
    /\ about = [p \in Publishers |-> <<>>]
    /\ targets = [p \in Publishers |-> {}]

(* The last shared_ptr to session s has been released.                     *)
Destroyed(s) == reader[s] = "done" /\ kicker[s] = "done" /\ chain[s] # "busy"

-----------------------------------------------------------------------------
(* The lock is free for one call of add_subscribe or remove_subscribe.     *)
MtxIgnored == TRUE
MtxFree == mtx = Free

(* rpc_server::run accepts a connection, session::go spawns both coroutines*)
Go(s) ==
    /\ reader[s] = "none"
    /\ reader' = [reader EXCEPT ![s] = "up"]
    /\ kicker' = [kicker EXCEPT ![s] = "up"]
    /\ open' = [open EXCEPT ![s] = TRUE]
    /\ UNCHANGED <<sub_conn, keys, io, job, todo, inbuf, chain, publisherVars>>

(* The socket has delivered a whole message; the read coroutine is due.    *)
Receive(s) ==
    /\ reader[s] = "up" /\ io[s] = "idle" /\ open[s] /\ ~inbuf[s]
    /\ inbuf' = [inbuf EXCEPT ![s] = TRUE]
    /\ UNCHANGED <<sub_conn, keys, reader, kicker, io, job, todo, open, chain, publisherVars>>

Dealing(s) ==
    /\ reader[s] = "up" /\ io[s] = "idle" /\ inbuf[s]
    /\ inbuf' = [inbuf EXCEPT ![s] = FALSE]

(* deal(), sub_pub, first half: add_subscribe under the mutex.             *)
DealSub(s, t, G) ==
    /\ Dealing(s)
    /\ MtxFree
    /\ sub_conn' = AddSubscribe(sub_conn, t, G, s)
    /\ job' = [job EXCEPT ![s] = {t} \X G]
    /\ io' = [io EXCEPT ![s] = "adding"]
    /\ UNCHANGED <<keys, reader, kicker, todo, open, chain, publisherVars>>

(* Second half: the session's own record of what it subscribed to.         *)
RecordTagOnly(s) == keys[s] \cup {pair[2] : pair \in job[s]}
RecordReplaced(s) == job[s]
Record(s) == keys[s] \cup job[s]

DealSubEnd(s) ==
    /\ io[s] = "adding"
    /\ keys' = [keys EXCEPT ![s] = Record(s)]
    /\ io' = [io EXCEPT ![s] = "idle"]
    /\ job' = [job EXCEPT ![s] = {}]
    /\ UNCHANGED <<sub_conn, reader, kicker, todo, inbuf, open, chain, publisherVars>>

(* deal(), cancel_sub_pub: one remove_subscribe per tag, each under the    *)
(* mutex, then the session's own record.                                   *)
DealCancel(s, t, G) ==
    /\ Dealing(s)
    /\ job' = [job EXCEPT ![s] = {t} \X G]
    /\ todo' = [todo EXCEPT ![s] = {t} \X G]
    /\ io' = [io EXCEPT ![s] = "cancelling"]
    /\ UNCHANGED <<sub_conn, keys, reader, kicker, open, chain, publisherVars>>

DealCancelEnd(s) ==
    /\ io[s] = "cancelling" /\ todo[s] = {}
    /\ keys' = [keys EXCEPT ![s] = @ \ job[s]]
    /\ io' = [io EXCEPT ![s] = "idle"]
    /\ job' = [job EXCEPT ![s] = {}]
    /\ UNCHANGED <<sub_conn, reader, kicker, todo, inbuf, open, chain, publisherVars>>

(* One call of remove_subscribe, by deal() or by free_rc().                *)
Remove(s, t, g) ==
    /\ <<t, g>> \in todo[s]
    /\ MtxFree
    /\ sub_conn' = RemoveSubscribe(sub_conn, t, g, s)
    /\ todo' = [todo EXCEPT ![s] = @ \ {<<t, g>>}]
    /\ UNCHANGED <<keys, reader, kicker, io, job, inbuf, open, chain, publisherVars>>

(* deal() of any other message: the table is not touched.                  *)
DealOther(s) ==
    /\ Dealing(s)
    /\ UNCHANGED <<sub_conn, keys, reader, kicker, io, job, todo, open, chain, publisherVars>>

(* What free_rc() goes through.                                            *)
ToFreeIfOpen(s) == IF open[s] THEN keys[s] ELSE {}
ToFree(s) == keys[s]

(* free_rc() begins: the socket is closed, the removals follow.            *)
FreeRc(s, by) ==
    /\ io[s] = "idle"
    /\ open' = [open EXCEPT ![s] = FALSE]
    /\ todo' = [todo EXCEPT ![s] = ToFree(s)]
    /\ io' = [io EXCEPT ![s] = by]
    /\ UNCHANGED <<sub_conn, keys, reader, kicker, job, inbuf, chain, publisherVars>>

(* The read coroutine gets an error or an invalid header instead of a      *)
(* message, also when the socket has been closed under it.                 *)
ReadFail(s) == reader[s] = "up" /\ ~inbuf[s] /\ FreeRc(s, "free_reader")

(* The kick-timer coroutine finds that 10 s have passed without a message. *)
Kick(s) == kicker[s] = "up" /\ FreeRc(s, "free_kicker")

(* free_rc() returns, and with it the coroutine that called it: the read   *)
(* coroutine leaves its loop, the kick loop finds the socket closed.       *)
FreeRcEnd(s) ==
    /\ io[s] \in {"free_reader", "free_kicker"} /\ todo[s] = {}
    /\ keys' = [keys EXCEPT ![s] = {}]
    /\ reader' = [reader EXCEPT ![s] = IF io[s] = "free_reader" THEN "done" ELSE @]
    /\ kicker' = [kicker EXCEPT ![s] = IF io[s] = "free_kicker" THEN "done" ELSE @]
    /\ io' = [io EXCEPT ![s] = "idle"]
    /\ UNCHANGED <<sub_conn, job, todo, inbuf, open, chain, publisherVars>>

(* The wait of the kick timer ends, cancelled, and the socket is closed.   *)
KickerStays(s) == FALSE
KickerLeaves(s) == ~open[s]

KickerExit(s) ==
    /\ kicker[s] = "up" /\ io[s] = "idle"
    /\ KickerLeaves(s)
    /\ kicker' = [kicker EXCEPT ![s] = "done"]
    /\ UNCHANGED <<sub_conn, keys, reader, io, job, todo, inbuf, open, chain, publisherVars>>

(* The application closes the socket (session::close_socket).              *)
CloseSocket(s) ==
    /\ open[s]
    /\ open' = [open EXCEPT ![s] = FALSE]
    /\ UNCHANGED <<sub_conn, keys, reader, kicker, io, job, todo, inbuf, chain, publisherVars>>

(* The publish chain drains its queue, or stops at an error for good.      *)
ChainEnd(s) ==
    /\ chain[s] = "busy" /\ io[s] = "idle"
    /\ \/ chain' = [chain EXCEPT ![s] = "empty"] /\ UNCHANGED open
       \/ chain' = [chain EXCEPT ![s] = "stuck"] /\ open' = [open EXCEPT ![s] = FALSE]
    /\ UNCHANGED <<sub_conn, keys, reader, kicker, io, job, todo, inbuf, publisherVars>>

-----------------------------------------------------------------------------
(* publish(): take the mutex, find the topic, dispatch to "*" ...          *)
Publish(p, t, g) ==
    /\ round[p] = "out"
    /\ MtxFree
    /\ t \in DOMAIN sub_conn
    /\ mtx' = p
    /\ round' = [round EXCEPT ![p] = "star"]
    /\ about' = [about EXCEPT ![p] = <<t, g>>]
    /\ targets' = [targets EXCEPT ![p] = Conns(sub_conn, t, Star)]
    /\ UNCHANGED <<sub_conn, sessionVars>>

(* ... conn->publish() for each session of the copied set, unless          *)
(* check_verify is asked for and the session has not enabled publishing ...*)
PublishTo(p, s) ==
    /\ s \in targets[p]
    /\ targets' = [targets EXCEPT ![p] = @ \ {s}]
    /\ \/ chain' = [chain EXCEPT ![s] = IF @ = "empty" THEN "busy" ELSE @]
       \/ UNCHANGED chain
    /\ UNCHANGED <<sub_conn, keys, reader, kicker, io, job, todo, inbuf, open, mtx, round, about>>

(* ... then to the tag, still under the mutex ...                          *)
PublishTag(p) ==
    /\ round[p] = "star" /\ targets[p] = {}
    /\ round' = [round EXCEPT ![p] = "tag"]
    /\ targets' = [targets EXCEPT ![p] = Conns(sub_conn, about[p][1], about[p][2])]
    /\ UNCHANGED <<sub_conn, sessionVars, mtx, about>>

(* ... and release the mutex.                                              *)
PublishEnd(p) ==
    /\ round[p] = "tag" /\ targets[p] = {}
    /\ round' = [round EXCEPT ![p] = "out"]
    /\ mtx' = Free
    /\ about' = [about EXCEPT ![p] = <<>>]
    /\ UNCHANGED <<sub_conn, sessionVars, targets>>

Messages == (SUBSET Tags) \ {{}}

Next ==
    \/ \E s \in Sessions :
        \/ Go(s)
        \/ Receive(s)
        \/ \E t \in Topics, G \in Messages : DealSub(s, t, G)
        \/ DealSubEnd(s)
        \/ \E t \in Topics, G \in Messages : DealCancel(s, t, G)
        \/ DealCancelEnd(s)
        \/ \E t \in Topics, g \in Tags : Remove(s, t, g)
        \/ DealOther(s)
        \/ ReadFail(s)
        \/ Kick(s)
        \/ FreeRcEnd(s)
        \/ KickerExit(s)
        \/ CloseSocket(s)
        \/ ChainEnd(s)
    \/ \E p \in Publishers :
        \/ \E t \in Topics, g \in Tags : Publish(p, t, g)
        \/ \E s \in Sessions : PublishTo(p, s)
        \/ PublishTag(p)
        \/ PublishEnd(p)

Spec == Init /\ [][Next]_vars

(* The steps that the io thread of session s takes whenever it can.        *)
IoStep(s) ==
    \/ \E t \in Topics, G \in Messages : DealSub(s, t, G) \/ DealCancel(s, t, G)
    \/ DealOther(s)
    \/ DealSubEnd(s)
    \/ DealCancelEnd(s)
    \/ \E t \in Topics, g \in Tags : Remove(s, t, g)
    \/ FreeRcEnd(s)

PublisherStep(p) ==
    \/ \E s \in Sessions : PublishTo(p, s)
    \/ PublishTag(p)
    \/ PublishEnd(p)

(* A publisher inside publish() goes on.  The io_context runs every handler*)
(* that is ready, and a thread that waits for sub_conn_mtx_ gets it some   *)
(* time.  Nothing is assumed of clients, of the kick timer or of the       *)
(* application: they may stay silent forever.  A read on a closed socket   *)
(* fails, a wait that was cancelled ends, an outstanding write on a closed *)
(* socket ends.                                                            *)
Fairness ==
    /\ \A p \in Publishers : WF_vars(PublisherStep(p))
    /\ \A s \in Sessions :
        /\ SF_vars(IoStep(s))
        /\ SF_vars(~open[s] /\ ReadFail(s))
        /\ SF_vars(KickerExit(s))
        /\ SF_vars(~open[s] /\ ChainEnd(s))

FairSpec == Spec /\ Fairness

-----------------------------------------------------------------------------
(* What the table holds of session s.                                      *)
Subscribed(s) == {pair \in Pairs : Holds(sub_conn, pair[1], pair[2], s)}

(* The topic and tag whose sessions publisher p is going through.          *)
Wanted(p) == <<about[p][1], IF round[p] = "star" THEN Star ELSE about[p][2]>>

(* No session whose object is gone is in the table, and none is waiting to *)
(* be reached by a publisher ("do not get conn_set, then publish. Or maybe *)
(* get invalid sess").                                                     *)
NoDangling ==
    \A s \in Sessions : Destroyed(s) =>
        Subscribed(s) = {} /\ \A p \in Publishers : s \notin targets[p]

(* Whenever the io thread is not inside deal() or free_rc(), what a session*)
(* has noted in subscribe_keys_hash_ is what the table holds of it: free_rc*)
(* relies on it, as it removes what is noted and nothing else.             *)
RegistryMatchesKeys ==
    \A s \in Sessions : io[s] = "idle" => keys[s] = Subscribed(s)

(* A packet is never handed to a session that has, by then, cancelled the  *)
(* subscription or been freed.                                             *)
NoPublishAfterCancel ==
    \A p \in Publishers : \A s \in targets[p] :
        io[s] = "idle" => Wanted(p) \in keys[s]

(* The table does not grow with what is no longer used: no empty map or    *)
(* set stays behind, whatever the order of subscriptions and removals.     *)
RegistryCompact == Compact(sub_conn)

(* The table as publishers see it.                                         *)
Table == INSTANCE PubSub WITH
            subs <- [s \in Sessions |-> Subscribed(s)],
            dead <- {s \in Sessions : Destroyed(s)}

(* The server's table, its mutex and its sessions' life cycles keep the    *)
(* promise of PubSub: while a publisher has sessions to reach, none of them*)
(* is unsubscribed, and no session dies subscribed.                        *)
TableIsPubSub == Table!Spec

(* A session whose socket has been closed, by whomever, is destroyed in the*)
(* end: both coroutines return and no write keeps the object alive.        *)
ClosedSessionReclaimed ==
    \A s \in Sessions : (reader[s] # "none" /\ ~open[s]) ~> Destroyed(s)
=============================================================================
