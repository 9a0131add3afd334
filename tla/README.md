# lite_rpc in TLA+

A model of lite_rpc, a header-only C++17 RPC library on Boost.Asio
(`src/include`), checked with TLC and, for what matters most, proved with TLAPS.
Every action is translated from the code; the comment above it says which
function it is, and `PROJECT.json` ("map") gives the lines.

## 1. The system

A server (`rpc_server.hpp`) owns a pool of io_contexts, one thread each
(`io_context_pool.hpp`), and one session object per connection
(`rpc_server_session.hpp`). A client (`rpc_client.hpp`) owns one io_context with
one thread, one socket, and a keepalive thread. Messages are a packed header, a
name (method or topic), a tag, and a body that may be compressed
(`rpc_common.hpp`). Two uses share a connection: request/response, and
publish/subscribe by topic and tag.

| component | state | operations | meets others through |
|---|---|---|---|
| session, sending | `send_queue_`, `pub_send_queue_`, each with a mutex; the socket | `respond`, `publish`, `coro_respond`, completion handlers, `close_socket` | any application thread pushes, the io thread completes |
| session, life | two coroutines, `subscribe_keys_hash_`, `kick_timer_`, shared pointers | `go`, `deal`, `free_rc`, kick loop | the table, under `sub_conn_mtx_` |
| subscription table | `sub_conn_`: topic hash -> tag hash -> set of raw session pointers | `add_subscribe`, `remove_subscribe`, `publish` | io threads of all sessions, publishing threads |
| accept loop and pool | two round-robin indexes, `session_rc_`, `detail` | `run`, `get_io_context`, `stop` | sessions of one thread share a Resource and a compress buffer |
| method dispatch | `handler_map_` | `register_method`, the generated wrappers | called by `deal`; replies through the session |
| client, sending | `send_queue_`, `socket_`, `auto_reconnect_` | `write`, `send`, completion handler, reconnect | application threads, keepalive thread, io thread |
| client, connection | `socket_`, `timer_`, `conn_alived_` | `connect_async`, its handler, its timeout, the read coroutine | the handlers of an old connection meet the new socket |
| client, calls | `req_cb_map_`, `message_id_` | `bind_cb`, `deal` | replies in any order, or never |
| client, subscriptions | `sub_cb_map_` | `subscribe`, `cancel_subscribe`, `re_subscribe`, `deal` | the server's table, asynchronously |
| data | - | `make_head`, `compress`, `decompress`, `split_tag_*` | both sides must agree on lengths |

What makes them hard: hand-overs through the length of a queue that two threads
test; pointers used after an unlock and for the whole of an asynchronous
operation; raw session pointers in a shared table; two coroutines and several
write chains that decide together when a session object dies; handlers of an old
connection that run after a reconnect; two indexes that must stay in step.
`PROJECT.json` ("hazards") lists them with their lines.

What makes each component correct:

* sending: one consumer per queue, the packet being written stays put, nothing is
  stranded, FIFO, and frames that are whole on the wire;
* table: never a pointer to a destroyed session, a session's own record equal to
  what the table holds of it, no delivery after a cancellation, no growth;
* life: a closed session is destroyed in the end;
* accept loop: what is not locked is used by one thread only;
* client, sending: one sender also while the connection is replaced, nothing
  stranded, and a connection that is lost is noticed and made again;
* client, calls and subscriptions: a callback gets the reply to its own request,
  and at most once; no callback is forgotten as long as nothing was lost; when
  all is quiet the server has the subscriptions that the client has callbacks for;
* data: the reader stays in step with the writer, and gives up a stream only for a
  reason; tags come out of a list as they went in.

## 2. Modules

| module | models | role |
|---|---|---|
| `FifoChannel` | what one queue of a session promises | abstract specification |
| `SessionSend` | the three ways a session writes to its socket | component |
| `SubRegistry` | `sub_conn_` as a value; `add_subscribe`, `remove_subscribe` as operators | data |
| `PubSub` | what the table promises to publishers | abstract specification |
| `ServerSubs` | table, mutex, publishers, and the life cycle of sessions | composition of the table with the sessions |
| `Workers` | accept loop, pool, and what sessions of a thread share | component |
| `ClientLink` | connection, sending queue and reconnection of a client | component |
| `TagList` | lists of tags in one string: splitting and joining | data |
| `ClientApi` | calls, subscriptions and cancellations of an application, and what a session makes of them | composition of the client's maps with a connection and a session |
| `Stream` | one direction of a connection: framing, compression, keepalive and kick timer | component |
| `MC...` | symmetry sets and instances for TLC | instances |
| `..._proofs` | theorems | proofs |

`ClientApi` abstracts from what `ClientLink` details (how a connection is made
again, who sends), and `ClientLink` from what `ClientApi` details (what is in a
packet). `ServerSubs` has the table behind the subscriptions that `ClientApi`
keeps in `served` for the one session of the client.

### SessionSend

`queue[c]` is the deque of way `c` ("req_res" or "sub_pub"). `pc[t] = c` is the
point between the `unlock` of the queue's mutex and the call of `send<c>()`: it
is the only place where a thread holds a decision made under the mutex. A push
(`Push`) and the pop in the completion handler (`WriteDone`) are atomic because
the mutex makes them so. `writes` is the set of `async_write` operations the
socket has in progress; such an operation is a series of partial writes
(`WriteSome`, `Chunks` of them per frame), which is what the real one is when the
socket buffer is full. A completion handler needs the io thread
(`pc[Io] = "idle"`), and so does a coroutine. Any write may fail, and anybody may
close the socket at any time (`WriteFail`, `CloseSocket`). `wire` and `sent` are
histories. `MaxPush` bounds the packets over all ways of writing together.

Left out: what is in a packet (making one happens before the mutex is taken and
touches nothing shared), and the order in which the operating system finishes two
operations on one socket (any order is allowed).

### SubRegistry, PubSub, ServerSubs

`sub_conn` is a function from topics to functions from tags to sets of sessions,
so that empty maps exist and `RegistryCompact` means something. `io[s]` says
what the io thread is in the middle of for session `s`: `deal()` and `free_rc()`
are split where they release the mutex, and `todo[s]` holds the pairs whose
`remove_subscribe` is still to come, `job[s]` the pairs of the message being
dealt with. `reader[s]` and `kicker[s]` are the two coroutines, `chain[s]` the
chain of writes of `pub_send_queue_` (no packet, some, or stopped at an error):
the three holders of shared pointers, so `Destroyed(s)` is the point where the
destructor runs. `inbuf[s]` is a message that was read while nothing had run yet:
between it and its `deal()` the kick timer or the application may act.
`Publish`, `PublishTo`, `PublishTag` and `PublishEnd` are `publish()` under the
mutex, one action per session reached because the io threads of the sessions run
on meanwhile.

Over-approximations, each of which adds behaviours only: the kick timer may
expire whenever its coroutine waits; the application may close a socket at any
time; `remove_subscribe` calls come in any order (the code goes through an
unordered container); whether `check_verify` is asked for and
`publish_enable_status()` holds is free for each session reached; a publish to a
pair reaches "*" subscribers twice if the tag is "*", as in the code. Left out:
collisions of hash values (`Topics` and `Tags` are hash values), shared pointers
that the application makes by locking a weak one (they only delay destruction),
writes of other kinds than published packets (they hold the session alive like
`chain` does).

### Workers

`thread[s]` and `rc[s]` are given at the accept, the first by `get_io_context()`,
which advances at every turn of the loop, the second by `index`, which advances
after a success. A session is inside `deal()` ("deal"), or its coroutine is
suspended in `coro_write`, with a reply of its own ("writing") or with one in the
shared buffer of its `compress_detail` ("writing_buf"). `buf[i]` is the session
whose reply is in that buffer. `AcceptErrors` bounds the failing accepts.

### ClientLink

`link` is the socket with what Boost.Asio is doing for it: `sock` is the state of
`socket_` ("lost" is a broken connection nobody has noticed), `ops` the operations
in progress on `socket_` and `timer_`, and `ready` the completions whose handlers
have still to run. One thread runs the handlers in the order of completion;
what a close aborts at once completes together and may run in any order. An
operation carries the number of the `connect_async` call it descends from, but
the handlers ignore it, as in the code: they use `socket_` and `timer_` as they
find them. `CloseSocket`, `CancelTimer`, `Starts` and `Complete` are functions of
a link, so that a handler is the composition of the calls it makes.

A handler is one action up to a `send()` that it makes: `pc[t]` is again the place
between the `unlock` and `send()`, and `re_subscribe()` on the io thread pushes
one packet at a time while other threads push, too. The `con_cb` of the
application's own connect sets `started`; later connects re-subscribe. With
`Callback` the application has set the `discon_callback_` of the example after the
first connect; `Modes` are the values it gives to `auto_reconnect_`, at any time.
The application writes after the first connect, as the comment at
`rpc_client.hpp:186` asks, and connects again by itself only if the first connect
has failed.

What Boost.Asio promises, and the model relies on: an operation on a closed socket
fails through a completion, never at once; `close` aborts what is pending;
`cancel` does not recall a wait whose time was up; `async_connect` over a range of
end points reports a failure if the socket has been closed since the connection
was made; completions run in order. On a socket that is still connecting, an
operation waits or fails, which depends on the platform.

`connect_async()` that cannot resolve the name of the server returns behind the
`close_socket()` it began with: the socket is then "unresolved", which is "closed"
to everything that uses it, and distinguished because nobody is called back.

Left out: what is in a packet, `stop()`, the memory effects of touching `socket_`
from two threads (`SocketReplacedAlone` is about them), and a read or a write in
several parts.

`FaultKinds` and `MaxFaults` say what may go wrong and how often; `MaxConnects`
bounds the calls of `connect_async`, `MaxQueue` the queue.

### TagList and ClientApi

In `TagList` a string is a sequence of characters, because whether a tag survives
depends on where the bars are. `Split` is `split_tag_string()`, `Join` the loop of
`re_subscribe()`.

In `ClientApi` a thread is the list of the steps it has still to take, `todo[t]`. A
call of the interface is one step, and is replaced by what is left of it whenever
the code is between two critical sections: `remote_call_async()` becomes a packet
to be written once its callback is bound, `subscribe()` goes on tag by tag, and
`cancel_subscribe()` is one step because it holds the mutex to the end.
`re_subscribe()` is four kinds of steps of the io thread: the mutex, a message per
topic in any order and with the tags in any order (the containers have none),
`send()`, the unlock. A callback is the list of steps that `Handlers` gives it, put
before the `Unlock` of the io thread; that of a reply runs after its mutex has
been released, that of a publication under `sub_cb_mtx_`. `lock` has the holders
of the mutexes that are held across steps.

The connection is `up` or not. When it breaks (`Lose`), what the session has not
dealt with is lost, handlers that are running answer nobody, and the session's
subscriptions are gone; `Reconnect` empties what the client had received, keeps
the packet whose write failed, and gives the io thread `re_subscribe()` to run. A
client with an empty queue has a keepalive in it by then, whose write it was that
failed. A write to a connection that has broken unnoticed may end well.

`answers`, `gone` and `raced` are histories. `gone` has the ids whose request or
reply was lost with a connection: the library neither sends these again nor calls
their callbacks, and NothingForgotten says that these are the only ones whose
callbacks stay for ever. `raced` has the pairs that one thread cancelled between
another one's setting of the callback and its message: the two messages are then
in the order opposite to that of the two changes of the map, so that client and
session differ. SubsInSync says that this is the only way they can differ.

The programs in `MCClientApi` name no tag that ends in a bar. With one, client and
session differ after a reconnection; TagsSurvive states for every list that
`re_subscribe()` joins, with any tag of up to `MaxTag` characters added to it, that
the session splits it into the same tags unless a tag with a bar at its end is
followed by another one: that bar is then taken for the first of the separator.

Left out: `stop()`, collisions of hash values, requests that the serialization
refuses, and the moved callback of a list of tags (section 5).

### Stream

`Stream` is one direction of a connection; `who` says which end reads. Lengths are
counted in pieces of many bytes, and the stream is a sequence of tokens
`<<id, j>>`: token 0 of a message is its header, the others are the pieces of its
name and body. A tag is transmitted like a name, `name` stands for both. A header
announces lengths (`NameLength` as narrowed by its field, `BodyLength` as
`compress()` returned it, an error code included), and `Pieces` is what really
follows: a body that was compressed into a string is sent with all of that string,
whose length is that of the source. `exact` marks the replies of `coro_write`,
which sends the bytes it announced (not modelled: what it sends when the length is
an error code; `Messages` has no such message).

`buf` is `buf_`, with what was read behind the last header. `deal()` cuts the name and
the body out of it by the lengths in that header (`NameIn`, `BodyIn`), and `dealt`
records what it got: the message the header belonged to, the name and the body. For a
name that does not fit `name_length` this is the wrong name, and a body that begins
inside the name; InStep says so. It says that headers come in order, that name and body
are the ones written if they fit (`Fits`), and that a session, fit or not, is never
given a piece of another message.

The session checks a header (`ValidHead`: two magic numbers and the length of the
body); that no piece of a body carries both magic numbers is an assumption. The
client does not check, so what it does once it takes a piece for a header depends
on bytes the model does not have: it has gone "astray", and the model ends.

Time is discrete. `kick` counts down from `Quiet` and is started again at the top
of the read loop; `half` and `sleep` are the keepalive thread, which looks at
`conn_alived_` behind the first of its two sleeps only. `idle` counts the ticks in
which the coroutine could have gone on, and did not: something was there to read,
or it was in `deal()`, which includes a coroutine handler that waits for its reply
to be written. `Delay` bounds it; connecting takes no longer either. Only the
session's timer is timed, as the client has none.

## 3. Runs

| run | question | instance |
|---|---|---|
| `session` | are the hand-overs right, with failures, does each queue keep order, does everything leave, and are frames whole while one way of writing is used? | 2 threads + io thread, 2 packets, all three ways, 3 packets in all, 2 partial writes per frame |
| `session_torn` | ... and when several are? No: the counterexample is two frames interleaved | 2 threads + io thread, 2 partial writes, 2 packets in all |
| `subs_safety` | can a publisher meet a dead or unsubscribed session, does the table shrink again, and is all this PubSub? | 2 sessions, 1 topic, 2 tags, 1 publisher |
| `subs_live` | does a closed session go away? | 1 session, 2 tags, 1 publisher |
| `workers_errors` | is anything shared across threads before an accept fails, and what is left afterwards? | 4 sessions, 2 threads, 2 failures |
| `workers_shifted` | does a failing accept break the pairing? Yes | 3 sessions, 2 threads, 1 failure |
| `workers_buffer` | is a compressed coroutine reply safe while it is written? No | 3 sessions, 2 threads |
| `client_live` | is the queue handed over rightly across reconnections, is a lost connection noticed, and does a reconnecting callback keep trying and get connected again? | 2 threads + keepalive + io thread, 4 faults of any kind, 10 connects, 4 packets, both modes and a callback |
| `client_auto` | does automatic reconnection? No | one loss, 3 connects |
| `api` | do replies find their callbacks, once, is no call forgotten, do client and session agree on subscriptions, does every mutex come free and every call return? | 2 threads + io thread, 3 programs, callbacks that call and subscribe, 2 losses, 1 publication |
| `stream` | does the reader stay in step, are names and bodies what was written, when does it give up, and does it always get to the end or give up? | both ends, 3 messages of 7 kinds each, a kick timer of 20 ticks against keepalives every 6 |
| `stream_compressed` | does a compressed message arrive? No | 2 messages, short or compressed |

Why these bounds are enough. A queue's hand-over depends on lengths 0, 1 and
more, and needs two pushers and the completion handler to race: two threads and
three packets, all in one queue or spread over the ways of writing, have all of it
(lengths 0 to 3, a push onto a queue that a handler is just emptying, and two ways
beside each other). Frames interleave with two partial writes.
A publisher's danger is one session that leaves while another is being reached:
two sessions. An extra publisher is excluded by the mutex. A reconnection costs
two connects per fault at most (one may be aborted by a handler of the connection
before), so `client_live` never reaches its bound on connects. In `api` a request
lost with the first connection and one written again over the second need two
losses; the three programs are two calls at once (with a callback that calls and
subscribes), a call beside a subscription whose callback subscribes (the
deadlock), and a subscription to two tags beside a cancellation of one of them
(the race), and one call is silent, one never answered. In `stream` the kinds are
the empty message, the short one, a name beyond its field, a body that compresses,
one that does not, and bodies at and beyond the greatest length; three messages
put one before and one behind a bad one. The proportions of the timers are those
of the code (10 s and 1.5 s are 20 and 3 ticks of half a second), with steps of up
to one second. The theorems below hold for any numbers. Symmetry is used in runs
without liveness properties only. Deadlock is not checked where the model stops by
design (every session is gone, every bound is reached, a stream is given up).

Fairness. `SessionSend`: a thread that has left the mutex goes on; a peer reads
while the connection is open (without it nothing ever leaves); the io thread runs
handlers that are ready (strong, because the thread serves other handlers in
between). `ServerSubs`: a publisher inside `publish()` goes on; the io thread
goes on; a thread waiting for `sub_conn_mtx_` gets it some time (strong: this is
the one assumption `std::mutex` does not promise but every scheduler keeps);
operations on a closed socket end. Nothing is assumed of clients, of the kick
timer, or of the application. `ClientLink`: threads that have left the mutex go
on; the io thread runs what is ready; the keepalive thread wakes up again and
again; a connect that is neither refused nor timed out ends; writes end while the
peer is there, and writing again and again to a broken connection fails some
time. A read of a broken connection need never fail, so that LossNoticed really
depends on the keepalive. `ClientApi`: threads and the io thread go on (weakly:
who waits for a mutex may wait for ever if it is never free), the server deals
with what arrives and its handlers answer, and a client without a connection gets
a new one. The last is what LossNoticed and Reconnected say of `ClientLink` with a
reconnecting callback; with automatic reconnection alone it may fail
(`client_auto`), and then nothing settles. `Stream`: the read coroutine goes on
with what has arrived, which the io thread sees to; time need not pass, and nobody
need write. SessionCatchesUp therefore does not rest on the kick timer: a session that
waited for pieces which nobody has written would violate it.

What the violation runs show:

* `session_torn`: the comment in `rpc_server_session.hpp:302` asks for one
  consumer per session; there are up to three, one per way of writing.
* `workers_shifted`: `README.md:10` promises no competition for the Resource;
  one accept error (for instance, no file descriptors) shifts the pairing for
  good.
* `workers_buffer`: the assertion in `rpc_common.hpp:194` on the receiving side
  fails if a second session of the same thread uses the buffer while the first
  waits for its socket.
* `client_auto`: the write handler of `rpc_client.hpp:381` closes the socket and
  connects again in one go. The close aborts the pending read of the old
  connection; its coroutine then closes `socket_`, which is the new socket by
  now. The new connect fails, and its handler does not try again unless there is
  a callback (comment at `rpc_client.hpp:383`: "Then reconnect"). If the read
  fails first, which is what an orderly close by the server leads to, automatic
  reconnection works. `client_live` shows that a callback that reconnects
  hides the problem at the price of one more connect.
* `stream_compressed`: `compress_with_mutex()` resizes its destination to the length of
  the source (`rpc_common.hpp:138`) and nothing shortens it to the length it
  returns, which the header announces; the client then sends all of the string
  (`rpc_client.hpp:378`). A request of 1 KB or more therefore ends in bytes
  that are no header, or announces an error code, and the session gives up the
  connection, although `README.md:5` of the repository lists automatic compression.
  Only a body that compresses to exactly its own length is spared
  (`CompressedIsSpoilt`, section 4).

What two of the passing runs show that a reader may not expect:

* `stream`: KickedIfSlow. A connected client is never kicked between messages; it
  is in the middle of a message, or of a handler, that takes its time, since the
  timer runs from header to header. The connection of which the log line at
  `rpc_server_session.hpp:116` says that it was quiet over 10 s may so be one whose
  bytes arrive. A handler that blocks its io thread for longer than `Delay` is outside
  of the model.
* `api`: Settles has one exception, a callback of a subscription that subscribes or
  cancels: it waits for the mutex it runs under (`rpc_client.hpp:441`).
  SubsInSync has one, a cancellation inside another thread's `subscribe()`.

`client_live`: Reconnected has one exception, too. A name that is not resolved ends
either kind of reconnection, as `connect_async()` calls nobody back
(`rpc_client.hpp:109`).

One more thing the model of the connection shows and no property states, because
the repository promises nothing about it: a message that completes just before the
write error makes the old coroutine read on the new socket beside the new
coroutine (`rpc_client.hpp:131`).

## 4. Proofs

`SessionSend_proofs`. TypeOK, SingleConsumer, FrontStable and NoLostWakeup are not
inductive one by one; together they are (`IInv`), without any strengthening: a
push onto an empty queue creates the only consumer because FrontStable says that
there was none, a push onto another queue may leave because NoLostWakeup says
that there was one, and a completion pops the packet it wrote because of
FrontStable and SingleConsumer. From the same invariant `QueueOrder` proves the
safety part of the refinement of FifoChannel for each queue. The only
assumptions are that the io thread is not an application thread and that a frame
takes at least one write.

`ServerSubs_proofs`. The first part is about the table as a value: `add_subscribe` and
`remove_subscribe` on nested maps change the relation "session s is under topic t and
tag g" in exactly one way (`AddHolds`, `RemoveHolds`), and keep the table free of
empty maps. The second part is about the server. RegistryMatchesKeys speaks of sessions at rest; the inductive
invariant says for each point of `deal()` and `free_rc()` what the table must
hold of the session (`Held`): the record plus the pairs being added, the record
less the pairs already cancelled, or the pairs still to be freed. With the life
cycle of the coroutines and with "who has sessions to reach holds the mutex"
(`PublisherHolds`) it is inductive, and implies NoDangling, RegistryMatchesKeys
and NoPublishAfterCancel. `ImplementsPubSub` is the whole refinement, since PubSub
is a safety specification.

`ClientLink_proofs`. The first part says what the operators on links do to the
operations of one kind: whether one is outstanding (`Has`) and whether it is the
only one (`Single`). The invariant then adds to the properties that there is at
most one connect and one write, that during a reconnection the queue is not empty
and nobody is at its front (`TakeOver`), and that nothing is sent before the first
connection (`BeforeFirst`). TakeOver is the heart of it: a reconnection starts
from a failed write, whose packet stays in the queue, and this packet keeps all
other threads from sending until `re_subscribe()` does. The proof also shows that
`re_subscribe()` never starts a chain by one of its own pushes
(`NoChainInResub`). `NeverGivesUp` is the safety part of Reconnected: with a callback
that reconnects there is a connect underway whenever the client has lost its
connection, and it waits for a socket that is connecting, so that it can still end.
The invariant is inductive beside the others: a handler of the connection before can
abort the attempt, but then the handler of the aborted connect calls back and the
next attempt begins, and only `connect_async()` with a name that is not resolved
begins none. The assumptions are that the three kinds of threads differ and
the types of the bounds.

`Workers_proofs`. Until an accept fails the two counters are equal, so a session's
resource is the one of its thread. `EvenlyShared` needs a stronger fact than
ResourcesBalanced, which only compares counts: every resource below `index` has been
given once more than the others (`InTurns`), from which the counts differ by one at
most, for any number of failures.

`OneWayFramesWhole` in `SessionSend_proofs` says that frames are whole on the wire
as long as one way of writing is used. Its invariant adds that coroutine writes
exclude one another, that the frame at the end of the wire is the one being
written, with as many chunks as the write has done, and that a frame that is not
being written is complete or the last one.

`TagList_proofs`. What splitting and joining compute is proved for every string, of any
characters and any length. `Split` and `FlattenSeq` are recursive functions, and what
they return is first known only as a choice: the choice of some function that
satisfies the recursion. The proof shows that there is exactly one such function on
the strings up to a given length, by joining the one for shorter strings with one more
step, so that the choice satisfies the recursion (`SplitUnfold`, `FlattenUnfold`,
`JoinUnfold`). Everything after that unfolds one cut or one tag at a time, by
an induction over a set of lengths (`Induct`: a set of naturals that has 0 and with
every number the next is all of them, which follows from the least element that
is missing). `SplitIsPlain` says that what a string is cut into are one or more tags
without a separator. `JoinSplit` says exactly which lists come back: where two tags
meet, `find("||")` finds the separator that was put there, except that behind a tag
that ends in a bar it finds one a character too early (`HeadIsCut`). From the first
wrong cut on nothing can make up for it, because the first element already differs.

`ClientApi_proofs`. `RepliesToOwnRequest` and `AtMostOneCallback` hold for any
threads, programs and handlers. The argument is that an id stands for one call: a
packet, a running request and a reply are all "owned", that is, if their id is bound,
it is bound to the callback of their call, and ids below `message_id_` are never
bound again. A reply that arrives twice finds its id unbound the second time, and
no id that has been answered is bound. The invariant has to follow requests through
threads' lists, the queue, the session and the handlers, also when a packet is
written again after a loss. `TypeCorrect` adds the types of what is underway
(`TInv`): the steps in the lists of threads, the packets in the queue and at the
session, who holds a mutex. That a subscription has tags without a separator only is
part of it (`Subscribed`), as are the finitely many pairs in `sub_cb_map_`, and both
rest on `SplitIsPlain`. With them `JoinSplit` gives `TagsComeBack`, in any order of
the container. `NoDeadlock` says that the mutexes come free (the safety part of
Settles): `req_cb_mtx_` is never held across steps, and the io thread, when it holds
`sub_cb_mtx_`, has the unlock as the last of the steps before it and takes no mutex
before that (`LInv`), unless a callback of a subscription subscribes or cancels.
It is assumed that the bar is a character, and that what programs and
handlers call has the types of the interface.

`ClientApiTransit_proofs`, first part. `NoCallForgotten` follows an id through all the
places it can be in: the hands of a thread that is about to write, the queue, the way
to the session, its handlers, the way back. The invariant says that a request or its
reply is in one of them only, except for the packet at the front of the queue while
it is being written, which may be on its way, worked on or answered already
(`OnePlace`), and that what is counted as lost is nowhere (`LostOnce`). The exception
is the heart of it: a connection that breaks then does not lose this request, since
it stays in the queue and is written again.

`ClientApiTransit_proofs`, second part. `SubscriptionsAgree` computes what the packets
in the queue, and those that have arrived at the session, will make of a pair of
topic and tag when they are dealt with in order (`Finally`): the last packet that
names the pair decides, and without one the subscription as it is. This is what the
client has a callback for (`Agree`), except for pairs that a thread is still
subscribing to and pairs that were cancelled meanwhile, and except during a
reconnection. For the time of a reconnection the invariant says instead that the
session has nothing yet, that nothing is being written, and that every pair of a
topic already gone through has its message in the queue behind any cancellation
(`Resubscribing`); when all topics are through, both say the same. `Bound` is needed
for the way back: a message that is still in the queue belongs to a pair that has its
callback. For the message of a topic it takes `JoinSplit`: the session has to make of it
the tags that the client has callbacks for (`WholeTagsKept`). The theorem therefore
assumes what the code needs, that no tag applications and handlers subscribe to ends
in a bar (`NoBarAtTheEnd`). It is true of the instance, with the tags `a`, `b` and the
empty one; without it SubsInSync is false, as the hazard at `rpc_client.hpp:252` says.

`Stream_proofs`. The tokens of the stream are described by three facts: the headers
on it are those of the messages not yet taken, in order (`Ordered`), each is followed
by its pieces without a gap (`Whole`), and there is nothing else (`Covered`). For a
session they give the order of `DealtAsSent` with any clients: a header that announces
more than follows would make it read into the next message, but such a header announces
an error code, which the check of the length refuses (`AcceptedFits`), so that a session
never reads too far, and what it leaves over is no header. What is in the buffer takes
two more facts: on the stream a piece lies right behind the one before it
(`Successive`), and the buffer has the first pieces of the message whose header was read,
with the next of them at the front of the stream (`Buffered`). So deal() is given
as much of a message as its header announces (`DealtAsAnnounced`), which is all of it if
it fits (`FittingMessage`). `CutsHaveReason` is the
other direction: as long as every message was followed by what it announced, the
next token is a header. `KicksAreLate` adds a bound on the time since the
timer was started (`InTime`): between messages it is no longer than the wait for the
next keepalive, and in the middle of one this plus `Delay` for each step taken
since. `NothingBehindSpoilt` is the safety part of SessionCatchesUp for these: the pieces
that are too many lie on the stream where the session will look for the next header
(`PieceTooMany`), so that it takes no message behind a spoilt one (`LastTaken`) and
cannot run out of things to read before it gives up. `CompressedIsSpoilt` adds
that any message a client compresses is of this kind, unless it compresses to
exactly its own length. `KicksAreLate` assumes that no step of the
reader takes longer than half a keepalive period, and that a whole period and a
step are shorter than the kick timer; of the instance both are true (2 <= 3,
6 + 2 < 20). The other theorems assume the types of the constants only, and that a
client does not write like `coro_write`.

Only model-checked: RespondIsFifo and PublishIsFifo beyond their safety part,
ClosedSessionReclaimed, LossNoticed, Reconnected, Settles and SessionCatchesUp, because
liveness under fairness is out of the prover's reach.

## 5. Not modelled, and why

* msgpack and zstd (`src/contrib`) are vendored and make up almost all of the lines
  of the repository. What the library relies on is in the models: the length that
  compressing returns, an error code included (`Stream`). Serialization keeps no
  state.
* `register_method` and `rpc_meta.hpp` select and marshal arguments at compile time.
  What a method may do, answer at once, later or never, and what it may do to its
  session, is covered. The example programs are read for how the library is used.
* Starting, stopping and destroying a server or a client happen once. What can go
  wrong there follows from the order of declarations and is listed under the
  hazards: `detail` goes before the pool (`rpc_server.hpp:118`), and `run()` returns
  without `free_rc()`, so that `sub_conn_` keeps pointers (`rpc_server.hpp:144`).
* The memory that two read coroutines would share after `rpc_client.hpp:131`:
  `ClientLink` has the behaviour, and nothing to compare it with.
* The second tag of a list given to `subscribe()` gets a moved-from callback
  (`rpc_client.hpp:193`). What that does depends on its type; callbacks are named by
  topic and tag here.
* Collisions of hash values: topics and tags are their hash values on the server.
  A model in which two names collide would only say that their subscribers are the
  same.
* Bounds of queues: `pub_send_queue_` of a slow subscriber has none
  (`rpc_server_session.hpp:403`).
* Exceptions of user code: `io_context_pool.hpp:42` catches some of them, and a thread
  that has ended runs nothing any more.
