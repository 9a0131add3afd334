------------------------------- MODULE Stream -------------------------------
(***************************************************************************)
(* One direction of a connection as a stream: how messages are framed and  *)
(* compressed, how the reader takes them apart again, and how the session  *)
(* gives up a connection that it takes to be quiet.                        *)
(* (include/rpc_common.hpp, the read coroutines and make_packet()/write()  *)
(* of include/rpc_client.hpp and include/rpc_server_session.hpp.)          *)
(*                                                                         *)
(* Lengths are counted in pieces of many bytes, the stream is a sequence   *)
(* of tokens <<id, j>>: token 0 of message id is its header, 1, 2, ... are *)
(* the pieces of name and body.  Time is counted in ticks.                 *)
(***************************************************************************)
EXTENDS Naturals, Sequences

CONSTANTS Messages,   \* Messages[who]: what may be written to the reader who
          Threshold,  \* COMPRESS_THRESHOLD
          MaxBody,    \* MAX_BODY_LENGTH
          NameWidth,  \* lengths that name_length can hold
          Quiet,      \* the 10 s of kick_timer_
          Half,       \* the 1.5 s of keepalive_thread_
          Delay,      \* bound: what the next read or deal() takes
          MaxSent     \* bound: messages besides keepalives

Message == [name : Nat, body : Nat, squeezed : Nat, exact : BOOLEAN]

ASSUME StreamAssumption ==
    /\ Messages \in [{"session", "client"} -> SUBSET Message]
    /\ \A m \in Messages["session"] : ~m.exact
    /\ {Threshold, MaxBody, Delay, MaxSent} \subseteq Nat
    /\ {NameWidth, Quiet, Half} \subseteq Nat \ {0}

VARIABLES who,      \* which end reads
          sent,     \* history: the messages written
          wire,     \* the tokens on the way
          at,       \* where the read coroutine is
          message,  \* the message whose header it read last
          missing,  \* pieces it still has to read for it
          buf,      \* buf_: what it has read behind that header
          dealt,    \* history: what deal() took for messages
          cut,      \* "no", or why the reader has given up the stream
          kick,     \* kick_timer_: ticks until it expires
          idle,     \* ticks for which the coroutine could have gone on
          alive,    \* conn_alived_ of the client
          half,     \* which of its two sleeps keepalive_thread_ is in
          sleep     \* ticks until it wakes up

reading == <<at, message, missing, buf>>
keeping == <<alive, half, sleep>>
vars == <<who, sent, wire, reading, dealt, cut, kick, idle, keeping>>

Init ==
    /\ who \in {"session", "client"}
    /\ sent = <<>> /\ wire = <<>> /\ dealt = <<>>
    /\ at = "header" /\ message = 0 /\ missing = 0 /\ buf = <<>>
    /\ cut = "no"
    /\ kick = Quiet
    /\ idle = 0
    /\ alive = FALSE /\ half = 1 /\ sleep \in 1 .. Half

-----------------------------------------------------------------------------
(* compress(): as long as the destination, of the size of the source, will *)
(* hold the result; an error code is a length beyond all limits.           *)
ErrorCode == MaxBody + 1

Compressed(m) == IF m.squeezed <= m.body THEN m.squeezed ELSE ErrorCode

BodyLength(m) == IF m.body < Threshold THEN m.body ELSE Compressed(m)
NameLength(m) == m.name % NameWidth

(* The pieces that follow the header.  What was compressed into a string   *)
(* is sent with all of that string; coro_write() sends what it announced.  *)
Pieces(m) == m.name + (IF m.exact THEN BodyLength(m) ELSE m.body)

Frame(id, m) == [j \in 1 .. 1 + Pieces(m) |-> <<id, j - 1>>]

KeepAlived == <<0, 0>>

(* There is something that the reader can read or deal with.               *)
CanGoOn == at = "deal" \/ wire # <<>>

(* write(), make_head(), send(): what is queued goes out in order.         *)
WriteMessage ==
    /\ cut = "no" /\ Len(sent) < MaxSent
    /\ who = "session" => alive
    /\ \E m \in Messages[who] :
        /\ sent' = Append(sent, m)
        /\ wire' = wire \o Frame(Len(sent) + 1, m)
    /\ idle' = IF CanGoOn THEN idle ELSE 0
    /\ UNCHANGED <<who, reading, dealt, cut, kick, keeping>>

(* The connect handler has run.                                            *)
Connected ==
    /\ who = "session" /\ cut = "no" /\ ~alive
    /\ alive' = TRUE
    /\ UNCHANGED <<who, sent, wire, reading, dealt, cut, kick, idle, half, sleep>>

(* keepalive_thread_: behind its first sleep it looks at conn_alived_.     *)
KeepAlive ==
    /\ who = "session" /\ cut = "no" /\ sleep = 0
    /\ sleep' = Half
    /\ IF half = 1 /\ alive
       THEN /\ wire' = Append(wire, KeepAlived)
            /\ half' = 2
            /\ idle' = IF CanGoOn THEN idle ELSE 0
       ELSE half' = 1 /\ UNCHANGED <<wire, idle>>
    /\ UNCHANGED <<who, sent, reading, dealt, cut, kick, alive>>

-----------------------------------------------------------------------------
(* The header a token is, if it is the first of its message; nothing else  *)
(* has both magic numbers.                                                 *)
IsHead(token) == token[2] = 0

ValidHeadUnchecked(token) == TRUE
ValidHeadBelow(token) ==
    IsHead(token) /\ (token # KeepAlived => BodyLength(sent[token[1]]) < MaxBody)
ValidHead(token) ==
    IsHead(token) /\ (token # KeepAlived => BodyLength(sent[token[1]]) <= MaxBody)

Announced(m) == NameLength(m) + BodyLength(m)

(* The top of the loop: the session starts its timer again.                *)
RestartedOnce == kick
Restarted == Quiet

(* Without a name and a body there is nothing to wait for.                 *)
AfterHeadAlways(length) == "body"
AfterHead(length) == IF length = 0 THEN "deal" ELSE "body"

(* A header is read.  The client does not check it: what it takes for one  *)
(* leads it astray, and from there on everything depends on the bytes.     *)
ReadHeader ==
    /\ cut = "no" /\ at = "header" /\ wire # <<>>
    /\ LET token == Head(wire) IN
        IF who = "session" /\ ~ValidHead(token)
        THEN cut' = "invalid" /\ UNCHANGED <<reading, kick>>
        ELSE IF who = "client" /\ ~IsHead(token)
        THEN cut' = "astray" /\ UNCHANGED <<reading, kick>>
        ELSE IF token = KeepAlived
        THEN kick' = Restarted /\ UNCHANGED <<reading, cut>>
        ELSE /\ message' = token[1]
             /\ missing' = Announced(sent[token[1]])
             /\ at' = AfterHead(missing')
             /\ buf' = <<>>
             /\ UNCHANGED <<cut, kick>>
    /\ wire' = Tail(wire)
    /\ idle' = 0
    /\ UNCHANGED <<who, sent, dealt, keeping>>

ReadPiece ==
    /\ cut = "no" /\ at = "body" /\ wire # <<>>
    /\ missing' = missing - 1
    /\ buf' = Append(buf, Head(wire))
    /\ at' = IF missing = 1 THEN "deal" ELSE "body"
    /\ wire' = Tail(wire)
    /\ idle' = 0
    /\ UNCHANGED <<who, sent, message, dealt, cut, kick, keeping>>

(* The name and the body that deal() finds in buf_, by the lengths in the  *)
(* header.                                                                 *)
NameIn(b, m) == SubSeq(b, 1, NameLength(m))
BodyFromStart(b, m) == SubSeq(b, 1, BodyLength(m))
BodyIn(b, m) == SubSeq(b, NameLength(m) + 1, Announced(m))

(* deal(), also if it waits for coro_respond(); then back to the top.      *)
Deal ==
    /\ cut = "no" /\ at = "deal"
    /\ dealt' = Append(dealt, [head |-> message,
                               name |-> NameIn(buf, sent[message]),
                               body |-> BodyIn(buf, sent[message])])
    /\ at' = "header"
    /\ kick' = Restarted
    /\ idle' = 0
    /\ UNCHANGED <<who, sent, wire, message, missing, buf, cut, keeping>>

(* The timer coroutine finds the timer expired: free_rc().                 *)
Kick ==
    /\ who = "session" /\ cut = "no" /\ kick = 0
    /\ cut' = "quiet"
    /\ UNCHANGED <<who, sent, wire, reading, dealt, kick, idle, keeping>>

(* Time passes.  What can be read or dealt with is, within Delay.          *)
Tick ==
    /\ who = "session" /\ cut = "no"
    /\ kick > 0 /\ sleep > 0
    /\ (CanGoOn \/ ~alive) => idle < Delay
    /\ kick' = kick - 1
    /\ sleep' = sleep - 1
    /\ idle' = IF CanGoOn \/ ~alive THEN idle + 1 ELSE 0
    /\ UNCHANGED <<who, sent, wire, reading, dealt, cut, alive, half>>

Next ==
    \/ WriteMessage \/ Connected \/ KeepAlive
    \/ ReadHeader \/ ReadPiece \/ Deal
    \/ Kick \/ Tick

Spec == Init /\ [][Next]_vars

(* The read coroutine goes on with what has arrived.                       *)
FairSpec == Spec /\ WF_vars(ReadHeader) /\ WF_vars(ReadPiece) /\ WF_vars(Deal)

-----------------------------------------------------------------------------
Token == (0 .. MaxSent) \X Nat
Dealt == [head : 1 .. MaxSent, name : Seq(Token), body : Seq(Token)]

TypeOK ==
    /\ sent \in Seq(Messages[who])
    /\ wire \in Seq(Token) /\ buf \in Seq(Token)
    /\ at \in {"header", "body", "deal"}
    /\ message \in 0 .. Len(sent) /\ missing \in Nat
    /\ at = "body" => missing > 0
    /\ dealt \in Seq(Dealt)
    /\ cut \in {"no", "invalid", "astray", "quiet"}
    /\ kick \in 0 .. Quiet /\ sleep \in 0 .. Half /\ idle \in 0 .. Delay
    /\ alive \in BOOLEAN /\ half \in {1, 2}

(* More follows the header than it says.                                   *)
Misframed(m) == Announced(m) # Pieces(m)

(* That, or its body is too long.                                          *)
Spoilt(m) == Misframed(m) \/ BodyLength(m) > MaxBody

(* The name fits its field, and the body could be compressed if it had to. *)
Fits(m) == m.name < NameWidth /\ BodyLength(m) # ErrorCode

(* Message id as it was written: all of its name and, behind it, all of its*)
(* body, which compress() may have made shorter.                           *)
Written(id, m) ==
    [head |-> id,
     name |-> [j \in 1 .. m.name |-> <<id, j>>],
     body |-> [j \in 1 .. BodyLength(m) |-> <<id, m.name + j>>]]

(* deal() is given the messages in order and none twice: with a session    *)
(* whatever clients send, with a client until a message has been followed  *)
(* by more than was announced.  What it takes for their names and bodies   *)
(* are the names and bodies that were written if these fit the header, and *)
(* if not, a session still takes nothing of another message for them.      *)
InStep ==
    \A i \in DOMAIN dealt :
        (who = "session" \/ \A j \in 1 .. i - 1 : ~Misframed(sent[j])) =>
            /\ dealt[i].head = i
            /\ Fits(sent[i]) => dealt[i] = Written(i, sent[i])
            /\ who = "session" =>
                  /\ \A j \in DOMAIN dealt[i].name : dealt[i].name[j][1] = i
                  /\ \A j \in DOMAIN dealt[i].body : dealt[i].body[j][1] = i

(* A stream is given up, or goes astray, only because of a message that is *)
(* too long or followed by more than was announced, and not before it.     *)
CutForReason ==
    cut \in {"invalid", "astray"} =>
        \E i \in DOMAIN sent : i <= Len(dealt) + 1 /\ Spoilt(sent[i])

(* A session that has been sent a spoilt message deals with nothing behind *)
(* it, and never runs out of things to read before it gives up the stream. *)
SpoiltEndsIt ==
    who = "session" =>
        \A i \in DOMAIN sent : Spoilt(sent[i]) =>
            Len(dealt) <= i /\ (CanGoOn \/ cut # "no")

(* A connected client is never kicked between messages; but it may be in   *)
(* the middle of one that takes its time, although its bytes do arrive.    *)
KickedIfSlow ==
    cut = "quiet" =>
        /\ at # "header"
        /\ 2 * Half + Delay * (Announced(sent[message]) + 2) >= Quiet

(* Whatever clients send, a session comes to a point where it has dealt    *)
(* with all that was written, or has given up the stream: it never waits   *)
(* for ever for pieces that nobody has written.                            *)
SessionCatchesUp ==
    []<>(who = "session" => Len(dealt) = Len(sent) \/ cut # "no")

(* "automatically compress (zstd)": that a message is compressed on the way*)
(* is no reason for a session to find a header invalid.  Only a name or a  *)
(* body that is too long for it is.                                        *)
CompressionIsTransparent ==
    cut = "invalid" => \E i \in DOMAIN sent : sent[i].name >= NameWidth \/ sent[i].body > MaxBody
=============================================================================
