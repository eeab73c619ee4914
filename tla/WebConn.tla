------------------------------ MODULE WebConn ------------------------------
(***************************************************************************)
(* The connections of cmd/lwip/webflash.c: the lwIP callbacks, the reply   *)
(* that is streamed to the client as acknowledgements come in, and the     *)
(* closing of connections.                                                 *)
(*                                                                         *)
(* A connection that webflash_try_close_client() has closed is not freed:  *)
(* lwIP keeps its pcb, with the callbacks and the context still attached,  *)
(* until the other side has closed too or a timer expires.  Until then it  *)
(* may be polled, be told of an end of stream, or fail.  Sizes are counted *)
(* in units of the reply; what a request asks for is left open.            *)
(***************************************************************************)
EXTENDS Integers

CONSTANTS
  Conns,        \* the connections clients open
  NULL,
  HeaderLen,    \* length of an HTTP response header
  BodyLens,     \* lengths of response bodies
  SndBuf        \* TCP_SND_BUF of lwIP

ASSUME ConnAssumption ==
  /\ NULL \notin Conns
  /\ SndBuf \in Nat \ {0} /\ HeaderLen \in 1 .. SndBuf /\ BodyLens \subseteq Nat

VARIABLES
  pcb,                \* lwIP: state of each connection
  queued,             \* lwIP: units written to it and not yet acknowledged
  client,             \* ctx->client
  rx_state,           \* ctx->rx_state; "receiving" for an upload or a body
  reply_pending,      \* ctx->reply_pending
  stream_remaining,   \* ctx->stream_remaining
  stream_active,      \* ctx->stream_active
  output_pending,     \* ctx->output_pending
  close_pending,      \* ctx->close_pending
  idle,               \* WEBFLASH_IDLE_TIMEOUT_MS have passed since last_activity
  fault,              \* a NULL client has been dereferenced
  event               \* history: the connection the last callback was for

streamVars == <<reply_pending, stream_remaining, stream_active, output_pending>>
connVars   == <<pcb, queued, client, rx_state, streamVars, close_pending, idle, fault, event>>

\* States of a pcb: established; the peer has closed (CLOSE_WAIT); we have
\* closed (FIN_WAIT); both have (LAST_ACK, CLOSING); freed.
PcbStates == {"none", "open", "peer_closed", "closing", "last_ack", "freed"}

Least(a, b) == IF a < b THEN a ELSE b

\* The pcb is on lwIP's list of active connections.
Attached(p) == pcb[p] \in {"open", "peer_closed", "closing", "last_ack"}

-----------------------------------------------------------------------------
(* What the callbacks do to the client.                                     *)

Freed(p) == pcb' = [pcb EXCEPT ![p] = "freed"] /\ queued' = [queued EXCEPT ![p] = 0]

\* webflash_abort_client(), which leaves the state of the reply as it is.
AbortClient ==
  /\ IF client = NULL THEN UNCHANGED <<pcb, queued>> ELSE Freed(client)
  /\ client' = NULL

KeepClient == UNCHANGED <<pcb, client, close_pending>>

\* Mutant of ClientClosed: ctx->client keeps pointing to the closed connection.
ClosedNotForgotten(cur) ==
  /\ pcb' = [cur EXCEPT ![client] = IF @ = "open" THEN "closing" ELSE "last_ack"]
  /\ close_pending' = FALSE
  /\ UNCHANGED client

\* tcp_close() returns ERR_OK to webflash_try_close_client(). cur is the state
\* of the connections at the time of the call.
ClientClosed(cur) ==
  /\ pcb' = [cur EXCEPT ![client] = IF @ = "open" THEN "closing" ELSE "last_ack"]
  /\ close_pending' = FALSE
  /\ client' = NULL

\* webflash_try_close_client(). When tcp_close() returns ERR_MEM, the close is
\* left to webflash_poll(). (The lwIP of this tree rather puts the FIN off itself
\* and returns ERR_OK, lwip/src/core/tcp.c:448-456; the branch is kept as the code
\* has it. The abort for other errors, which tcp_close() never returns here, is not.)
TryCloseClient(cur) ==
  IF client = NULL
  THEN pcb' = cur /\ UNCHANGED <<client, close_pending>>
  ELSE \/ ClientClosed(cur)
       \/ close_pending' = TRUE /\ pcb' = cur /\ UNCHANGED client

\* webflash_stream_fill() for the client, which has q units in its queue. It
\* writes what fits into the send buffer, or less if tcp_write() runs out of
\* memory.
StreamFill(q) ==
  \E n \in 0 .. Least(stream_remaining, SndBuf - q) :
    /\ queued' = [queued EXCEPT ![client] = q + n]
    /\ stream_remaining' = stream_remaining - n
    /\ stream_active' = (stream_remaining # n)

\* webflash_stream_fill() fails after part of it has been queued, or the
\* tcp_output() that follows it does.
StreamAborted ==
  /\ AbortClient
  /\ stream_remaining' \in 0 .. stream_remaining
  /\ stream_active' = (stream_remaining' # 0)

-----------------------------------------------------------------------------
(* webflash_accept()                                                        *)

\* Mutant of ResetStream: the stream of the previous client stays active.
ResetCounters ==
  /\ reply_pending' = 0 /\ stream_remaining' = 0 /\ output_pending' = FALSE
  /\ UNCHANGED stream_active

\* What webflash_accept() does to the state of the reply.
ResetStream ==
  /\ reply_pending' = 0 /\ stream_remaining' = 0 /\ output_pending' = FALSE
  /\ stream_active' = FALSE

Accept(p) ==
  /\ pcb[p] = "none"
  /\ event' = p
  /\ IF client # NULL
     THEN /\ pcb' = [pcb EXCEPT ![p] = "freed"]
          /\ UNCHANGED <<client, rx_state, streamVars, close_pending, idle>>
     ELSE /\ pcb' = [pcb EXCEPT ![p] = "open"]
          /\ client' = p
          /\ rx_state' = "headers"
          /\ ResetStream
          /\ close_pending' = FALSE
          /\ idle' = FALSE
  /\ UNCHANGED <<queued, fault>>

-----------------------------------------------------------------------------
(* webflash_recv()                                                          *)

\* Mutant of ReplyLength: the header is not counted.
BodyLength(b) == b

ReplyLength(b) == HeaderLen + b

\* webflash_reply() or webflash_start_download() with b units of body: the
\* header and as much of the body as fits are queued, and output is started.
ReplyQueued(b) ==
  /\ rx_state' = "replied"
  /\ reply_pending' = ReplyLength(b)
  /\ \E n \in 0 .. Least(b, SndBuf - HeaderLen) :
       /\ queued' = [queued EXCEPT ![client] = HeaderLen + n]
       /\ stream_remaining' = b - n
       /\ stream_active' = (b # n)
  /\ output_pending' \in BOOLEAN
  /\ close_pending' = FALSE
  /\ UNCHANGED <<pcb, client>>

\* The header, the body or the output fails and the client is aborted, before
\* or after the reply has been recorded.
ReplyAborted(b) ==
  /\ AbortClient
  /\ \/ UNCHANGED <<rx_state, streamVars, close_pending>>
     \/ /\ rx_state' = "replied" /\ close_pending' = FALSE
        /\ reply_pending' = ReplyLength(b)
        /\ stream_remaining' \in 0 .. b
        /\ stream_active' = (stream_remaining' # 0)
        /\ output_pending' = FALSE

\* Data for which no client is left, or that follows the request, is dropped;
\* other data may leave the request incomplete, start an upload, or be
\* answered. The data counts as the client's, whoever sent it.
RecvData(p) ==
  /\ pcb[p] = "open"
  /\ event' = p
  /\ idle' = FALSE
  /\ IF client = NULL \/ rx_state = "replied"
     THEN UNCHANGED <<pcb, queued, client, rx_state, streamVars, close_pending>>
     ELSE \/ /\ rx_state' \in {rx_state, "receiving"}
             /\ UNCHANGED <<pcb, queued, client, streamVars, close_pending>>
          \/ \E b \in BodyLens : ReplyQueued(b) \/ ReplyAborted(b)
  /\ UNCHANGED fault

\* The end of the peer's stream. A connection we have closed before is done if
\* all it sent has been acknowledged.
RecvFin(p) ==
  /\ event' = p
  /\ \/ pcb[p] = "open"    /\ TryCloseClient([pcb EXCEPT ![p] = "peer_closed"])
     \/ pcb[p] = "closing" /\ TryCloseClient([pcb EXCEPT ![p] = "last_ack"])
     \/ /\ pcb[p] = "closing" /\ queued[p] = 0
        /\ TryCloseClient([pcb EXCEPT ![p] = "freed"])
  /\ UNCHANGED <<queued, rx_state, streamVars, idle, fault>>

-----------------------------------------------------------------------------
(* webflash_sent()                                                          *)

\* The peer of a connection that is not the client acknowledges k units.
SentOther(p, k) ==
  /\ Attached(p) /\ p # client /\ k \in 1 .. queued[p]
  /\ event' = p
  /\ queued' = [queued EXCEPT ![p] = @ - k]
  /\ UNCHANGED <<pcb, client, rx_state, streamVars, close_pending, idle, fault>>

\* The client acknowledges k units. The stream is refilled, and the client
\* closed once the whole reply has been acknowledged.
Sent(k) ==
  /\ client # NULL /\ k \in 1 .. queued[client]
  /\ event' = client
  /\ idle' = FALSE
  /\ reply_pending' = IF k >= reply_pending THEN 0 ELSE reply_pending - k
  /\ \/ stream_active /\ StreamAborted /\ UNCHANGED <<output_pending, close_pending>>
     \/ /\ IF stream_active
           THEN StreamFill(queued[client] - k)
           ELSE /\ queued' = [queued EXCEPT ![client] = @ - k]
                /\ UNCHANGED <<stream_remaining, stream_active>>
        /\ IF rx_state = "replied" /\ reply_pending' = 0 /\ ~stream_active'
           THEN output_pending' = FALSE /\ TryCloseClient(pcb)
           ELSE /\ output_pending' \in {output_pending, output_pending \/ stream_active}
                /\ KeepClient
  /\ UNCHANGED <<rx_state, fault>>

-----------------------------------------------------------------------------
(* webflash_tcp_error(): a reset, a timeout of lwIP, or data for a connection *)
(* we have closed. It takes the connection to be the client's.               *)

TcpError(p) ==
  /\ Attached(p)
  /\ event' = p
  /\ Freed(p)
  /\ client' = NULL
  /\ reply_pending' = 0
  /\ stream_active' = FALSE
  /\ output_pending' = FALSE
  /\ close_pending' = FALSE
  /\ UNCHANGED <<rx_state, stream_remaining, idle, fault>>

\* The last acknowledgement of a closed connection: lwIP calls nobody.
Finished(p) ==
  /\ pcb[p] = "last_ack" /\ queued[p] = 0
  /\ Freed(p)
  /\ UNCHANGED <<client, rx_state, streamVars, close_pending, idle, fault, event>>

-----------------------------------------------------------------------------
(* webflash_poll()                                                          *)

\* Mutant of Overdue: the idle timeout is not looked at.
NeverOverdue == FALSE

Overdue == idle /\ client # NULL

\* What webflash_stream_fill() is asked to do first.
PollFill ==
  IF stream_active THEN StreamFill(queued[client])
  ELSE UNCHANGED <<queued, stream_remaining, stream_active>>

\* The stream cannot be filled, tcp_output() fails, or the client is overdue.
PollAborts ==
  /\ stream_active \/ output_pending \/ Overdue
  /\ IF stream_active THEN StreamAborted
     ELSE AbortClient /\ UNCHANGED <<stream_remaining, stream_active>>
  /\ UNCHANGED close_pending

\* A close that had to wait for memory is made up for.
PollCloses ==
  /\ close_pending /\ reply_pending = 0 /\ client # NULL
  /\ PollFill
  /\ ClientClosed(pcb)

PollGoesOn == ~Overdue /\ PollFill /\ KeepClient

\* p may be any connection lwIP knows: the stream is the client's, tcp_output()
\* is called for p. With no client, filling the stream dereferences NULL.
Poll(p) ==
  /\ Attached(p)
  /\ event' = p
  /\ IF stream_active /\ client = NULL
     THEN /\ fault' = TRUE
          /\ UNCHANGED <<pcb, queued, client, streamVars, close_pending>>
     ELSE /\ PollAborts \/ PollCloses \/ PollGoesOn
          /\ output_pending' \in {output_pending, FALSE}
          /\ UNCHANGED <<reply_pending, fault>>
  /\ UNCHANGED <<rx_state, idle>>

\* Time passes without a sign of the client.
Tick ==
  /\ idle' = TRUE
  /\ UNCHANGED <<pcb, queued, client, rx_state, streamVars, close_pending, fault, event>>

-----------------------------------------------------------------------------
ConnInit ==
  /\ pcb = [p \in Conns |-> "none"] /\ queued = [p \in Conns |-> 0]
  /\ client = NULL /\ rx_state = "headers"
  /\ reply_pending = 0 /\ stream_remaining = 0
  /\ stream_active = FALSE /\ output_pending = FALSE /\ close_pending = FALSE
  /\ idle = FALSE /\ fault = FALSE /\ event = NULL

Data == \E p \in Conns : RecvData(p)

Callback ==
  \E p \in Conns :
    \/ Accept(p) \/ RecvFin(p) \/ TcpError(p) \/ Finished(p) \/ Poll(p)
    \/ \E k \in 1 .. SndBuf : SentOther(p, k)

ConnNext == ~fault /\ (Data \/ Callback \/ (\E k \in 1 .. SndBuf : Sent(k)) \/ Tick)

ConnSpec == ConnInit /\ [][ConnNext]_connVars

-----------------------------------------------------------------------------
(* What holds of the connections.                                           *)

ConnTypeOK ==
  /\ pcb \in [Conns -> PcbStates] /\ queued \in [Conns -> 0 .. SndBuf]
  /\ client \in Conns \cup {NULL}
  /\ rx_state \in {"headers", "receiving", "replied"}
  /\ reply_pending \in Nat /\ stream_remaining \in Nat
  /\ stream_active \in BOOLEAN /\ output_pending \in BOOLEAN
  /\ close_pending \in BOOLEAN /\ idle \in BOOLEAN /\ fault \in BOOLEAN
  /\ event \in Conns \cup {NULL}

\* ctx->client never points to a pcb that lwIP has freed or that we have
\* closed, whatever callbacks earlier connections still cause: nothing is
\* written to a dead connection.
ClientAlive == client # NULL => pcb[client] \in {"open", "peer_closed"}

\* reply_pending is what is still to be acknowledged of the reply, queued or
\* not: webflash_sent() closes the client neither before the last unit has
\* been acknowledged nor never.
ReplyAccounted ==
  client # NULL /\ rx_state = "replied" =>
    reply_pending = queued[client] + stream_remaining

\* A new client does not inherit the stream of an earlier one whose connection
\* broke off in the middle of a reply (which leaves stream_active set): nothing
\* is sent to it before webflash_reply() or webflash_start_download().
NoInheritedStream ==
  client # NULL /\ rx_state # "replied" => queued[client] = 0 /\ ~stream_active

\* mydoc/webflash.md:112: tcp_close() is called only after the client has
\* acknowledged the whole response.
ClosesAcknowledged ==
  [][\A c \in Conns :
       client = c /\ rx_state = "replied" /\ pcb'[c] \in {"closing", "last_ack"}
         => queued'[c] = 0 /\ stream_remaining' = 0]_connVars

\* README.webflash.md:141: the server uses a single connection. What happens
\* to other connections does not take the client its connection away.
SingleConnection ==
  [][\A c \in Conns : client = c /\ client' # c => event' = c]_connVars

\* lwIP asserts that a connection it writes to is not NULL.
NoFault == ~fault

\* The one client slot becomes free again: a client that stops answering is
\* aborted when the idle timeout has passed.
SlotFreed == client # NULL ~> client = NULL

-----------------------------------------------------------------------------
(* The inductive invariant: the counter is exact only because a client that *)
(* has not been answered has an empty queue, and that because a connection  *)
(* starts with one and no stream is left over.                              *)

FreshQueue == \A p \in Conns : pcb[p] = "none" => queued[p] = 0

ConnInv ==
  ConnTypeOK /\ ClientAlive /\ ReplyAccounted /\ NoInheritedStream /\ FreshQueue
=============================================================================
