------------------------------- MODULE HttpRx -------------------------------
(***************************************************************************)
(* How the recovery server (cmd/lwip/webflash.c) puts a request together   *)
(* from what TCP delivers: webflash_recv() gets chains of buffers that cut *)
(* the stream anywhere, webflash_consume() collects the header, and        *)
(* webflash_store_upload() or webflash_store_body() the body.  There is    *)
(* one context; webflash_recv() does not ask whether the connection it is  *)
(* called for is the context's client.                                     *)
(*                                                                         *)
(* A unit of the stream is a request line ("get" for the page, "upload"    *)
(* for firmware or RAM, "raw" for a protected partition, "env"), a         *)
(* Content-Length line, one of the bytes "r" and "n" of a line end, or any *)
(* other byte.  The lines' own line ends are left out; the empty line that *)
(* ends a header is the four units "r", "n", "r", "n".  Requests that only *)
(* start something are in module WebFlash.                                 *)
(***************************************************************************)
EXTENDS Integers, Sequences, FiniteSetsExt

CONSTANTS
  HeaderSize,   \* WEBFLASH_HEADER_SIZE
  BodySize,     \* WEBFLASH_BODY_SIZE
  UploadSize,   \* size of the partition that uploads are for
  UlongLimit,   \* 2^32: the number of values of a ulong
  Lengths,      \* the number each Content-Length line states
  Malformed,    \* Content-Length lines that state no number
  Valid(_, _),  \* whether webflash_validate_upload(), or the checks of
                \* webflash_env_save(), accept a body for a request line
  Streams,      \* what peers may send on a connection
  Conns,        \* connections
  NoConn        \* ctx->client is NULL

ASSUME HttpRxAssumption ==
  /\ HeaderSize \in Nat /\ HeaderSize > 4 /\ BodySize \in Nat /\ BodySize > 1
  /\ UploadSize \in Nat \ {0} /\ UlongLimit \in Nat \ {0}
  /\ Malformed \cap DOMAIN Lengths = {}
  /\ \A l \in DOMAIN Lengths : Lengths[l] \in Nat
  /\ \A s \in Streams : s \in Seq({s[i] : i \in DOMAIN s}) /\ Len(s) > 0
  /\ NoConn \notin Conns

VARIABLES
  client,    \* ctx->client
  ctx,       \* the part of the context that requests are put together in:
             \* rx_state; header up to header_len; length (content_length); body
             \* up to body_len, or memory at load_addr up to upload_size; and
             \* reply, the history of what webflash_reply() was called with
  device,    \* what the rest of the server says to this request when it is asked,
             \* which happens once: "busy" (webflash_operation_blocked()),
             \* "no_room" (not webflash_range_valid()), "failing" (env_set() or
             \* env_save() fails) or "ready"
  peers,     \* the connections: new, open, closed by this side or by the peer, or
             \* gone; their streams, and how much has been delivered
  foreign,   \* history: the context has taken bytes of another connection
  orphaned   \* history: an open connection lost the context to another's error

rxVars == <<client, ctx, device, peers, foreign, orphaned>>

-----------------------------------------------------------------------------
(* The header.                                                              *)

EmptyLine == <<"r", "n", "r", "n">>

\* The test after each byte.
Complete(h) == Len(h) >= 4 /\ SubSeq(h, Len(h) - 3, Len(h)) = EmptyLine

\* What webflash_get_content_length() returns instead of a length.
NoLine   == -1
NoNumber == -2

\* The lines that webflash_header_value() looks for.
LengthLines(h) == {i \in 1 .. Len(h) : h[i] \in DOMAIN Lengths \cup Malformed}

\* A Content-Length line; simple_strtoul() does not notice an overflow.
LengthOf(line) == IF line \in Malformed THEN NoNumber ELSE Lengths[line] % UlongLimit

\* Mutant of ContentLength: the last line of that name counts.
ContentLengthLast(h) ==
  IF LengthLines(h) = {} THEN NoLine ELSE LengthOf(h[Max(LengthLines(h))])

\* webflash_get_content_length(): the first line of that name counts.
ContentLength(h) ==
  IF LengthLines(h) = {} THEN NoLine ELSE LengthOf(h[Min(LengthLines(h))])

\* webflash_reply(): nothing more is read on this connection.
Answer(c, status) == [c EXCEPT !.rx_state = "replied", !.reply = status]

WithBody == {"upload", "raw", "env"}

\* The longest body of a request, and the lengths that are admitted: the image of
\* a protected partition has the size of the partition.
Most(first) == IF first = "env" THEN BodySize - 1 ELSE UploadSize

Fits(first, n) == n \in 1 .. Most(first) /\ (first = "raw" => n = UploadSize)

\* webflash_prepare_upload() and webflash_prepare_body().
Prepare(c, dev) ==
  LET first == c.header[1]
      n     == ContentLength(c.header)
  IN  IF dev = "busy" THEN Answer(c, "409")
      ELSE IF n = NoLine THEN Answer(c, "411")
      ELSE IF ~Fits(first, n) THEN Answer(c, "413")
      ELSE IF dev = "no_room" /\ first # "env" THEN Answer(c, "409")
      ELSE [c EXCEPT !.length = n, !.body = <<>>,
                     !.rx_state = IF first = "env" THEN "body" ELSE "upload"]

\* webflash_handle_headers(), as far as it decides how to go on.
HandleHeaders(c, dev) ==
  CASE c.header[1] \in WithBody             -> Prepare(c, dev)
    [] c.header[1] = "get"                  -> Answer(c, "200")
    [] c.header[1] \notin WithBody \cup {"get"} -> Answer(c, "404")

-----------------------------------------------------------------------------
(* The body.                                                                *)

\* Mutant of Surplus: what is there already does not count.
SurplusOfAll(c, data) == Len(data) > c.length

\* More than the Content-Length still leaves room for.
Surplus(c, data) == Len(data) > c.length - Len(c.body)

\* Mutant of Placed: every piece goes to the start of the buffer.
PlacedAtStart(c, data) == data \o c.body

\* The copy behind what is there.
Placed(c, data) == c.body \o data

\* The answer to a body that is complete: webflash_store_upload() sets fileaddr
\* and filesize and validates, webflash_env_save() checks the form and saves.
Verdict(first, b, dev) ==
  IF first = "env"
    THEN IF ~Valid(first, b) THEN "400" ELSE IF dev = "failing" THEN "500" ELSE "200"
    ELSE IF dev = "failing" THEN "500" ELSE IF Valid(first, b) THEN "200" ELSE "422"

\* The answer to a body that is longer than announced.
TooLong(first) == IF first = "env" THEN "413" ELSE "400"

\* webflash_store_upload() and webflash_store_body().
Store(c, data, dev) ==
  IF Surplus(c, data) THEN Answer(c, TooLong(c.header[1]))
  ELSE LET d == [c EXCEPT !.body = Placed(c, data)]
       IN  IF Len(d.body) = d.length THEN Answer(d, Verdict(d.header[1], d.body, dev)) ELSE d

\* Bytes of the header that still fit.
Room(c) == HeaderSize - 1 - Len(c.header)

\* The lengths of the beginnings of data after which the header is complete.
Ends(c, data) == {k \in 1 .. Len(data) : Complete(c.header \o SubSeq(data, 1, k))}

\* webflash_consume() in the state that collects a header.
CollectHeader(c, data, dev) ==
  LET k    == Min(Ends(c, data))
      full == [c EXCEPT !.header = @ \o SubSeq(data, 1, k)]
      rest == SubSeq(data, k + 1, Len(data))
      next == HandleHeaders(full, dev)
  IN  IF Ends(c, data) # {} /\ k <= Room(c)
        THEN IF next.rx_state = "replied" \/ rest = <<>> THEN next ELSE Store(next, rest, dev)
      ELSE IF Len(data) > Room(c)
        THEN Answer([c EXCEPT !.header = @ \o SubSeq(data, 1, Room(c))], "431")
      ELSE [c EXCEPT !.header = @ \o data]

\* webflash_consume().
Consume(c, data, dev) ==
  CASE c.rx_state = "headers"            -> CollectHeader(c, data, dev)
    [] c.rx_state \in {"upload", "body"} -> Store(c, data, dev)
    [] c.rx_state = "replied"            -> c

-----------------------------------------------------------------------------
(* The connections. A connection of state "closed" delivers no more data,   *)
(* but lwIP keeps it for a while with the callbacks it has.                 *)

Devices == {"ready", "busy", "no_room", "failing"}

Fresh == [rx_state |-> "headers", header |-> <<>>, length |-> 0, body |-> <<>>, reply |-> "none"]

Over(state) == [state |-> state, sent |-> <<>>, arrived |-> 0]

\* Mutant of Accept: a connection is accepted while there is a client.
AcceptAlways(p, s, dev) ==
  /\ peers[p].state = "new"
  /\ client' = p
  /\ ctx' = Fresh /\ device' = dev /\ foreign' = FALSE
  /\ peers' = [peers EXCEPT ![p] = [state |-> "open", sent |-> s, arrived |-> 0]]
  /\ UNCHANGED orphaned

\* webflash_accept(). While there is a client, others are refused.
Accept(p, s, dev) ==
  /\ client = NoConn /\ peers[p].state = "new"
  /\ client' = p
  /\ ctx' = Fresh /\ device' = dev /\ foreign' = FALSE
  /\ peers' = [peers EXCEPT ![p] = [state |-> "open", sent |-> s, arrived |-> 0]]
  /\ UNCHANGED orphaned

\* The loop of webflash_recv() over a chain of one or two buffers of the
\* connection p, which hold the next n units of its stream, cut after i.
ConsumeChain(p, n, i) ==
  LET Buffer(from, to) == SubSeq(peers[p].sent, peers[p].arrived + from, peers[p].arrived + to)
      first            == Consume(ctx, Buffer(1, i), device)
  IN  IF i = n THEN first ELSE Consume(first, Buffer(i + 1, n), device)

Deliverable(p) == IF peers[p].state = "open" THEN Len(peers[p].sent) - peers[p].arrived ELSE 0

\* webflash_recv() with n units of p; a reply that cannot be sent aborts the client.
Recv(p, n, i, lost) ==
  /\ n \in 1 .. Deliverable(p) /\ i \in 1 .. n /\ client # NoConn
  /\ ctx' = ConsumeChain(p, n, i)
  /\ lost => ctx'.rx_state = "replied" /\ ctx.rx_state # "replied"
  /\ client' = IF lost THEN NoConn ELSE client
  /\ peers' = [peers EXCEPT ![p].arrived = @ + n, ![client] = IF lost THEN Over("gone") ELSE @]
  /\ foreign' = (foreign \/ (p # client /\ ctx.rx_state # "replied"))
  /\ UNCHANGED <<device, orphaned>>

\* webflash_recv() without a client: the data is dropped.
RecvDropped(p, n) ==
  /\ n \in 1 .. Deliverable(p) /\ client = NoConn
  /\ peers' = [peers EXCEPT ![p].arrived = @ + n]
  /\ UNCHANGED <<client, ctx, device, foreign, orphaned>>

\* webflash_try_close_client(), for the client or for any connection in Q.
CloseClient(Q) ==
  /\ client' = NoConn
  /\ peers' = [q \in Conns |-> IF q \in Q \cup {client} THEN Over("closed") ELSE peers[q]]
  /\ UNCHANGED <<ctx, device, foreign, orphaned>>

\* The peer of p has closed its side: webflash_recv() closes the client, which
\* need not be p.
RecvEnd(p) == peers[p].state = "open" /\ CloseClient({p})

\* webflash_sent(): the reply has been delivered.
Sent == client # NoConn /\ ctx.rx_state = "replied" /\ CloseClient({})

\* webflash_tcp_error() for p: there is no client any more, whoever it was.
TcpError(p) ==
  /\ peers[p].state \in {"open", "closed"}
  /\ client' = NoConn
  /\ peers' = [peers EXCEPT ![p] = Over("gone")]
  /\ orphaned' = (orphaned \/ client \notin {NoConn, p})
  /\ UNCHANGED <<ctx, device, foreign>>

\* webflash_abort_client(): the idle limit, or an error of tcp_output().
Abort ==
  /\ client # NoConn /\ client' = NoConn
  /\ peers' = [peers EXCEPT ![client] = Over("gone")]
  /\ UNCHANGED <<ctx, device, foreign, orphaned>>

RxInit ==
  /\ client = NoConn /\ ctx = Fresh /\ device = "ready"
  /\ peers = [p \in Conns |-> Over("new")]
  /\ foreign = FALSE /\ orphaned = FALSE

RxNext ==
  \/ \E p \in Conns :
       \/ \E s \in Streams, dev \in Devices : Accept(p, s, dev)
       \/ \E n \in 1 .. Deliverable(p) :
            RecvDropped(p, n) \/ \E i \in 1 .. n, lost \in BOOLEAN : Recv(p, n, i, lost)
       \/ RecvEnd(p) \/ TcpError(p)
  \/ Sent \/ Abort

RxSpec == RxInit /\ [][RxNext]_rxVars

-----------------------------------------------------------------------------
(* What the server promises.                                                *)

\* What has been delivered of the stream of a connection.
Received(p) == SubSeq(peers[p].sent, 1, peers[p].arrived)

\* The place of the first empty line within the first n units of the stream.
HeaderEnds(s, n) == {e \in 4 .. n : e <= Len(s) /\ SubSeq(s, e - 3, e) = EmptyLine}
HeaderEnd(s)     == CHOOSE e \in HeaderEnds(s, Len(s)) : \A f \in HeaderEnds(s, Len(s)) : e <= f

\* The answers a stream may get, by HTTP's rules and the server's limits; "none"
\* is no answer yet. Only a body that is longer than it was announced leaves a
\* choice: the surplus is noticed or not.
Expected(s, dev) ==
  LET largest == HeaderSize - 1
      e       == HeaderEnd(s)
      said    == {i \in 1 .. e : s[i] \in DOMAIN Lengths \cup Malformed}
      line    == s[Min(said)]
      n       == Lengths[line] % UlongLimit
      there   == Len(s) - e
      verdict == Verdict(s[1], SubSeq(s, e + 1, e + n), dev)
  IN  CASE HeaderEnds(s, largest) = {} -> {IF Len(s) > largest THEN "431" ELSE "none"}
        [] HeaderEnds(s, largest) # {} ->
             IF s[1] = "get" THEN {"200"}
             ELSE IF s[1] \notin WithBody THEN {"404"}
             ELSE IF dev = "busy" THEN {"409"}
             ELSE IF said = {} THEN {"411"}
             ELSE IF line \in Malformed \/ ~Fits(s[1], n) THEN {"413"}
             ELSE IF dev = "no_room" /\ s[1] # "env" THEN {"409"}
             ELSE IF there < n THEN {"none"}
             ELSE IF there = n THEN {verdict}
             ELSE {verdict, TooLong(s[1])}

\* The answer a client gets depends on the bytes it sent, and on what the rest of
\* the server said, not on how TCP cut them into segments and buffers, nor on what
\* an earlier connection left in the context: webflash_consume() with the resets of
\* webflash_accept(). The context must not have taken bytes of a connection that
\* is not its client (OneConnectionsBytes, below, is refuted).
AnswerFromBytes ==
  client # NoConn /\ ~foreign => ctx.reply \in Expected(Received(client), device)

\* A body that was taken is, unit for unit, what follows the header in the
\* client's stream, as long as the header says: nothing of the header, no gap and
\* nothing twice where a segment holds the end of the one and the start of the
\* other; and an answer, unless it is about the length, comes when all of it is
\* there. webflash_store_upload() and webflash_store_body(), as long as the context
\* has not taken bytes of a connection that is not its client.
BodyFromBytes ==
  client # NoConn /\ ~foreign /\ ctx.length > 0 =>
    LET h == Len(ctx.header)
        b == Len(ctx.body)
    IN  /\ ctx.body = SubSeq(peers[client].sent, h + 1, h + b)
        /\ ctx.reply \notin {"none", TooLong(ctx.header[1])} => b = ctx.length
        /\ ctx.reply = "none" => h + b = peers[client].arrived

\* Whoever sent it, a body never grows beyond the length it was admitted with, and
\* that fits its buffer; webflash_store_upload() and webflash_store_body().
BodyInBuffer ==
  ctx.length > 0 => Len(ctx.body) <= ctx.length /\ Fits(ctx.header[1], ctx.length)

\* The context takes bytes of another connection than its client only when an
\* error of a connection that was closed before has taken the context away from
\* one that is still open: webflash_accept() refuses connections while there is a
\* client, and the client is closed or aborted wherever else ctx->client is
\* cleared.
ForeignNeedsOrphan == foreign => orphaned

\* README.webflash.md:141 says that the server uses a single connection; an open
\* connection that has lost the context goes on feeding it.
OneConnectionsBytes == ~foreign

\* An upload is taken only if the length its header states is more than zero
\* and no more than the partition holds; webflash_prepare_upload().
StatedLengthFits ==
  ctx.length > 0 /\ ctx.header[1] = "upload" =>
    Lengths[ctx.header[Min(LengthLines(ctx.header))]] \in 1 .. UploadSize

-----------------------------------------------------------------------------
(* The inductive invariant: what the context c is after k units of a stream.  *)

\* Units 1 .. Len(c.header) of s are its header.
HasHeader(c, s, k) ==
  LET e == Len(c.header)
  IN  /\ e \in 4 .. k /\ e < HeaderSize /\ c.header = SubSeq(s, 1, e)
      /\ HeaderEnds(s, e) = {e}

\* The header is not complete yet.
Collecting(c, s, k) ==
  /\ c.rx_state = "headers" /\ c.header = SubSeq(s, 1, k)
  /\ k < HeaderSize /\ HeaderEnds(s, k) = {}
  /\ c.length = 0 /\ c.body = <<>> /\ c.reply = "none"

\* The request has a body, of which c.body has been taken.
Admitted(c, s, k, dev) ==
  /\ HasHeader(c, s, k) /\ c.header[1] \in WithBody /\ dev # "busy"
  /\ dev = "no_room" => c.header[1] = "env"
  /\ c.length = ContentLength(c.header)
  /\ Fits(c.header[1], c.length)
  /\ Len(c.body) \in 0 .. c.length /\ Len(c.header) + Len(c.body) <= k
  /\ c.body = SubSeq(s, Len(c.header) + 1, Len(c.header) + Len(c.body))

Taking(c, s, k, dev) ==
  /\ c.rx_state \in {"upload", "body"} /\ Admitted(c, s, k, dev) /\ c.reply = "none"
  /\ Len(c.body) < c.length /\ Len(c.header) + Len(c.body) = k

Finished(c, s, k, dev) ==
  /\ c.rx_state = "replied" /\ Admitted(c, s, k, dev)
  /\ \/ c.reply = Verdict(c.header[1], c.body, dev) /\ Len(c.body) = c.length
     \/ c.reply = TooLong(c.header[1]) /\ k > Len(c.header) + c.length

\* Why a request with a header is answered without a body.
RefusedAtOnce(first, n, dev, status) ==
  \/ first = "get" /\ status = "200"
  \/ first \notin WithBody \cup {"get"} /\ status = "404"
  \/ /\ first \in WithBody
     /\ \/ dev = "busy" /\ status = "409"
        \/ dev # "busy" /\ n = NoLine /\ status = "411"
        \/ dev # "busy" /\ n # NoLine /\ ~Fits(first, n) /\ status = "413"
        \/ dev = "no_room" /\ n # NoLine /\ Fits(first, n) /\ first # "env" /\ status = "409"

\* There is no body to be taken.
Settled(c, s, k, dev) ==
  /\ c.rx_state = "replied" /\ c.length = 0
  /\ \/ c.reply = "431" /\ k >= HeaderSize /\ HeaderEnds(s, HeaderSize - 1) = {}
     \/ HasHeader(c, s, k) /\ RefusedAtOnce(c.header[1], ContentLength(c.header), dev, c.reply)

After(c, s, k, dev) ==
  \/ Collecting(c, s, k) \/ Taking(c, s, k, dev)
  \/ Finished(c, s, k, dev) \/ Settled(c, s, k, dev)

\* What the context is does not depend on how the client's stream was cut, unless
\* it has taken bytes of another connection; and only an orphan can be another
\* connection that is open.
RxInv ==
  /\ DOMAIN peers = Conns
  /\ client # NoConn => client \in Conns /\ peers[client].state = "open"
  /\ client # NoConn /\ ~foreign =>
       LET s == peers[client].sent
           k == peers[client].arrived
       IN  /\ s \in Streams /\ k \in 0 .. Len(s)
           /\ DOMAIN ctx = DOMAIN Fresh /\ After(ctx, s, k, device)
  /\ ~orphaned => ~foreign /\ \A p \in Conns : peers[p].state = "open" => p = client

\* What there is room for, whoever sent what the context c has taken.
Units == UNION {{s[i] : i \in DOMAIN s} : s \in Streams}

Bounded(c) ==
  /\ DOMAIN c = DOMAIN Fresh /\ c.rx_state \in {"headers", "upload", "body", "replied"}
  /\ \/ c.length = 0
     \/ /\ c.rx_state # "headers" /\ Fits(c.header[1], c.length)
        /\ c.body \in Seq(Units) /\ Len(c.body) <= c.length

BufferInv ==
  /\ Bounded(ctx) /\ DOMAIN peers = Conns /\ (client # NoConn => client \in Conns)
  /\ \A p \in Conns : peers[p].state = "open" =>
       peers[p].sent \in Streams /\ peers[p].arrived \in 0 .. Len(peers[p].sent)
=============================================================================
