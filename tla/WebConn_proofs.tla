-------------------------- MODULE WebConn_proofs --------------------------
(***************************************************************************)
(* Proofs about WebConn: for any number of connections, any reply lengths  *)
(* and any send buffer, whatever callbacks old connections cause.          *)
(***************************************************************************)
EXTENDS WebConn, TLAPS

\* The type invariant in two parts, which different provers deal with.
DataOK ==
  /\ pcb \in [Conns -> PcbStates] /\ queued \in [Conns -> 0 .. SndBuf]
  /\ client \in Conns \cup {NULL}
  /\ rx_state \in {"headers", "receiving", "replied"}
  /\ reply_pending \in Nat /\ stream_remaining \in Nat
  /\ event \in Conns \cup {NULL}

FlagsOK ==
  /\ stream_active \in BOOLEAN /\ output_pending \in BOOLEAN
  /\ close_pending \in BOOLEAN /\ idle \in BOOLEAN /\ fault \in BOOLEAN

LEMMA TypeParts == ConnTypeOK <=> DataOK /\ FlagsOK
  BY DEF ConnTypeOK, DataOK, FlagsOK

LEMMA TypePartsNext == ConnTypeOK' <=> DataOK' /\ FlagsOK'
  BY DEF ConnTypeOK, DataOK, FlagsOK

\* The invariant for a step that leaves no client: nothing is owed any more.
LEMMA NoClientInv ==
  ASSUME ConnTypeOK', FreshQueue', client' = NULL
  PROVE  ConnInv'
  BY DEF ConnInv, ClientAlive, ReplyAccounted, NoInheritedStream

\* webflash_abort_client() frees the client's connection and forgets it.
LEMMA AbortFacts ==
  ASSUME ConnInv, AbortClient
  PROVE  /\ pcb' \in [Conns -> PcbStates] /\ queued' \in [Conns -> 0 .. SndBuf]
         /\ client' = NULL /\ FreshQueue'
  <1>1. CASE client = NULL
    BY <1>1 DEF AbortClient, ConnInv, ConnTypeOK, FreshQueue
  <1>2. CASE client # NULL
    BY <1>2, ConnAssumption
       DEF AbortClient, Freed, ConnInv, ConnTypeOK, FreshQueue, PcbStates
  <1> QED
    BY <1>1, <1>2

\* webflash_try_close_client() either keeps the client's connection open or
\* forgets the client; no other connection changes.
LEMMA CloseFacts ==
  ASSUME NEW cur \in [Conns -> PcbStates], client \in Conns \cup {NULL},
         close_pending \in BOOLEAN, TryCloseClient(cur)
  PROVE  /\ pcb' \in [Conns -> PcbStates] /\ close_pending' \in BOOLEAN
         /\ \A p \in Conns : pcb'[p] = "none" => cur[p] = "none"
         /\ client' = NULL \/ (client' = client /\ pcb' = cur)
  <1>1. CASE client = NULL
    BY <1>1 DEF TryCloseClient
  <1>2. CASE client # NULL /\ ClientClosed(cur)
    BY <1>2 DEF ClientClosed, PcbStates
  <1>3. CASE client # NULL /\ ~ClientClosed(cur)
    BY <1>3 DEF TryCloseClient
  <1> QED
    BY <1>1, <1>2, <1>3

\* webflash_stream_fill() moves units from the stream to the queue, and never
\* more than fit.
LEMMA FillFacts ==
  ASSUME ConnTypeOK, client \in Conns, NEW q \in 0 .. SndBuf, StreamFill(q)
  PROVE  /\ queued' \in [Conns -> 0 .. SndBuf] /\ stream_remaining' \in Nat
         /\ stream_active' \in BOOLEAN
         /\ queued'[client] + stream_remaining' = q + stream_remaining
         /\ \A p \in Conns \ {client} : queued'[p] = queued[p]
  <1>1. PICK n \in 0 .. Least(stream_remaining, SndBuf - q) :
          /\ queued' = [queued EXCEPT ![client] = q + n]
          /\ stream_remaining' = stream_remaining - n
          /\ stream_active' = (stream_remaining # n)
    BY DEF StreamFill
  <1>2. /\ stream_remaining \in Nat /\ SndBuf - q \in Nat /\ SndBuf \in Nat
        /\ queued \in [Conns -> 0 .. SndBuf]
    BY ConnAssumption DEF ConnTypeOK
  <1>3. n \in Nat /\ n <= stream_remaining /\ n <= SndBuf - q
    BY <1>2 DEF Least
  <1>4. q + n \in 0 .. SndBuf /\ stream_remaining - n \in Nat
    BY <1>2, <1>3
  <1> QED
    BY <1>1, <1>2, <1>3, <1>4

-----------------------------------------------------------------------------
(* One lemma per callback.                                                  *)

LEMMA AcceptInv ==
  ASSUME ConnInv, NEW p \in Conns, Accept(p)
  PROVE  ConnInv'
  <1>1. CASE client # NULL
    BY <1>1 DEF ConnInv, Accept, ConnTypeOK, ClientAlive, ReplyAccounted,
                NoInheritedStream, FreshQueue, PcbStates, streamVars
  <1>2. CASE client = NULL
    <2>1. /\ pcb' = [pcb EXCEPT ![p] = "open"] /\ client' = p /\ queued' = queued
          /\ rx_state' = "headers" /\ reply_pending' = 0 /\ stream_remaining' = 0
          /\ event' = p /\ queued[p] = 0
      BY <1>2 DEF ConnInv, Accept, ResetStream, FreshQueue
    <2>2. ~stream_active' /\ FlagsOK'
      BY <1>2, TypeParts DEF ConnInv, Accept, ResetStream, FlagsOK
    <2>3. DataOK'
      BY <2>1, TypeParts DEF ConnInv, DataOK, PcbStates
    <2>4. ClientAlive' /\ ReplyAccounted' /\ NoInheritedStream' /\ FreshQueue'
      BY <2>1, <2>2 DEF ConnInv, ConnTypeOK, ClientAlive, ReplyAccounted,
                        NoInheritedStream, FreshQueue
    <2> QED
      BY <2>2, <2>3, <2>4, TypePartsNext DEF ConnInv
  <1> QED
    BY <1>1, <1>2

LEMMA ReplyQueuedInv ==
  ASSUME ConnInv, client # NULL, rx_state # "replied", NEW b \in BodyLens,
         ReplyQueued(b), idle' = FALSE, UNCHANGED fault, event' \in Conns
  PROVE  ConnInv'
  <1>1. /\ b \in Nat /\ SndBuf \in Nat /\ HeaderLen \in Nat
        /\ SndBuf - HeaderLen \in Nat /\ client \in Conns
    BY ConnAssumption DEF ConnInv, ConnTypeOK
  <1>2. PICK n \in 0 .. Least(b, SndBuf - HeaderLen) :
          /\ queued' = [queued EXCEPT ![client] = HeaderLen + n]
          /\ stream_remaining' = b - n
          /\ stream_active' = (b # n)
    BY DEF ReplyQueued
  <1>3. n \in Nat /\ n <= b /\ n <= SndBuf - HeaderLen
    BY <1>1 DEF Least
  <1>4. HeaderLen + n \in 0 .. SndBuf /\ b - n \in Nat
    BY <1>1, <1>3
  <1>5. queued' \in [Conns -> 0 .. SndBuf] /\ queued'[client] = HeaderLen + n
    BY <1>1, <1>2, <1>4 DEF ConnInv, ConnTypeOK
  <1>6. /\ rx_state' = "replied" /\ reply_pending' = HeaderLen + b
        /\ output_pending' \in BOOLEAN /\ close_pending' = FALSE
        /\ pcb' = pcb /\ client' = client
    BY DEF ReplyQueued, ReplyLength
  <1>7. ConnTypeOK'
    <2>1. FlagsOK'
      BY <1>2, <1>6, TypeParts DEF ConnInv, FlagsOK
    <2>2. DataOK'
      BY <1>1, <1>2, <1>4, <1>5, <1>6, TypeParts DEF ConnInv, DataOK
    <2> QED
      BY <2>1, <2>2, TypePartsNext
  <1>8. ReplyAccounted' /\ ClientAlive' /\ NoInheritedStream'
    BY <1>1, <1>2, <1>3, <1>5, <1>6
       DEF ConnInv, ReplyAccounted, ClientAlive, NoInheritedStream
  <1>9. FreshQueue'
    <2>1. pcb[client] # "none"
      BY DEF ConnInv, ClientAlive
    <2> QED
      BY <1>1, <1>2, <1>6, <2>1 DEF ConnInv, ConnTypeOK, FreshQueue
  <1> QED
    BY <1>7, <1>8, <1>9 DEF ConnInv

LEMMA ReplyAbortedInv ==
  ASSUME ConnInv, NEW b \in BodyLens, ReplyAborted(b),
         idle' = FALSE, UNCHANGED fault, event' \in Conns
  PROVE  ConnInv'
  <1>1. b \in Nat /\ HeaderLen \in Nat
    BY ConnAssumption
  <1>2. /\ pcb' \in [Conns -> PcbStates] /\ queued' \in [Conns -> 0 .. SndBuf]
        /\ client' = NULL /\ FreshQueue'
    BY AbortFacts DEF ReplyAborted
  <1>3. ConnTypeOK'
    <2>1. CASE UNCHANGED <<rx_state, streamVars, close_pending>>
      BY <1>2, <2>1 DEF ConnInv, ConnTypeOK, streamVars
    <2>2. CASE ~UNCHANGED <<rx_state, streamVars, close_pending>>
      <3>1. /\ rx_state' = "replied" /\ close_pending' = FALSE
            /\ reply_pending' = HeaderLen + b
            /\ stream_remaining' \in 0 .. b
            /\ stream_active' = (stream_remaining' # 0)
            /\ output_pending' = FALSE
        BY <2>2 DEF ReplyAborted, ReplyLength
      <3>2. FlagsOK'
        BY <3>1, TypeParts DEF ConnInv, FlagsOK
      <3>3. DataOK'
        BY <1>1, <1>2, <3>1, TypeParts DEF ConnInv, DataOK
      <3> QED
        BY <3>2, <3>3, TypePartsNext
    <2> QED
      BY <2>1, <2>2
  <1> QED
    BY <1>2, <1>3, NoClientInv

LEMMA RecvDataInv ==
  ASSUME ConnInv, NEW p \in Conns, RecvData(p)
  PROVE  ConnInv'
  <1>1. event' \in Conns /\ idle' = FALSE /\ UNCHANGED fault
    BY DEF RecvData
  <1>2. CASE UNCHANGED <<pcb, queued, client, rx_state, streamVars, close_pending>>
    BY <1>1, <1>2 DEF ConnInv, ConnTypeOK, ClientAlive, ReplyAccounted,
                      NoInheritedStream, FreshQueue, streamVars
  <1>3. CASE /\ client # NULL /\ rx_state # "replied"
             /\ rx_state' \in {rx_state, "receiving"}
             /\ UNCHANGED <<pcb, queued, client, streamVars, close_pending>>
    BY <1>1, <1>3 DEF ConnInv, ConnTypeOK, ClientAlive, ReplyAccounted,
                      NoInheritedStream, FreshQueue, streamVars
  <1>4. CASE client # NULL /\ rx_state # "replied" /\ \E b \in BodyLens : ReplyQueued(b)
    BY <1>1, <1>4, ReplyQueuedInv
  <1>5. CASE \E b \in BodyLens : ReplyAborted(b)
    BY <1>1, <1>5, ReplyAbortedInv
  <1> QED
    BY <1>2, <1>3, <1>4, <1>5 DEF RecvData

LEMMA RecvFinInv ==
  ASSUME ConnInv, NEW p \in Conns, RecvFin(p)
  PROVE  ConnInv'
  <1>1. /\ event' \in Conns
        /\ queued' = queued /\ rx_state' = rx_state /\ reply_pending' = reply_pending
        /\ stream_remaining' = stream_remaining /\ stream_active' = stream_active
        /\ output_pending' = output_pending /\ idle' = idle /\ fault' = fault
    BY DEF RecvFin, streamVars
  <1>2. PICK s \in PcbStates :
          /\ TryCloseClient([pcb EXCEPT ![p] = s])
          /\ pcb[p] \in {"open", "closing"} /\ s # "none"
          /\ pcb[p] = "open" => s = "peer_closed"
    BY DEF RecvFin, PcbStates
  <1> DEFINE cur == [pcb EXCEPT ![p] = s]
  <1>3. /\ cur \in [Conns -> PcbStates]
        /\ \A r \in Conns : cur[r] = "none" => pcb[r] = "none"
        /\ client # NULL => cur[client] \in {"open", "peer_closed"}
    BY <1>2 DEF ConnInv, ConnTypeOK, ClientAlive
  <1>4. TryCloseClient(cur) /\ client \in Conns \cup {NULL} /\ close_pending \in BOOLEAN
    BY <1>2 DEF ConnInv, ConnTypeOK
  <1> HIDE DEF cur
  <1>5. /\ pcb' \in [Conns -> PcbStates] /\ close_pending' \in BOOLEAN
        /\ \A r \in Conns : pcb'[r] = "none" => cur[r] = "none"
        /\ client' = NULL \/ (client' = client /\ pcb' = cur)
    BY <1>3, <1>4, CloseFacts
  <1>6. ConnTypeOK' /\ FreshQueue'
    BY <1>1, <1>3, <1>4, <1>5 DEF ConnInv, ConnTypeOK, FreshQueue
  <1>7. CASE client' = NULL
    BY <1>6, <1>7, NoClientInv
  <1>8. CASE client' = client /\ pcb' = cur
    BY <1>1, <1>3, <1>6, <1>8
       DEF ConnInv, ClientAlive, ReplyAccounted, NoInheritedStream
  <1> QED
    BY <1>5, <1>7, <1>8

LEMMA SentOtherInv ==
  ASSUME ConnInv, NEW p \in Conns, NEW k \in 1 .. SndBuf, SentOther(p, k)
  PROVE  ConnInv'
  <1>1. /\ UNCHANGED <<pcb, client, rx_state, close_pending, idle, fault>>
        /\ UNCHANGED <<reply_pending, stream_remaining, stream_active, output_pending>>
        /\ event' = p /\ p # client
        /\ queued' = [queued EXCEPT ![p] = @ - k] /\ k \in 1 .. queued[p]
    BY DEF SentOther, streamVars
  <1>2. queued[p] \in 0 .. SndBuf /\ SndBuf \in Nat
    BY ConnAssumption DEF ConnInv, ConnTypeOK
  <1>3. queued[p] - k \in 0 .. SndBuf /\ queued[p] # 0
    BY <1>1, <1>2
  <1>4. /\ queued' \in [Conns -> 0 .. SndBuf]
        /\ \A r \in Conns \ {p} : queued'[r] = queued[r]
    BY <1>1, <1>3 DEF ConnInv, ConnTypeOK
  <1>5. pcb[p] # "none"
    BY <1>3 DEF ConnInv, FreshQueue
  <1> QED
    BY <1>1, <1>4, <1>5 DEF ConnInv, ConnTypeOK, ClientAlive, ReplyAccounted,
                            NoInheritedStream, FreshQueue

\* A stream that is broken off leaves no client.
LEMMA StreamAbortedInv ==
  ASSUME ConnInv, StreamAborted, event' \in Conns, rx_state' = rx_state,
         reply_pending' \in Nat, output_pending' \in BOOLEAN,
         close_pending' = close_pending, idle' \in BOOLEAN, fault' = fault
  PROVE  ConnInv'
  <1>1. /\ pcb' \in [Conns -> PcbStates] /\ queued' \in [Conns -> 0 .. SndBuf]
        /\ client' = NULL /\ FreshQueue'
    BY AbortFacts DEF StreamAborted
  <1>2. stream_remaining' \in Nat
    BY DEF StreamAborted, ConnInv, ConnTypeOK
  <1>3. FlagsOK'
    <2>1. stream_active' \in BOOLEAN
      BY DEF StreamAborted
    <2> QED
      BY <2>1, TypeParts DEF ConnInv, FlagsOK
  <1>4. DataOK'
    BY <1>1, <1>2, TypeParts DEF ConnInv, DataOK
  <1> QED
    BY <1>1, <1>3, <1>4, NoClientInv, TypePartsNext

LEMMA SentInv ==
  ASSUME ConnInv, NEW k \in 1 .. SndBuf, Sent(k)
  PROVE  ConnInv'
  <1>1. /\ client \in Conns /\ client # NULL /\ k \in 1 .. queued[client]
        /\ event' = client /\ idle' = FALSE
        /\ rx_state' = rx_state /\ fault' = fault
        /\ reply_pending' = IF k >= reply_pending THEN 0 ELSE reply_pending - k
    BY ConnAssumption DEF Sent, ConnInv, ConnTypeOK
  <1>2. /\ queued[client] \in 0 .. SndBuf /\ SndBuf \in Nat
        /\ reply_pending \in Nat /\ stream_remaining \in Nat
    BY <1>1, ConnAssumption DEF ConnInv, ConnTypeOK
  <1>3. queued[client] - k \in 0 .. SndBuf /\ queued[client] # 0
    BY <1>1, <1>2
  <1>4. rx_state = "replied" /\ reply_pending = queued[client] + stream_remaining
    BY <1>1, <1>3 DEF ConnInv, NoInheritedStream, ReplyAccounted
  <1>5. reply_pending' \in Nat /\ reply_pending' = queued[client] - k + stream_remaining
    BY <1>1, <1>2, <1>4
  <1>6. CASE StreamAborted /\ UNCHANGED <<output_pending, close_pending>>
    <2>1. output_pending' \in BOOLEAN /\ idle' \in BOOLEAN
      BY <1>1, <1>6, TypeParts DEF ConnInv, FlagsOK
    <2> QED
      BY <1>1, <1>5, <1>6, <2>1, StreamAbortedInv
  <1>7. CASE ~(stream_active /\ StreamAborted /\ UNCHANGED <<output_pending, close_pending>>)
    <2>1. /\ queued' \in [Conns -> 0 .. SndBuf] /\ stream_remaining' \in Nat
          /\ stream_active' \in BOOLEAN
          /\ queued'[client] + stream_remaining' = queued[client] - k + stream_remaining
          /\ \A p \in Conns \ {client} : queued'[p] = queued[p]
      <3>1. CASE stream_active
        <4>1. StreamFill(queued[client] - k) /\ ConnTypeOK
          BY <1>7, <3>1 DEF Sent, ConnInv
        <4> QED
          BY <1>1, <1>3, <4>1, FillFacts
      <3>2. CASE ~stream_active
        <4>1. /\ queued' = [queued EXCEPT ![client] = queued[client] - k]
              /\ stream_remaining' = stream_remaining /\ stream_active' = stream_active
          BY <1>7, <3>2 DEF Sent
        <4>2. stream_active' \in BOOLEAN
          BY <4>1, TypeParts DEF ConnInv, FlagsOK
        <4> QED
          BY <1>1, <1>2, <1>3, <4>1, <4>2 DEF ConnInv, ConnTypeOK
      <3> QED
        BY <3>1, <3>2
    <2>2. /\ pcb' \in [Conns -> PcbStates] /\ close_pending' \in BOOLEAN
          /\ output_pending' \in BOOLEAN
          /\ \A p \in Conns : pcb'[p] = "none" => pcb[p] = "none"
          /\ client' = NULL \/ (client' = client /\ pcb' = pcb)
      <3>1. CASE output_pending' = FALSE /\ TryCloseClient(pcb)
        <4>1. pcb \in [Conns -> PcbStates] /\ close_pending \in BOOLEAN
          BY DEF ConnInv, ConnTypeOK
        <4> QED
          BY <1>1, <3>1, <4>1, CloseFacts
      <3>2. CASE ~(output_pending' = FALSE /\ TryCloseClient(pcb))
        <4>1. /\ output_pending' \in {output_pending, output_pending \/ stream_active}
              /\ UNCHANGED <<pcb, client, close_pending>>
          BY <1>7, <3>2 DEF Sent, KeepClient
        <4> QED
          BY <4>1 DEF ConnInv, ConnTypeOK
      <3> QED
        BY <3>1, <3>2
    <2>3. ConnTypeOK'
      <3>1. FlagsOK'
        BY <1>1, <2>1, <2>2, TypeParts DEF ConnInv, FlagsOK
      <3>2. DataOK'
        BY <1>1, <1>5, <2>1, <2>2, TypeParts DEF ConnInv, DataOK
      <3> QED
        BY <3>1, <3>2, TypePartsNext
    <2>4. FreshQueue'
      BY <1>3, <2>1, <2>2 DEF ConnInv, FreshQueue
    <2>5. CASE client' = NULL
      BY <2>3, <2>4, <2>5, NoClientInv
    <2>6. CASE client' = client /\ pcb' = pcb
      BY <1>1, <1>4, <1>5, <2>1, <2>3, <2>4, <2>6
         DEF ConnInv, ClientAlive, ReplyAccounted, NoInheritedStream
    <2> QED
      BY <2>2, <2>5, <2>6
  <1> QED
    BY <1>6, <1>7

LEMMA TcpErrorInv ==
  ASSUME ConnInv, NEW p \in Conns, TcpError(p)
  PROVE  ConnInv'
  <1>1. /\ pcb' = [pcb EXCEPT ![p] = "freed"] /\ queued' = [queued EXCEPT ![p] = 0]
        /\ client' = NULL /\ event' = p /\ reply_pending' = 0
        /\ rx_state' = rx_state /\ stream_remaining' = stream_remaining
    BY DEF TcpError, Freed
  <1>2. FlagsOK'
    BY TypeParts DEF TcpError, ConnInv, FlagsOK
  <1>3. DataOK' /\ FreshQueue'
    BY <1>1, ConnAssumption, TypeParts DEF ConnInv, DataOK, FreshQueue, PcbStates
  <1> QED
    BY <1>1, <1>2, <1>3, NoClientInv, TypePartsNext

LEMMA FinishedInv ==
  ASSUME ConnInv, NEW p \in Conns, Finished(p)
  PROVE  ConnInv'
  <1>1. /\ pcb' = [pcb EXCEPT ![p] = "freed"] /\ queued' = [queued EXCEPT ![p] = 0]
        /\ UNCHANGED <<client, rx_state, reply_pending, stream_remaining, event>>
        /\ UNCHANGED <<stream_active, output_pending, close_pending, idle, fault>>
        /\ p # client
    <2>1. client # NULL => pcb[client] # "last_ack"
      BY DEF ConnInv, ClientAlive
    <2> QED
      BY <2>1, ConnAssumption DEF Finished, Freed, streamVars
  <1>2. FlagsOK'
    BY <1>1, TypeParts DEF ConnInv, FlagsOK
  <1>3. DataOK' /\ FreshQueue'
    BY <1>1, ConnAssumption, TypeParts DEF ConnInv, DataOK, FreshQueue, PcbStates
  <1>4. ClientAlive' /\ ReplyAccounted' /\ NoInheritedStream'
    BY <1>1 DEF ConnInv, ConnTypeOK, ClientAlive, ReplyAccounted, NoInheritedStream
  <1> QED
    BY <1>2, <1>3, <1>4, TypePartsNext DEF ConnInv

\* Filling the stream in webflash_poll() keeps the account of the reply.
LEMMA PollFillFacts ==
  ASSUME ConnInv, PollFill, stream_active => client \in Conns
  PROVE  /\ queued' \in [Conns -> 0 .. SndBuf] /\ stream_remaining' \in Nat
         /\ stream_active' \in BOOLEAN
         /\ client \in Conns =>
              queued'[client] + stream_remaining' = queued[client] + stream_remaining
         /\ \A p \in Conns \ {client} : queued'[p] = queued[p]
         /\ ~stream_active => queued' = queued /\ ~stream_active'
  <1>1. CASE stream_active
    <2>1. StreamFill(queued[client]) /\ ConnTypeOK /\ client \in Conns
      BY <1>1 DEF PollFill, ConnInv
    <2>2. queued[client] \in 0 .. SndBuf
      BY <2>1 DEF ConnTypeOK
    <2> QED
      BY <1>1, <2>1, <2>2, FillFacts
  <1>2. CASE ~stream_active
    BY <1>2 DEF PollFill, ConnInv, ConnTypeOK
  <1> QED
    BY <1>1, <1>2

LEMMA PollInv ==
  ASSUME ConnInv, NEW p \in Conns, Poll(p)
  PROVE  ConnInv'
  <1>1. event' = p /\ rx_state' = rx_state /\ idle' = idle
    BY DEF Poll
  <1>2. CASE stream_active /\ client = NULL
    <2>1. /\ fault' = TRUE
          /\ UNCHANGED <<pcb, queued, client, reply_pending, stream_remaining>>
          /\ UNCHANGED <<stream_active, output_pending, close_pending>>
      BY <1>2 DEF Poll, streamVars
    <2>2. FlagsOK'
      BY <1>1, <2>1, TypeParts DEF ConnInv, FlagsOK
    <2>3. DataOK' /\ FreshQueue'
      BY <1>1, <2>1, TypeParts DEF ConnInv, DataOK, FreshQueue
    <2> QED
      BY <1>2, <2>1, <2>2, <2>3, NoClientInv, TypePartsNext
  <1>3. CASE ~(stream_active /\ client = NULL)
    <2>1. /\ PollAborts \/ PollCloses \/ PollGoesOn
          /\ output_pending' \in BOOLEAN
          /\ reply_pending' = reply_pending /\ fault' = fault
      <3>1. output_pending' \in {output_pending, FALSE}
        BY <1>3 DEF Poll
      <3>2. output_pending' \in BOOLEAN
        BY <3>1, TypeParts DEF ConnInv, FlagsOK
      <3> QED
        BY <1>3, <3>2 DEF Poll
    <2>2. stream_active => client \in Conns
      BY <1>3 DEF ConnInv, ConnTypeOK
    <2>3. CASE PollAborts /\ stream_active
      <3>1. StreamAborted /\ close_pending' = close_pending
        BY <2>3 DEF PollAborts
      <3>2. idle' \in BOOLEAN /\ reply_pending' \in Nat
        BY <1>1, <2>1 DEF ConnInv, ConnTypeOK
      <3> QED
        BY <1>1, <2>1, <3>1, <3>2, StreamAbortedInv
    <2>4. CASE PollAborts /\ ~stream_active
      <3>1. /\ AbortClient /\ stream_remaining' = stream_remaining
            /\ stream_active' = stream_active /\ close_pending' = close_pending
        BY <2>4 DEF PollAborts
      <3>2. /\ pcb' \in [Conns -> PcbStates] /\ queued' \in [Conns -> 0 .. SndBuf]
            /\ client' = NULL /\ FreshQueue'
        BY <3>1, AbortFacts
      <3>3. FlagsOK'
        BY <1>1, <2>1, <3>1, TypeParts DEF ConnInv, FlagsOK
      <3>4. DataOK'
        BY <1>1, <2>1, <3>1, <3>2, TypeParts DEF ConnInv, DataOK
      <3> QED
        BY <3>2, <3>3, <3>4, NoClientInv, TypePartsNext
    <2>5. CASE PollCloses \/ PollGoesOn
      <3>1. PollFill
        BY <2>5 DEF PollCloses, PollGoesOn
      <3>2. /\ queued' \in [Conns -> 0 .. SndBuf] /\ stream_remaining' \in Nat
            /\ stream_active' \in BOOLEAN
            /\ client \in Conns =>
                 queued'[client] + stream_remaining' = queued[client] + stream_remaining
            /\ \A r \in Conns \ {client} : queued'[r] = queued[r]
            /\ ~stream_active => queued' = queued /\ ~stream_active'
        BY <2>2, <3>1, PollFillFacts
      <3>3. /\ pcb' \in [Conns -> PcbStates] /\ close_pending' \in BOOLEAN
            /\ \A r \in Conns : pcb'[r] = "none" => pcb[r] = "none"
            /\ client' = NULL \/ (client' = client /\ pcb' = pcb)
        <4>1. CASE PollCloses
          BY <4>1 DEF PollCloses, ClientClosed, ConnInv, ConnTypeOK, PcbStates
        <4>2. CASE PollGoesOn
          BY <4>2 DEF PollGoesOn, KeepClient, ConnInv, ConnTypeOK
        <4> QED
          BY <2>5, <4>1, <4>2
      <3>4. FlagsOK'
        BY <1>1, <2>1, <3>2, <3>3, TypeParts DEF ConnInv, FlagsOK
      <3>5. DataOK'
        BY <1>1, <2>1, <3>2, <3>3, TypeParts DEF ConnInv, DataOK
      <3>6. FreshQueue'
        <4>1. client # NULL => pcb[client] # "none"
          BY DEF ConnInv, ClientAlive
        <4>2. \A r \in Conns : pcb[r] = "none" => r # client /\ queued[r] = 0
          BY <4>1, ConnAssumption DEF ConnInv, FreshQueue
        <4> QED
          BY <3>2, <3>3, <4>2 DEF FreshQueue
      <3>7. CASE client' = NULL
        BY <3>4, <3>5, <3>6, <3>7, NoClientInv, TypePartsNext
      <3>8. CASE client' = client /\ pcb' = pcb /\ client # NULL
        <4>1. client \in Conns
          BY <3>8 DEF ConnInv, ConnTypeOK
        <4>2. ClientAlive' /\ ReplyAccounted' /\ NoInheritedStream'
          BY <1>1, <2>1, <3>2, <3>8, <4>1
             DEF ConnInv, ClientAlive, ReplyAccounted, NoInheritedStream
        <4> QED
          BY <3>4, <3>5, <3>6, <4>2, TypePartsNext DEF ConnInv
      <3> QED
        BY <3>3, <3>7, <3>8
    <2> QED
      BY <2>1, <2>3, <2>4, <2>5
  <1> QED
    BY <1>2, <1>3

LEMMA TickInv ==
  ASSUME ConnInv, Tick
  PROVE  ConnInv'
  BY DEF Tick, ConnInv, ConnTypeOK, ClientAlive, ReplyAccounted,
         NoInheritedStream, FreshQueue, streamVars

-----------------------------------------------------------------------------
(* The theorems.                                                            *)

\* The invariant of the connection handling holds in every reachable state, for
\* any number of connections that webflash_accept() ever saw.
THEOREM ConnInvariant == ConnSpec => []ConnInv
  <1>1. ConnInit => ConnInv
    <2> SUFFICES ASSUME ConnInit PROVE ConnInv
      OBVIOUS
    <2>1. FlagsOK
      BY DEF ConnInit, FlagsOK
    <2>2. DataOK /\ FreshQueue
      BY ConnAssumption DEF ConnInit, DataOK, FreshQueue, PcbStates
    <2>3. ClientAlive /\ ReplyAccounted /\ NoInheritedStream
      BY DEF ConnInit, ClientAlive, ReplyAccounted, NoInheritedStream
    <2> QED
      BY <2>1, <2>2, <2>3, TypeParts DEF ConnInv
  <1>2. ConnInv /\ [ConnNext]_connVars => ConnInv'
    <2> SUFFICES ASSUME ConnInv, [ConnNext]_connVars PROVE ConnInv'
      OBVIOUS
    <2>1. CASE Data
      BY <2>1, RecvDataInv DEF Data
    <2>2. CASE Callback
      BY <2>2, AcceptInv, RecvFinInv, TcpErrorInv, FinishedInv, PollInv, SentOtherInv
         DEF Callback
    <2>3. CASE \E k \in 1 .. SndBuf : Sent(k)
      BY <2>3, SentInv
    <2>4. CASE Tick
      BY <2>4, TickInv
    <2>5. CASE UNCHANGED connVars
      BY <2>5 DEF connVars, streamVars, ConnInv, ConnTypeOK, ClientAlive,
                  ReplyAccounted, NoInheritedStream, FreshQueue
    <2> QED
      BY <2>1, <2>2, <2>3, <2>4, <2>5 DEF ConnNext
  <1> QED
    BY <1>1, <1>2, PTL DEF ConnSpec

\* ctx->client never points to a connection that has been closed or freed.
THEOREM ClientAliveAlways == ConnSpec => []ClientAlive
  <1>1. ConnInv => ClientAlive
    BY DEF ConnInv
  <1> QED
    BY <1>1, ConnInvariant, PTL

\* ctx->reply_pending counts exactly what is unacknowledged of the reply.
THEOREM ReplyAccountedAlways == ConnSpec => []ReplyAccounted
  <1>1. ConnInv => ReplyAccounted
    BY DEF ConnInv
  <1> QED
    BY <1>1, ConnInvariant, PTL

\* No client is sent the rest of a reply to an earlier one.
THEOREM NoInheritedStreamAlways == ConnSpec => []NoInheritedStream
  <1>1. ConnInv => NoInheritedStream
    BY DEF ConnInv
  <1> QED
    BY <1>1, ConnInvariant, PTL
=============================================================================
