-------------------------- MODULE NetSession_proofs --------------------------
(***************************************************************************)
(* Theorems about the network commands (module NetSession): they count     *)
(* themselves out on every path, poll only a device that runs, and leave   *)
(* no callback of the recovery server behind.                              *)
(***************************************************************************)
EXTENDS NetSession, SequenceTheorems, TLAPS

\* A command that is running.
LEMMA TopFrame ==
  ASSUME NestingInv, frames # <<>>
  PROVE  /\ Len(frames) \in {1, 2} /\ Top = frames[Len(frames)] /\ Top \in FrameType
         /\ \A i \in 1 .. Len(frames) : frames[i] \in FrameType
  <1>1. frames \in Seq(FrameType) /\ Len(frames) \in {1, 2}
    BY EmptySeq DEF NestingInv
  <1>2. \A i \in 1 .. Len(frames) : frames[i] \in FrameType
    BY <1>1, ElementOfSeq
  <1> QED
    BY <1>1, <1>2 DEF Top, Last

\* A command goes on; those it was called by stay where they are.
LEMMA GotoFrames ==
  ASSUME NestingInv, frames # <<>>,
         NEW pc \in {"new", "listen", "poll", "remove", "tftp", "stop"}, Goto(pc)
  PROVE  /\ frames' \in Seq(FrameType) /\ frames' # <<>> /\ Len(frames') = Len(frames)
         /\ Top' = Frame(Top.cmd, pc)
         /\ \A i \in 1 .. Len(frames) : frames'[i].cmd = frames[i].cmd
  <1> DEFINE n == Len(frames)
             f == Frame(Top.cmd, pc)
             s == SubSeq(frames, 1, n - 1)
  <1>1. /\ n \in {1, 2} /\ Top = frames[n] /\ Top \in FrameType
        /\ \A i \in 1 .. n : frames[i] \in FrameType
    BY TopFrame
  <1>2. f \in FrameType /\ f.cmd = Top.cmd
    BY <1>1 DEF FrameType, Frame
  <1>3. /\ s \in Seq(FrameType) /\ Len(s) = n - 1
        /\ \A i \in 1 .. n - 1 : s[i] = frames[i]
    <2>1. n - 1 \in Int /\ \A i \in 1 .. n - 1 : frames[i] \in FrameType
      BY <1>1
    <2>2. /\ s \in Seq(FrameType) /\ Len(s) = (IF 1 <= n - 1 THEN n - 1 - 1 + 1 ELSE 0)
          /\ \A i \in 1 .. n - 1 - 1 + 1 : s[i] = frames[1 + i - 1]
      BY <2>1, SubSeqProperties
    <2>3. Len(s) = n - 1
      <3> HIDE DEF s, n
      <3> QED
        BY <1>1, <2>2
    <2>4. ASSUME NEW i \in 1 .. n - 1 PROVE s[i] = frames[i]
      <3>1. i \in 1 .. n - 1 - 1 + 1 /\ 1 + i - 1 = i
        BY <1>1
      <3> QED
        BY <2>2, <3>1
    <2> QED
      BY <2>2, <2>3, <2>4
  <1>4. <<f>> \in Seq(FrameType) /\ Len(<<f>>) = 1 /\ <<f>>[1] = f
    BY <1>2
  <1>5. frames' = s \o <<f>>
    BY DEF Goto, Front
  <1>6. /\ frames' \in Seq(FrameType) /\ Len(frames') = (n - 1) + 1
        /\ \A i \in 1 .. (n - 1) + 1 : frames'[i] = IF i <= n - 1 THEN s[i] ELSE <<f>>[i - (n - 1)]
    BY <1>3, <1>4, <1>5, ConcatProperties
  <1>7. Len(frames') = n /\ frames' # <<>>
    BY <1>1, <1>6
  <1>8. frames'[n] = f
    BY <1>1, <1>4, <1>6
  <1>9. \A i \in 1 .. n : frames'[i].cmd = frames[i].cmd
    BY <1>1, <1>2, <1>3, <1>6, <1>8
  <1> QED
    BY <1>6, <1>7, <1>8, <1>9 DEF Top, Last

\* A step of the running command from one place to another, as far as nesting
\* and counting go.
LEMMA GotoNesting ==
  ASSUME SessionInv, frames # <<>>,
         NEW pc \in {"new", "listen", "poll", "remove", "tftp", "stop"}, Goto(pc),
         pc = "tftp" => Top.cmd = "dhcp", started' = started
  PROVE  /\ NestingInv' /\ Balanced' /\ Len(frames') = Len(frames) /\ Top'.cmd = Top.cmd
         /\ \A p : At(p)' <=> p = pc
  <1>1. /\ NestingInv /\ started = Len(frames)
    BY DEF SessionInv, Balanced
  <1>2. /\ frames' \in Seq(FrameType) /\ frames' # <<>> /\ Len(frames') = Len(frames)
        /\ Top' = Frame(Top.cmd, pc)
        /\ \A i \in 1 .. Len(frames) : frames'[i].cmd = frames[i].cmd
    BY <1>1, GotoFrames
  <1>3. Top'.cmd = Top.cmd /\ Top'.pc = pc
    BY <1>2 DEF Frame
  <1>4. \A p : At(p)' <=> p = pc
    BY <1>2, <1>3 DEF At
  <1>5. NestingInv'
    BY <1>1, <1>2, <1>3, <1>4 DEF NestingInv
  <1>6. Balanced'
    BY <1>1, <1>2 DEF Balanced
  <1> QED
    BY <1>2, <1>3, <1>4, <1>5, <1>6

\* What a running command knows.
LEMMA AtFacts ==
  ASSUME SessionInv, NEW p, At(p)
  PROVE  /\ frames # <<>> /\ Top.pc = p /\ Top \in FrameType /\ Len(frames) \in {1, 2}
         /\ NestingInv /\ DeviceInv /\ ServerInv /\ Balanced
         /\ conn \in [Conns -> {"free", "open", "closing", "time_wait"}]
  BY TopFrame DEF At, SessionInv

\* The connections after an interface was removed.
LEMMA AbortedConns ==
  ASSUME SessionInv
  PROVE  /\ Aborted \in [Conns -> {"free", "open", "closing", "time_wait"}]
         /\ conn' = Aborted => Attached' = {}
  BY DEF SessionInv, Aborted, Attached

\* A command begins.
LEMMA EthStartInv ==
  ASSUME SessionInv, NEW c \in Commands \cup {"webflash"}, EthStart(c)
  PROVE  SessionInv'
  <1>1. /\ NestingInv /\ DeviceInv /\ ServerInv /\ Balanced /\ started = Len(frames)
        /\ conn' = conn /\ netifs' = netifs /\ Attached' = Attached
        /\ conn' \in [Conns -> {"free", "open", "closing", "time_wait"}]
        /\ frames \in Seq(FrameType)
    BY DEF SessionInv, NestingInv, Balanced, EthStart, EthStartFails, Attached
  <1>2. frames # <<>> => Len(frames) = 1 /\ Top.cmd = "dhcp" /\ c = "tftp" /\ At("tftp")
    <2> SUFFICES ASSUME frames # <<>>
                 PROVE  Len(frames) = 1 /\ Top.cmd = "dhcp" /\ c = "tftp" /\ At("tftp")
      OBVIOUS
    <2>1. At("tftp") /\ c = "tftp" /\ Top.cmd = "dhcp"
      BY <1>1 DEF EthStart, MayCall, NestingInv
    <2>2. Len(frames) \in {1, 2} /\ Top = frames[Len(frames)]
      BY <1>1, TopFrame
    <2> QED
      BY <1>1, <2>1, <2>2 DEF NestingInv
  <1>3. Attached = {}
    BY <1>1, <1>2 DEF ServerInv, At
  <1>4. running' \in BOOLEAN
    <2>1. running \in BOOLEAN /\ \A r \in EthInit : r.up \in BOOLEAN
      BY <1>1 DEF DeviceInv, EthInit
    <2>2. running' = running \/ running' = FALSE \/ \E r \in EthInit : running' = r.up
      BY DEF EthStart, EthStartFails
    <2> QED
      BY <2>1, <2>2, Zenon
  <1>5. CASE started' = started + 1 /\ frames' = Append(frames, Frame(c, "new"))
    <2>1. Frame(c, "new") \in FrameType
      BY DEF Frame, FrameType
    <2>2. /\ frames' \in Seq(FrameType) /\ Len(frames') = Len(frames) + 1
          /\ frames'[Len(frames) + 1] = Frame(c, "new")
          /\ \A i \in 1 .. Len(frames) : frames'[i] = frames[i]
      BY <1>1, <1>5, <2>1, AppendProperties
    <2>3. frames' # <<>> /\ Len(frames) \in {0, 1} /\ Len(frames') \in {1, 2}
      BY <1>1, <1>2, <2>2, EmptySeq
    <2>4. Top' = Frame(c, "new")
      BY <2>2 DEF Top, Last
    <2>5. \A p : At(p)' <=> p = "new"
      BY <2>3, <2>4 DEF At, Frame
    <2>6. NestingInv'
      <3>1. Len(frames') = 2 => frames'[1].cmd = "dhcp" /\ frames'[2].cmd = "tftp"
        BY <1>2, <2>2, <2>3 DEF Top, Last, Frame
      <3> QED
        BY <2>2, <2>3, <2>5, <3>1 DEF NestingInv
    <2>7. DeviceInv' /\ ServerInv' /\ Balanced'
      BY <1>1, <1>3, <1>4, <1>5, <2>2, <2>3, <2>5 DEF DeviceInv, ServerInv, Balanced
    <2> QED
      BY <1>1, <2>6, <2>7 DEF SessionInv
  <1>6. CASE EthStartFails
    <2>1. started = 0 /\ frames = <<>> /\ running' = FALSE /\ frames' = frames /\ started' = started
      BY <1>1, <1>2, <1>6 DEF EthStartFails
    <2>2. NestingInv' /\ DeviceInv' /\ ServerInv' /\ Balanced'
      BY <1>1, <1>3, <1>4, <2>1 DEF NestingInv, DeviceInv, ServerInv, Balanced, At, Top
    <2> QED
      BY <1>1, <2>2 DEF SessionInv
  <1> QED
    BY <1>5, <1>6 DEF EthStart

\* A command ends, and gives way to the one that called it.
LEMMA EthStopInv ==
  ASSUME SessionInv, EthStop
  PROVE  SessionInv'
  <1>1. /\ frames # <<>> /\ Top.pc = "stop" /\ Len(frames) \in {1, 2} /\ At("stop")
        /\ NestingInv /\ DeviceInv /\ ServerInv /\ started = Len(frames)
        /\ conn' \in [Conns -> {"free", "open", "closing", "time_wait"}]
        /\ conn' = conn /\ netifs' = netifs /\ Attached' = Attached
        /\ started' = started - 1 /\ running' = (running /\ started' > 0)
    BY AtFacts DEF EthStop, Balanced, Attached
  <1>2. Attached = {} /\ running' \in BOOLEAN
    BY <1>1 DEF ServerInv, At
  <1>3. CASE Len(frames) = 1
    <2>1. frames' = <<>> /\ started' = 0
      BY <1>1, <1>3 DEF EthStop
    <2>2. ~running'
      <3>1. ~(started' > 0)
        BY <2>1
      <3> QED
        BY <1>1, <3>1, Zenon
    <2>3. NestingInv' /\ DeviceInv' /\ ServerInv' /\ Balanced'
      BY <1>1, <1>2, <2>1, <2>2, EmptySeq DEF NestingInv, DeviceInv, ServerInv, Balanced, At, Top
    <2> QED
      BY <1>1, <2>3 DEF SessionInv
  <1>4. CASE Len(frames) = 2
    <2> DEFINE f == Frame(frames[1].cmd, "stop")
    <2>1. frames' = <<f>> /\ started' = 1
      BY <1>1, <1>4 DEF EthStop
    <2>2. f \in FrameType /\ f.pc = "stop"
      <3>1. frames[1] \in FrameType
        BY <1>1, <1>4, TopFrame
      <3> QED
        BY <3>1 DEF Frame, FrameType
    <2> HIDE DEF f
    <2>3. frames' \in Seq(FrameType) /\ Len(frames') = 1 /\ frames' # <<>> /\ frames'[1] = f
      BY <2>1, <2>2
    <2>4. \A p : At(p)' <=> p = "stop"
      BY <2>2, <2>3 DEF At, Top, Last
    <2>5. NestingInv' /\ DeviceInv' /\ ServerInv' /\ Balanced'
      BY <1>1, <1>2, <2>1, <2>3, <2>4 DEF NestingInv, DeviceInv, ServerInv, Balanced
    <2> QED
      BY <1>1, <2>5 DEF SessionInv
  <1> QED
    BY <1>1, <1>3, <1>4

\* new_netif() succeeds: the device runs and there is one interface.
LEMMA NewNetifInv ==
  ASSUME SessionInv, NewNetif
  PROVE  SessionInv'
  <1>1. /\ frames # <<>> /\ At("new") /\ running' = TRUE /\ netifs' = 1 /\ started' = started
        /\ conn' \in {Aborted, conn} /\ DeviceInv /\ ServerInv
        /\ conn \in [Conns -> {"free", "open", "closing", "time_wait"}]
    BY AtFacts DEF NewNetif
  <1>2. PICK pc \in {"listen", "poll"} : Goto(pc)
    BY DEF NewNetif, AfterNew
  <1>3. /\ NestingInv' /\ Balanced' /\ Len(frames') = Len(frames) /\ Top'.cmd = Top.cmd
        /\ \A p : At(p)' <=> p = pc
    BY <1>1, <1>2, GotoNesting
  <1>4. Attached = {} /\ Attached' = {}
    <2>1. Attached = {}
      BY <1>1 DEF ServerInv, At
    <2> QED
      BY <1>1, <2>1, AbortedConns DEF Attached
  <1>5. conn' \in [Conns -> {"free", "open", "closing", "time_wait"}]
    BY <1>1, AbortedConns
  <1>6. DeviceInv' /\ ServerInv'
    BY <1>1, <1>3, <1>4 DEF DeviceInv, ServerInv
  <1> QED
    BY <1>3, <1>5, <1>6 DEF SessionInv

\* new_netif() fails.
LEMMA NewNetifFailsInv ==
  ASSUME SessionInv, NewNetifFails
  PROVE  SessionInv'
  <1>1. /\ frames # <<>> /\ At("new") /\ started' = started /\ Goto("stop")
        /\ conn' \in {Aborted, conn} /\ DeviceInv /\ ServerInv
        /\ conn \in [Conns -> {"free", "open", "closing", "time_wait"}]
        /\ netifs' \in {0, netifs} /\ (running' = TRUE \/ running' = running)
    BY AtFacts DEF NewNetifFails
  <1>2. /\ NestingInv' /\ Balanced' /\ \A p : At(p)' <=> p = "stop"
    BY <1>1, GotoNesting
  <1>3. Attached = {} /\ Attached' = {}
    <2>1. Attached = {}
      BY <1>1 DEF ServerInv, At
    <2> QED
      BY <1>1, <2>1, AbortedConns DEF Attached
  <1>4. conn' \in [Conns -> {"free", "open", "closing", "time_wait"}]
    BY <1>1, AbortedConns
  <1>5. running' \in BOOLEAN
    BY <1>1, Zenon DEF DeviceInv
  <1>6. DeviceInv' /\ ServerInv'
    BY <1>1, <1>2, <1>3, <1>5 DEF DeviceInv, ServerInv
  <1> QED
    BY <1>2, <1>4, <1>6 DEF SessionInv

\* The interface is removed, and with it the connections that have callbacks.
LEMMA RemoveNetifInv ==
  ASSUME SessionInv, RemoveNetif
  PROVE  SessionInv'
  <1>1. /\ frames # <<>> /\ started' = started /\ running' = running /\ netifs = 1
        /\ netifs' = netifs - 1 /\ conn' = Aborted /\ DeviceInv
    BY AtFacts DEF RemoveNetif, DeviceInv
  <1>2. PICK pc \in {"stop", "tftp"} : Goto(pc) /\ (pc = "tftp" => Top.cmd = "dhcp")
    BY DEF RemoveNetif
  <1>3. /\ NestingInv' /\ Balanced' /\ \A p : At(p)' <=> p = pc
    BY <1>1, <1>2, GotoNesting
  <1>4. Attached' = {} /\ conn' \in [Conns -> {"free", "open", "closing", "time_wait"}]
    BY <1>1, AbortedConns
  <1>5. DeviceInv' /\ ServerInv'
    BY <1>1, <1>3, <1>4 DEF DeviceInv, ServerInv
  <1> QED
    BY <1>3, <1>4, <1>5 DEF SessionInv

\* The steps of a command that has its interface, up to its removal or not.
LEMMA WithNetifInv ==
  ASSUME SessionInv,
         StartListener \/ ListenerFails \/ Finish \/ LeavesNetif \/ StopServer
  PROVE  SessionInv'
  <1>1. At("listen") \/ At("poll")
    BY DEF StartListener, ListenerFails, Finish, LeavesNetif, StopServer, Serving
  <1>2. /\ frames # <<>> /\ DeviceInv /\ ServerInv /\ running /\ netifs = 1
        /\ conn \in [Conns -> {"free", "open", "closing", "time_wait"}]
    BY <1>1, AtFacts DEF DeviceInv
  <1>3. UNCHANGED <<started, running, netifs>>
    BY DEF StartListener, ListenerFails, Finish, LeavesNetif, StopServer
  <1>4. PICK pc \in {"poll", "remove", "stop"} :
          Goto(pc) /\ (pc = "stop" => At("poll") /\ Top.cmd \in {"sntp", "dhcp"})
    BY DEF StartListener, ListenerFails, Finish, LeavesNetif, StopServer
  <1>5. /\ NestingInv' /\ Balanced' /\ Len(frames') = Len(frames) /\ Top'.cmd = Top.cmd
        /\ \A p : At(p)' <=> p = pc
    BY <1>2, <1>3, <1>4, GotoNesting
  <1>6. /\ conn' \in [Conns -> {"free", "open", "closing", "time_wait"}]
        /\ Attached' \subseteq Attached
    BY <1>2 DEF StartListener, ListenerFails, Finish, LeavesNetif, StopServer, Attached
  <1>7. DeviceInv'
    BY <1>2, <1>3 DEF DeviceInv
  <1>8. ServerInv'
    BY <1>2, <1>4, <1>5, <1>6 DEF ServerInv
  <1> QED
    BY <1>5, <1>6, <1>7, <1>8 DEF SessionInv

\* The connections change under a command that polls.
LEMMA MovesInv ==
  ASSUME SessionInv, NEW c \in Conns,
         Accept(c) \/ CloseClient(c) \/ Closed(c) \/ Gone(c) \/ Expires(c)
  PROVE  SessionInv'
  <1>1. /\ NestingInv /\ DeviceInv /\ ServerInv /\ Balanced
        /\ conn \in [Conns -> {"free", "open", "closing", "time_wait"}]
        /\ UNCHANGED <<frames, started, running, netifs>> /\ Top' = Top
    BY DEF SessionInv, Accept, CloseClient, Closed, Gone, Expires, Moves, Top
  <1>2. \A p : At(p)' <=> At(p)
    BY <1>1 DEF At
  <1>3. NestingInv' /\ DeviceInv' /\ Balanced'
    BY <1>1, <1>2 DEF NestingInv, DeviceInv, Balanced
  <1>4. conn' \in [Conns -> {"free", "open", "closing", "time_wait"}]
    BY <1>1 DEF Accept, CloseClient, Closed, Gone, Expires, Moves
  <1>5. ServerInv'
    <2>1. CASE Serving
      <3>1. Top.cmd = "webflash" /\ At("poll") /\ Len(frames) \in {1, 2} /\ Top = frames[Len(frames)]
        BY <1>1, <2>1, TopFrame DEF Serving, At
      <3>2. Len(frames) = 1
        BY <1>1, <3>1 DEF NestingInv
      <3> QED
        BY <1>1, <1>2, <3>1, <3>2 DEF ServerInv
    <2>2. CASE Expires(c)
      <3>1. Attached' = Attached
        BY <1>1, <2>2 DEF Expires, Moves, Attached
      <3> QED
        BY <1>1, <1>2, <3>1 DEF ServerInv
    <2> QED
      BY <2>1, <2>2 DEF Accept, CloseClient, Closed, Gone
  <1> QED
    BY <1>3, <1>4, <1>5 DEF SessionInv

\* Every step.
LEMMA SessionInvNext ==
  ASSUME SessionInv, [SessionNext]_sessionVars
  PROVE  SessionInv'
  <1>1. CASE UNCHANGED sessionVars
    BY <1>1 DEF sessionVars, SessionInv, NestingInv, DeviceInv, ServerInv, Balanced, At, Top, Attached
  <1> QED
    BY <1>1, EthStartInv, EthStopInv, NewNetifInv, NewNetifFailsInv, RemoveNetifInv,
       WithNetifInv, MovesInv DEF SessionNext

\* At the prompt, before the first command.
LEMMA SessionInvInit == SessionInit => SessionInv
  <1> SUFFICES ASSUME SessionInit PROVE SessionInv
    OBVIOUS
  <1>1. frames = <<>> /\ started = 0 /\ running = FALSE /\ netifs = 0
        /\ conn = [c \in Conns |-> "free"] /\ Attached = {}
    BY DEF SessionInit, Attached
  <1>2. NestingInv /\ ServerInv /\ Balanced
    BY <1>1, EmptySeq DEF NestingInv, ServerInv, Balanced, At
  <1>3. DeviceInv
    BY <1>1 DEF DeviceInv, At
  <1> QED
    BY <1>1, <1>2, <1>3 DEF SessionInv

-----------------------------------------------------------------------------

\* The invariant of the network commands.
THEOREM SessionInvariant == SessionSpec => []SessionInv
  <1>1. SessionInv /\ [SessionNext]_sessionVars => SessionInv'
    BY SessionInvNext
  <1> QED
    BY <1>1, SessionInvInit, PTL DEF SessionSpec

\* Every path through every command counts itself out.
THEOREM BalancedAlways == SessionSpec => []Balanced
  BY SessionInvariant, PTL DEF SessionInv

\* The device that is polled runs, and has one interface.
THEOREM PollsLiveDeviceAlways == SessionSpec => []PollsLiveDevice
  <1>1. SessionInv => PollsLiveDevice
    BY DEF SessionInv, DeviceInv, PollsLiveDevice
  <1> QED
    BY <1>1, SessionInvariant, PTL

\* No callback of the server outlives the context it gets.
THEOREM CallbacksHaveContextAlways == SessionSpec => []CallbacksHaveContext
  <1>1. SessionInv => CallbacksHaveContext
    <2> SUFFICES ASSUME SessionInv, Attached # {}
                 PROVE  frames # <<>> /\ frames[1].cmd = "webflash"
      BY DEF CallbacksHaveContext
    <2>1. Len(frames) = 1 /\ Top.cmd = "webflash" /\ frames # <<>> /\ NestingInv
      BY DEF SessionInv, ServerInv, At
    <2>2. Top = frames[1]
      BY <2>1, TopFrame
    <2> QED
      BY <2>1, <2>2
  <1> QED
    BY <1>1, SessionInvariant, PTL
=============================================================================
