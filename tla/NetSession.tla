----------------------------- MODULE NetSession -----------------------------
(***************************************************************************)
(* The network commands of the boot loader one after another, and one      *)
(* within another: net/lwip/net-lwip.c, do_webflash() of                   *)
(* cmd/lwip/webflash.c, and the commands dhcp, tftp, dns, ping, sntp, nfs  *)
(* and wget, which use net-lwip.c in the same way.  A command counts       *)
(* itself in, makes an interface, polls the device, removes the interface  *)
(* and counts itself out.  lwIP keeps connections of the recovery server   *)
(* beyond the end of the command; its clock runs only while a command      *)
(* polls.                                                                  *)
(***************************************************************************)
EXTENDS Integers, Sequences, SequencesExt

CONSTANTS
  Commands,    \* commands that may be given, besides webflash
  Conns        \* lwIP's TCP control blocks for port 80

VARIABLES
  frames,      \* the running commands, the innermost last: name and place
  started,     \* net_lwip_eth_started
  running,     \* priv->running of the Ethernet device
  netifs,      \* number of interfaces lwIP knows
  conn,        \* state of each connection of the recovery server
  failure      \* history: why webflash could not be started last time

sessionVars == <<frames, started, running, netifs, conn, failure>>

Frame(c, pc) == [cmd |-> c, pc |-> pc]
Top          == Last(frames)
At(pc)       == frames # <<>> /\ Top.pc = pc
Goto(pc)     == frames' = Front(frames) \o <<Frame(Top.cmd, pc)>>

\* Connections lwIP has in its list of active ones, with the callbacks of the
\* server on them; those in TIME_WAIT have none.
Attached == {c \in Conns : conn[c] \in {"open", "closing"}}

\* netif_remove(): lwIP aborts the active connections of the interface.
Aborted == [c \in Conns |-> IF c \in Attached THEN "free" ELSE conn[c]]

-----------------------------------------------------------------------------
(* net_lwip_eth_start() and net_lwip_eth_stop().                            *)

\* eth_init() as seen by its caller. A device that was probed but does not
\* start is reported as a success: eth_errno is 0.
EthInit == {[ok |-> TRUE, up |-> TRUE], [ok |-> TRUE, up |-> FALSE], [ok |-> FALSE, up |-> FALSE]}

\* Where a command stands that calls another one: nowhere, or dhcp, which goes
\* on with tftpboot.
MayCall(c) == frames = <<>> \/ (At("tftp") /\ c = "tftp")

\* Mutant of EthStartFails: the count is not taken back.
EthStartFailsCounted ==
  /\ started = 0 /\ started' = 1 /\ running' = FALSE
  /\ IF frames = <<>> THEN UNCHANGED frames ELSE Goto("stop")
  /\ UNCHANGED <<netifs, conn>>

\* The caller gives up.
EthStartFails ==
  /\ started = 0 /\ running' = FALSE
  /\ IF frames = <<>> THEN UNCHANGED frames ELSE Goto("stop")
  /\ UNCHANGED <<started, netifs, conn>>

EthStart(c) ==
  /\ MayCall(c)
  /\ \/ /\ \/ started > 0 /\ UNCHANGED running
           \/ /\ started = 0
              /\ \E r \in EthInit : r.ok /\ running' = r.up
        /\ started' = started + 1
        /\ frames' = Append(frames, Frame(c, "new"))
        /\ failure' = "none"
        /\ UNCHANGED <<netifs, conn>>
     \/ EthStartFails /\ failure' = "device"

EthStop ==
  /\ At("stop")
  /\ started' = started - 1
  /\ running' = (running /\ started' > 0)
  /\ frames' = IF Len(frames) = 2 THEN <<Frame(frames[1].cmd, "stop")>> ELSE <<>>
  /\ UNCHANGED <<netifs, conn, failure>>

-----------------------------------------------------------------------------
(* The interface.                                                           *)

\* Where a command goes on when it has an interface.
AfterNew == IF Top.cmd = "webflash" THEN "listen" ELSE "poll"

\* Mutant of NewNetif: eth_start_udev() is left to net_lwip_eth_start().
NewNetifAsIs ==
  /\ At("new")
  /\ conn' = Aborted
  /\ netifs' = 1
  /\ Goto(AfterNew)
  /\ UNCHANGED <<started, running, failure>>

\* new_netif(): the device is started if it is not; an interface that is still
\* there is removed.
NewNetif ==
  /\ At("new") /\ running' = TRUE
  /\ conn' = IF netifs > 0 THEN Aborted ELSE conn
  /\ netifs' = 1
  /\ Goto(AfterNew)
  /\ UNCHANGED <<started, failure>>

\* The device does not start, or, later, there is no memory.
NewNetifFails ==
  /\ At("new")
  /\ \/ ~running /\ UNCHANGED <<running, netifs, conn>>
     \/ running' = TRUE /\ netifs' = 0 /\ conn' = IF netifs > 0 THEN Aborted ELSE conn
  /\ Goto("stop")
  /\ failure' = "device"
  /\ UNCHANGED started

\* Mutant of RemoveNetif: the interface stays.
RemoveNetifNot ==
  /\ At("remove")
  /\ Goto("stop")
  /\ UNCHANGED <<started, running, netifs, conn, failure>>

\* net_lwip_remove_netif(). dhcp may go on with tftpboot.
RemoveNetif ==
  /\ At("remove")
  /\ netifs' = netifs - 1
  /\ conn' = Aborted
  /\ \E pc \in {"stop"} \cup (IF Top.cmd = "dhcp" THEN {"tftp"} ELSE {}) : Goto(pc)
  /\ UNCHANGED <<started, running, failure>>

\* sntp_loop() without a server, and dhcp_loop() if dhcp_start() fails, return
\* without removing the interface.
LeavesNetif ==
  /\ At("poll") /\ Top.cmd \in {"sntp", "dhcp"}
  /\ Goto("stop")
  /\ UNCHANGED <<started, running, netifs, conn, failure>>

\* The other commands, and Ctrl-C in them.
Finish ==
  /\ At("poll") /\ Top.cmd # "webflash"
  /\ Goto("remove")
  /\ UNCHANGED <<started, running, netifs, conn, failure>>

-----------------------------------------------------------------------------
(* The recovery server.                                                     *)

\* webflash_start_listener(): tcp_bind() looks through all lists, that of the
\* connections in TIME_WAIT too.
StartListener ==
  /\ At("listen")
  /\ \A c \in Conns : conn[c] = "free"
  /\ Goto("poll")
  /\ UNCHANGED <<started, running, netifs, conn, failure>>

ListenerFails ==
  /\ At("listen")
  /\ failure' \in {"memory"} \cup (IF \A c \in Conns : conn[c] = "free" THEN {} ELSE {"in_use"})
  /\ Goto("remove")
  /\ UNCHANGED <<started, running, netifs, conn>>

Serving == At("poll") /\ Top.cmd = "webflash"

\* lwIP's side of a connection changes.
Moves(c, s) ==
  /\ conn' = [conn EXCEPT ![c] = s]
  /\ UNCHANGED <<frames, started, running, netifs, failure>>

\* webflash_accept() takes one client at a time.
Accept(c) ==
  /\ Serving /\ conn[c] = "free"
  /\ \A d \in Conns : conn[d] # "open"
  /\ Moves(c, "open")

\* tcp_close(); the callbacks stay.
CloseClient(c) == Serving /\ conn[c] = "open" /\ Moves(c, "closing")

\* The side that closes first, here the server, waits in TIME_WAIT; if the peer
\* was first, or resets the connection, it is gone.
Closed(c) == Serving /\ conn[c] = "closing" /\ Moves(c, "time_wait")
Gone(c)   == Serving /\ c \in Attached /\ Moves(c, "free")

\* lwIP's timer; any command that polls drives it.
Expires(c) == At("poll") /\ conn[c] = "time_wait" /\ Moves(c, "free")

\* Ctrl-C: the client is detached and aborted, the listener closed.
StopServer ==
  /\ Serving
  /\ conn' = [c \in Conns |-> IF conn[c] = "open" THEN "free" ELSE conn[c]]
  /\ Goto("remove")
  /\ UNCHANGED <<started, running, netifs, failure>>

-----------------------------------------------------------------------------
SessionInit ==
  /\ frames = <<>>
  /\ started = 0 /\ running = FALSE
  /\ netifs = 0
  /\ conn = [c \in Conns |-> "free"]
  /\ failure = "none"

SessionNext ==
  \/ \E c \in Commands \cup {"webflash"} : EthStart(c)
  \/ NewNetif \/ NewNetifFails
  \/ StartListener \/ ListenerFails
  \/ Finish \/ LeavesNetif \/ StopServer
  \/ RemoveNetif \/ EthStop
  \/ \E c \in Conns : Accept(c) \/ CloseClient(c) \/ Closed(c) \/ Gone(c) \/ Expires(c)

SessionSpec == SessionInit /\ [][SessionNext]_sessionVars

-----------------------------------------------------------------------------
\* Every path through every command, nested or not, counts itself out: the
\* count is the number of commands that have been started, and at the prompt
\* the device is halted (net_lwip_eth_started).
Balanced ==
  /\ started = Len(frames)
  /\ frames = <<>> => ~running

\* net_lwip_rx() is called with one interface (net_lwip_get_netif() calls more
\* than one an error) and a device that runs, although eth_init() may report a
\* success it did not have, although some commands leave their interface behind,
\* and although a command may have stopped within another.
PollsLiveDevice == At("poll") => running /\ netifs = 1

\* The server's context is on the stack of do_webflash(). lwIP never keeps a
\* connection with the server's callbacks, which get that context, beyond the
\* end of the command, although webflash_try_close_client() leaves them on the
\* connections it closes: removing the interface aborts those.
CallbacksHaveContext ==
  Attached # {} => frames # <<>> /\ frames[1].cmd = "webflash"

\* The help text of webflash says that it starts the console, and bootmenu.md
\* that Ctrl-C leaves it: it can then be started again.
StartsAgain == failure # "in_use"

-----------------------------------------------------------------------------
(* The inductive invariant behind the three promises that hold.             *)

FrameType == [cmd : Commands \cup {"webflash"},
              pc : {"new", "listen", "poll", "remove", "tftp", "stop"}]

\* Only dhcp calls another command, and that one calls none.
NestingInv ==
  /\ frames \in Seq(FrameType) /\ Len(frames) \in 0 .. 2
  /\ Len(frames) = 2 => frames[1].cmd = "dhcp" /\ frames[2].cmd = "tftp"
  /\ At("tftp") => Top.cmd = "dhcp"

\* Between making and removing its interface a command has the device running.
DeviceInv ==
  /\ netifs \in {0, 1} /\ running \in BOOLEAN
  /\ At("listen") \/ At("poll") \/ At("remove") => running /\ netifs = 1

\* Only the server has connections with callbacks, and has none left at its end.
ServerInv ==
  Attached # {} => Len(frames) = 1 /\ Top.cmd = "webflash" /\ (At("poll") \/ At("remove"))

SessionInv ==
  /\ NestingInv /\ DeviceInv /\ ServerInv /\ Balanced
  /\ conn \in [Conns -> {"free", "open", "closing", "time_wait"}]
=============================================================================
