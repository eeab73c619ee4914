---------------------------- MODULE UploadRange ----------------------------
(***************************************************************************)
(* webflash_range_valid() of cmd/lwip/webflash.c on top of the memory map  *)
(* of lib/lmb.c: may an upload of a given length be received at load_addr? *)
(* The load address is whatever the user or the environment gives.  The    *)
(* question has a side effect: lmb_read_check() reserves the range, and    *)
(* nothing gives it back.                                                  *)
(***************************************************************************)
EXTENDS Lmb

CONSTANTS
  LoadAddrs,    \* addresses the webflash command may be given
  Lengths       \* values of Content-Length

VARIABLES
  load_addr,        \* ctx->load_addr
  content_length,   \* ctx->content_length, 0 if the last upload was refused
  largest           \* history: the largest upload accepted in this session

uploadVars == <<lmbVars, load_addr, content_length, largest>>

\* Mutant of InRam: the sum is not checked for overflow.
InRamUnchecked(s) ==
  load_addr >= MemBase /\ (load_addr + s) % W <= MemEnd

\* The first two tests, in 32 bits.
InRam(s) ==
  /\ (load_addr + s) % W >= load_addr
  /\ load_addr >= MemBase /\ (load_addr + s) % W <= MemEnd

\* Mutant of ReadCheck: the range must not be reserved at all.
ReadCheckExclusive(s) ==
  IF OverlapChecks(used, load_addr, s, None, TRUE) # 0 THEN [ok |-> FALSE, list |-> used]
  ELSE AllocAddr(used, load_addr, s, None, FALSE)

\* lmb_read_check()
ReadCheck(s) == AllocAddr(used, load_addr, s, None, FALSE)

\* webflash_prepare_upload() with a Content-Length of s, up to its verdict on
\* the range.
PrepareUpload(s) ==
  /\ \/ /\ InRam(s)
        /\ Becomes(ReadCheck(s))
        /\ last' = [op |-> "reserve", base |-> load_addr, size |-> s, flags |-> None,
                    ok |-> ReadCheck(s).ok]
     \/ ~InRam(s) /\ UNCHANGED lmbVars
  /\ content_length' = IF InRam(s) /\ ReadCheck(s).ok THEN s ELSE 0
  /\ largest' = IF content_length' > largest THEN content_length' ELSE largest
  /\ UNCHANGED load_addr

\* The command returns and is started again, with another address.
StartServer ==
  /\ load_addr' \in LoadAddrs
  /\ content_length' = 0 /\ largest' = 0
  /\ UNCHANGED lmbVars

\* Another command, or a boot that fails, uses the memory map.
OtherUse ==
  /\ LmbNext
  /\ UNCHANGED <<load_addr, content_length, largest>>

RangeInit ==
  /\ LmbInit
  /\ load_addr \in LoadAddrs
  /\ content_length = 0 /\ largest = 0

RangeNext ==
  \/ \E s \in Lengths : PrepareUpload(s)
  \/ StartServer
  \/ OtherUse

RangeSpec == RangeInit /\ [][RangeNext]_uploadVars

-----------------------------------------------------------------------------
\* An upload that webflash_range_valid() accepts lies in RAM and never reaches
\* into U-Boot's own code, heap and stack, whatever the load address, however
\* close the sum comes to 2^32 and whatever else has been reserved.
UploadInside ==
  content_length > 0 =>
    /\ MemBase <= load_addr
    /\ load_addr + content_length <= UbootBase

\* Although the check leaves a reservation behind, and others reserve memory in
\* between, an upload that was possible once in a session stays possible, and
\* so do smaller ones.
StaysPossible ==
  [][\A s \in Lengths : s <= largest => (PrepareUpload(s) => content_length' = s)]_uploadVars

-----------------------------------------------------------------------------
\* Callers as they are on this board: addresses and sums of 32 bits, nothing
\* longer than all that is not memory, LMB_NONE throughout, and nobody gives
\* back what lies in U-Boot's region.
OrdinaryCallers ==
  /\ \A q \in Reservations : q[1] \in 0 .. W - 1 /\ q[2] \in 1 .. W - MemSize /\ q[3] = None
  /\ \A q \in Allocations :
       q[1] \in Nat \ {0} /\ q[2] \in Nat /\ q[3] \in Nat /\ q[4] = None
  /\ \A q \in Releases :
       q[1] \in 0 .. UbootBase - 1 /\ q[2] \in Nat \ {0} /\ q[1] + q[2] <= W
  /\ LoadAddrs \subseteq 0 .. W - 1 /\ Lengths \subseteq 1 .. W - 1

\* The inductive invariant behind these: what was accepted in a session ends
\* below U-Boot, whose region nothing takes away or grows into.
RangeInv ==
  /\ LmbList(used) /\ load_addr \in LoadAddrs
  /\ content_length \in Nat /\ largest \in Nat /\ content_length <= largest
  /\ largest > 0 => MemBase <= load_addr /\ load_addr + largest <= UbootBase
=============================================================================
