--------------------------- MODULE MCUploadRange ---------------------------
(* Load addresses below RAM, in it and in U-Boot, and lengths around each of   *)
(* the limits; others reserve, allocate and give back short regions, across   *)
(* what is reserved and behind the end of memory. All are LMB_NONE, next to   *)
(* the region of U-Boot itself.                                               *)
EXTENDS UploadRange

MCLoadAddrs    == {MemBase - 1, MemBase + 1, W - 2}
MCLengths      == {1, 2, 4, 5, W - 1}
MCReservations == {<<b, s, None>> : b \in MemBase .. MemEnd, s \in 1 .. 3}
MCAllocations  == {<<2, a, m, None>> : a \in {1, 2}, m \in {MemEnd, MemEnd - 2}}
MCReleases     == {<<b, s>> : b \in MemBase .. UbootBase - 1, s \in 1 .. 2}

\* What the theorems about the memory map assume.
ASSUME MCOrdinaryCallers == OrdinaryCallers
=============================================================================
