--------------------------------- MODULE Lmb ---------------------------------
(***************************************************************************)
(* lib/lmb.c, which keeps the map of the board's memory: a list of         *)
(* reserved regions, sorted by address, that grows, shrinks, merges and    *)
(* splits as regions are reserved and given back.  Every load of a file,   *)
(* every boot and every upload of the recovery server goes through it.     *)
(*                                                                         *)
(* There is one bank of memory.  Addresses are W units wide; the memory    *)
(* ends below W.                                                           *)
(***************************************************************************)
EXTENDS Integers, SequencesExt

CONSTANTS
  W,                  \* number of addresses: 2^32
  MemBase, MemSize,   \* gd->bd->bi_dram[0]
  UbootBase,          \* the stack, heap and code of U-Boot: up to the end of memory
  None, NoOverwrite,  \* LMB_NONE, LMB_NOOVERWRITE
  Free,
  InitialSize,        \* LMB_ALIST_INITIAL_SIZE
  Reservations,       \* <<base, size, flags>> callers ask for
  Allocations,        \* <<size, align, max, flags>> callers ask for
  Releases,           \* <<base, size>> callers give back
  MallocFails         \* there may be no memory for a longer list

MemEnd == MemBase + MemSize
Flags  == {None, NoOverwrite}

ASSUME LmbAssumption ==
  /\ W \in Nat /\ MemBase \in Nat /\ MemSize \in Nat \ {0} /\ MemEnd < W
  /\ MemSize < MemBase
  /\ UbootBase \in MemBase .. MemEnd - 1
  /\ InitialSize \in Nat \ {0}
  /\ None # NoOverwrite /\ Free \notin Flags

VARIABLES
  used,      \* lmb.used_mem
  alloc,     \* its capacity
  last       \* history: the last call and its result

lmbVars == <<used, alloc, last>>

Region(b, s, f) == [base |-> b, size |-> s, flags |-> f]

End(r) == r.base + r.size

-----------------------------------------------------------------------------
(* Two regions.                                                             *)

\* lmb_addrs_overlap(), with the last address of each: sums wrap
AddrsOverlap(b1, s1, b2, s2) ==
  b1 <= (b2 + s2 - 1) % W /\ b2 <= (b1 + s1 - 1) % W

\* lmb_addrs_adjacent()
AddrsAdjacent(b1, s1, b2, s2) ==
  IF b2 = (b1 + s1) % W THEN 1 ELSE IF b1 = (b2 + s2) % W THEN -1 ELSE 0

\* lmb_overlap_checks(): the first region that forbids the request; 0 if none
OverlapChecks(lst, b, s, f, any) ==
  SelectInSeq(lst, LAMBDA r :
    AddrsOverlap(b, s, r.base, r.size) /\ (any \/ f # None \/ f # r.flags))

-----------------------------------------------------------------------------
(* The list. An operation on it returns the list and whether it succeeded.   *)

\* lmb_resize_regions(): region i takes in all regions the request overlaps.
ResizeRegions(lst, i, b, s) ==
  LET hit    == {j \in i .. Len(lst) : AddrsOverlap(b, s, lst[j].base, lst[j].size)}
      low    == IF b < lst[i].base THEN b ELSE lst[i].base
      high   == IF End(lst[Max(hit)]) > b + s THEN End(lst[Max(hit)]) ELSE b + s
      merged == Region(low, high - low, lst[i].flags)
  IN  IF \E j \in hit : lst[j].flags # None
        THEN [ok |-> FALSE, list |-> lst]
        ELSE [ok |-> TRUE,
              list |-> SubSeq(lst, 1, i - 1) \o <<merged>>
                         \o SubSeq(lst, i + Cardinality(hit), Len(lst))]

\* The first region that is adjacent to the request, or overlaps it, ends the
\* search; one below it with other flags does not.
StopsSearch(r, b, s, f) ==
  LET adj == AddrsAdjacent(b, s, r.base, r.size)
  IN  \/ adj > 0
      \/ adj < 0 /\ f = r.flags
      \/ adj = 0 /\ AddrsOverlap(b, s, r.base, r.size)

\* The first loop of lmb_add_region_flags(): "merged" says that the request has
\* become a part of region i.
MergeInto(lst, i, b, s, f) ==
  LET r   == lst[i]
      adj == AddrsAdjacent(b, s, r.base, r.size)
      new == CASE adj > 0 -> Region(r.base - s, r.size + s, r.flags)
               [] adj < 0 -> Region(r.base, r.size + s, r.flags)
      rsz == ResizeRegions(lst, i, b, s)
  IN  IF adj = 0 THEN [ok |-> rsz.ok, list |-> rsz.list, merged |-> TRUE]
      ELSE IF f # r.flags THEN [ok |-> TRUE, list |-> lst, merged |-> FALSE]
      ELSE [ok |-> TRUE, list |-> [lst EXCEPT ![i] = new], merged |-> TRUE]

\* Then region i is merged with the one behind it.
MergeNext(m, i) ==
  LET r == m.list[i]  n == m.list[i + 1]
      rsz == ResizeRegions(m.list, i, r.base, r.size)
  IN  IF i >= Len(m.list) \/ r.flags # n.flags THEN m
      ELSE IF AddrsOverlap(r.base, r.size, n.base, n.size)
        THEN [ok |-> rsz.ok, list |-> rsz.list, merged |-> TRUE]
      ELSE IF AddrsAdjacent(r.base, r.size, n.base, n.size) # 0
        THEN [ok |-> TRUE, merged |-> TRUE,
              list |-> RemoveAt([m.list EXCEPT ![i].size = @ + n.size], i + 1)]
      ELSE m

\* The last loop: the list stays sorted.
Insert(lst, r) ==
  InsertAt(lst, SelectLastInSeq(lst, LAMBDA x : x.base <= r.base) + 1, r)

\* lmb_add_region_flags(); full says that a longer list is not to be had.
AddRegionFlags(lst, b, s, f, full) ==
  LET i == SelectInSeq(lst, LAMBDA r : StopsSearch(r, b, s, f))
      m == IF i = 0 THEN [ok |-> TRUE, list |-> lst, merged |-> FALSE]
           ELSE MergeInto(lst, i, b, s, f)
      n == IF i = 0 \/ ~m.ok THEN m ELSE MergeNext(m, i)
  IN  IF ~n.ok \/ n.merged THEN [ok |-> n.ok, list |-> n.list]
      ELSE IF full THEN [ok |-> FALSE, list |-> n.list]
      ELSE [ok |-> TRUE, list |-> Insert(n.list, Region(b, s, f))]

\* lmb_reserve()
ReserveIn(lst, b, s, f, full) ==
  IF OverlapChecks(lst, b, s, f, FALSE) # 0
    THEN [ok |-> FALSE, list |-> lst]
    ELSE AddRegionFlags(lst, b, s, f, full)

\* _lmb_alloc_addr(): the request overlaps the memory, and so does its end.
InMemory(b, s) ==
  /\ AddrsOverlap(b, s, MemBase, MemSize)
  /\ AddrsOverlap(MemBase, MemSize, (b + s - 1) % W, 1)

AllocAddr(lst, b, s, f, full) ==
  IF InMemory(b, s) THEN ReserveIn(lst, b, s, f, full) ELSE [ok |-> FALSE, list |-> lst]

\* ALIGN_DOWN(); an alignment of 0 gives 0.
AlignDown(x, a) == IF a = 0 THEN 0 ELSE x - (x % a)

\* Mutant of NextBelow: the gap under the region that is in the way is skipped.
NextBelow2(lst, b, s, align) ==
  LET r == lst[OverlapChecks(lst, b, s, NoOverwrite, TRUE)]
  IN  IF r.base < 2 * s THEN 0 ELSE AlignDown(r.base - 2 * s, align)

\* The next place to try under the region that is in the way; 0 is no place.
NextBelow(lst, b, s, align) ==
  LET r == lst[OverlapChecks(lst, b, s, NoOverwrite, TRUE)]
  IN  IF r.base < s THEN 0 ELSE AlignDown(r.base - s, align)

\* The place the search ends at that starts at b; 0 if there is none.
Descent(lst, s, align) ==
  LET end[b \in 0 .. W - 1] ==
        IF b < MemBase THEN 0
        ELSE IF OverlapChecks(lst, b, s, NoOverwrite, TRUE) = 0 THEN b
        ELSE end[NextBelow(lst, b, s, align)]
  IN  end

\* _lmb_alloc_base(): the highest free place below max.
Place(lst, s, align, max) ==
  IF MemSize < s \/ max <= MemBase THEN 0
  ELSE Descent(lst, s, align)[AlignDown((IF max < MemEnd THEN max ELSE MemEnd) - s, align)]

\* If the list cannot be extended the function returns 0 all the same, with the
\* address left at max.
AllocBase(lst, s, align, max, f, full) ==
  LET b   == Place(lst, s, align, max)
      add == AddRegionFlags(lst, b, s, f, full)
  IN  IF b = 0 THEN [ok |-> FALSE, list |-> lst, base |-> max]
      ELSE IF ~add.ok THEN [ok |-> TRUE, list |-> add.list, base |-> max]
      ELSE [ok |-> TRUE, list |-> add.list, base |-> b]

\* The region keeps its front; its back becomes a region of its own.
Split(lst, i, b, s, full) ==
  AddRegionFlags([lst EXCEPT ![i].size = b - lst[i].base],
                 b + s, End(lst[i]) - (b + s), lst[i].flags, full)

\* _lmb_free(): the range must lie in one region.
FreeIn(lst, b, s, full) ==
  LET i == SelectInSeq(lst, LAMBDA r : r.base <= b /\ (b + s - 1) % W <= End(r) - 1)
      r == lst[i]
  IN  CASE i = 0                          -> [ok |-> FALSE, list |-> lst]
        [] i # 0 /\ r.base = b /\ r.size = s  -> [ok |-> TRUE, list |-> RemoveAt(lst, i)]
        [] i # 0 /\ r.base = b /\ r.size # s  ->
             [ok |-> TRUE, list |-> [lst EXCEPT ![i] = Region(b + s, r.size - s, r.flags)]]
        [] i # 0 /\ r.base # b /\ End(r) = b + s ->
             [ok |-> TRUE, list |-> [lst EXCEPT ![i].size = @ - s]]
        [] OTHER                          -> Split(lst, i, b, s, full)

-----------------------------------------------------------------------------
(* The calls.                                                               *)

\* Whether an expansion fails, if one is needed.
Full == IF MallocFails /\ Len(used) = alloc THEN BOOLEAN ELSE {FALSE}

\* The list after a call; its capacity is doubled when it must grow.
Becomes(res) ==
  /\ used' = res.list
  /\ alloc' = IF Len(res.list) > alloc THEN 2 * alloc ELSE alloc

LmbReserve(b, s, f) ==
  \E full \in Full :
    LET res == AllocAddr(used, b, s, f, full)
    IN  /\ Becomes(res)
        /\ last' = [op |-> "reserve", base |-> b, size |-> s, flags |-> f, ok |-> res.ok]

LmbAlloc(s, align, max, f) ==
  \E full \in Full :
    LET res == AllocBase(used, s, align, max, f, full)
    IN  /\ Becomes(res)
        /\ last' = [op |-> "alloc", base |-> res.base, size |-> s, align |-> align,
                    max |-> max, flags |-> f, ok |-> res.ok]

LmbFree(b, s) ==
  \E full \in Full :
    LET res == FreeIn(used, b, s, full)
    IN  /\ Becomes(res)
        /\ last' = [op |-> "free", base |-> b, size |-> s, ok |-> res.ok]

\* lmb_init(): U-Boot's own memory is reserved for good.
LmbInit ==
  /\ used = <<Region(UbootBase, MemEnd - UbootBase, NoOverwrite)>>
  /\ alloc = InitialSize
  /\ last = [op |-> "init", ok |-> TRUE]

LmbNext ==
  \/ \E q \in Reservations : LmbReserve(q[1], q[2], q[3])
  \/ \E q \in Allocations : LmbAlloc(q[1], q[2], q[3], q[4])
  \/ \E q \in Releases : LmbFree(q[1], q[2])

LmbSpec == LmbInit /\ [][LmbNext]_lmbVars

-----------------------------------------------------------------------------
(* Queries.                                                                 *)

\* lmb_get_free_size()
GetFreeSize(a) ==
  LET i == SelectInSeq(used, LAMBDA r : a < r.base \/ End(r) > a)
  IN  IF ~AddrsOverlap(a, 1, MemBase, MemSize) THEN 0
      ELSE IF i = 0 THEN MemEnd - a
      ELSE IF a < used[i].base THEN used[i].base - a
      ELSE 0

-----------------------------------------------------------------------------
Owner(a) ==
  LET i == SelectInSeq(used, LAMBDA r : r.base <= a /\ a < End(r))
  IN  IF i = 0 THEN Free ELSE used[i].flags

\* lmb_get_free_size() is the distance to the next reserved address.
FreeSizeExact ==
  \A a \in MemBase .. MemEnd - 1 :
    /\ \A x \in a .. a + GetFreeSize(a) - 1 : Owner(x) = Free
    /\ a + GetFreeSize(a) < MemEnd => Owner(a + GetFreeSize(a)) # Free

\* The list implements the map of LmbMap: every call does to the memory what it
\* reports, and fails only for the reasons given there.
Map == INSTANCE LmbMap WITH
         Memory <- MemBase .. MemEnd - 1,
         owner <- [a \in MemBase .. MemEnd - 1 |-> Owner(a)]

KeepsMap == Map!MapSpec

-----------------------------------------------------------------------------
(* The inductive invariant, for callers that ask for LMB_NONE.              *)

Regions == [base : Nat, size : Nat \ {0}, flags : Flags]
Uboot   == Region(UbootBase, MemEnd - UbootBase, NoOverwrite)

\* The list is sorted, without overlaps, and all of it is LMB_NONE but its last
\* region, which is U-Boot's.
LmbList(lst) ==
  /\ lst \in Seq(Regions) /\ Len(lst) > 0 /\ lst[Len(lst)] = Uboot
  /\ \A i \in 1 .. Len(lst) - 1 : lst[i].flags = None
  /\ \A i, j \in 1 .. Len(lst) : i < j => End(lst[i]) <= lst[j].base

-----------------------------------------------------------------------------
(* What lmb.h and lmb.c say and the code does not do. TLC refutes these for  *)
(* overlapping requests with both flags or if there is no memory for a       *)
(* longer list, for requests that begin below the memory, and for an         *)
(* alignment of 0.                                                           *)

\* lmb_add_region_flags() says of a result of 0 that the region was added, and
\* lmb.h says of lmb_alloc_mem() that 0 is success: then the region is reserved.
ReservedOnSuccess ==
  last.op \in {"reserve", "alloc"} /\ last.ok =>
    \A a \in last.base .. last.base + last.size - 1 : Owner(a) # Free

\* lmb.h says that a request for a region that is not part of the memory map
\* fails.
OutsideRefused ==
  last.op = "reserve" /\ last.ok =>
    last.base .. last.base + last.size - 1 \subseteq MemBase .. MemEnd - 1

\* lmb.h says that an alignment of 0 means no alignment: a request fails only
\* if there is no free place.
FailsOnlyWhenFull ==
  last.op = "alloc" /\ ~last.ok =>
    Map!Fits(last.size, IF last.align = 0 THEN 1 ELSE last.align, last.max) = {}
=============================================================================
