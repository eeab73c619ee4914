------------------------------- MODULE LmbMap -------------------------------
(***************************************************************************)
(* What lib/lmb.c promises: a map that says of every address of the        *)
(* board's memory whether it is reserved, and with which flags.  A call    *)
(* either does what was asked of it and reports success, or reports        *)
(* failure and changes nothing.                                            *)
(***************************************************************************)
EXTENDS Integers, FiniteSets

CONSTANTS
  Memory,     \* addresses of RAM
  Flags,      \* flags of a reservation
  None,       \* LMB_NONE: may be reserved again with LMB_NONE
  Free        \* not reserved

VARIABLES
  owner,      \* the flags each address is reserved with, or Free
  last        \* the last call and its result

mapVars == <<owner, last>>

Range(b, s) == b .. b + s - 1

\* [b, b + s) may be reserved with flags f.
Allowed(b, s, f) ==
  /\ Range(b, s) \subseteq Memory
  /\ \A a \in Range(b, s) : owner[a] = Free \/ (f = None /\ owner[a] = None)

Taken(b, s, o) == [a \in Memory |-> IF a \in Range(b, s) THEN o ELSE owner[a]]

\* A given region is asked for.
Reserve(c) ==
  \/ c.ok /\ Allowed(c.base, c.size, c.flags) /\ owner' = Taken(c.base, c.size, c.flags)
  \/ ~c.ok /\ ~Allowed(c.base, c.size, c.flags) /\ UNCHANGED owner

\* The places where an aligned region of size s ends at or below max.
Fits(s, align, max) ==
  {b \in Memory :
     /\ b % align = 0 /\ b + s <= max
     /\ Range(b, s) \subseteq Memory
     /\ \A a \in Range(b, s) : owner[a] = Free}

\* Any region below c.max is asked for; the highest one is given.
Alloc(c) ==
  LET F == Fits(c.size, IF c.align = 0 THEN 1 ELSE c.align, c.max)
  IN  \/ /\ c.ok /\ c.base \in F /\ \A b \in F : b <= c.base
         /\ owner' = Taken(c.base, c.size, c.flags)
      \/ ~c.ok /\ F = {} /\ UNCHANGED owner

\* A region is given back; it may be a part of one or of several reserved ones
\* with the same flags. What is not reserved cannot be given back.
GiveBack(c) ==
  \/ /\ c.ok
     /\ \E f \in Flags : \A a \in Range(c.base, c.size) : a \in Memory /\ owner[a] = f
     /\ owner' = Taken(c.base, c.size, Free)
  \/ ~c.ok /\ UNCHANGED owner

MapInit ==
  /\ owner \in [Memory -> Flags \cup {Free}]
  /\ last = [op |-> "init", ok |-> TRUE]

MapNext ==
  \/ last'.op = "reserve" /\ Reserve(last')
  \/ last'.op = "alloc" /\ Alloc(last')
  \/ last'.op = "free" /\ GiveBack(last')

MapSpec == MapInit /\ [][MapNext]_mapVars
=============================================================================
