----------------------------- MODULE Allocator ------------------------------
(***************************************************************************)
(* What a memory pool promises to those who allocate from it, whatever it  *)
(* is made of: memory that nobody else has, that stays where it is until   *)
(* its owner gives it back or asks for more, and that is gone as a whole   *)
(* when the pool is destroyed.                                             *)
(***************************************************************************)
EXTENDS Integers

CONSTANTS
  Owners      \* those who may give memory back

VARIABLES
  mem,        \* the pieces of memory that every owner has
  shared      \* the pieces that are never given back one by one

Extent == [blk : Int, off : Nat, len : Nat]

Apart(e, f) ==
  \/ e.blk # f.blk
  \/ e.off + e.len <= f.off
  \/ f.off + f.len <= e.off

\* No byte is in two pieces, of one or of two owners.
Exclusive(m, s) ==
  /\ \A x \in Owners : m[x] \cap s = {}
  /\ \A x, y \in Owners : x # y => m[x] \cap m[y] = {}
  /\ LET all == s \cup UNION {m[x] : x \in Owners}
     IN  \A e, f \in all : e # f => Apart(e, f)

\* More memory is handed out for good.
Allocate ==
  /\ UNCHANGED mem
  /\ shared' \in SUBSET Extent
  /\ shared \subseteq shared'
  /\ Exclusive(mem', shared')

\* x asks for memory or gives it back; the pool may keep some of it.
Serve(x) ==
  /\ mem' \in [Owners -> SUBSET Extent]
  /\ \A y \in Owners \ {x} : mem'[y] = mem[y]
  /\ shared' \in SUBSET Extent
  /\ shared \subseteq shared'
  /\ Exclusive(mem', shared')

Destroy == mem' = [x \in Owners |-> {}] /\ shared' = {}

Init == mem = [x \in Owners |-> {}] /\ shared = {}

Next == Allocate \/ (\E x \in Owners : Serve(x)) \/ Destroy

Spec == Init /\ [][Next]_<<mem, shared>>

=============================================================================
