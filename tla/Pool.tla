------------------------------- MODULE Pool --------------------------------
(***************************************************************************)
(* The memory pool of src/core/cw_palloc.c and the growing array of        *)
(* src/core/cw_array.c that is built on it.                                *)
(*                                                                         *)
(* A pool is a chain of equally sized blocks, each with a bump pointer     *)
(* (d.last) and a count of failed searches (d.failed), and a list of large *)
(* chunks that come from malloc one by one.  Memory goes back only by      *)
(* cw_array_destroy, which moves the bump pointer of the first block back, *)
(* and by cw_destroy_pool.                                                 *)
(*                                                                         *)
(* Memory is described by extents: a block number, an offset and a length. *)
(* The blocks of the chain are 1, 2, ..., the large chunks are -1, -2, ... *)
(* and block 0 is the NULL pointer.  Every block is aligned to             *)
(* CW_POOL_ALIGNMENT, a multiple of CW_ALIGNMENT, so an offset is aligned  *)
(* exactly when the address is.  "held", the extents that callers hold,    *)
(* and "heap", the number of chunks malloc has outstanding, are not kept   *)
(* by the program: they are what its correctness is about.                 *)
(***************************************************************************)
EXTENDS Integers, Sequences, FiniteSetsExt

CONSTANTS
  PoolSize,               \* the size argument of cw_create_pool
  SizeofPool,             \* sizeof(cw_pool_t)
  SizeofPoolData,         \* sizeof(cw_pool_data_t)
  SizeofLarge,            \* sizeof(cw_pool_large_t)
  SizeofArray,            \* sizeof(cw_array_t)
  CW_ALIGNMENT,
  CW_MAX_ALLOC_FROM_POOL,
  SizeMod,                \* the modulus of size_t
  Sizes,                  \* sizes the callers ask for
  Counts,                 \* element counts the callers ask for
  ElemSizes,              \* sizes of array elements
  Arrays,                 \* the arrays the callers keep
  MaxHeap                 \* bound: no allocation starts with this many chunks

\* cw_align_ptr: the next multiple of CW_ALIGNMENT.
cw_align(d) == d + ((-d) % CW_ALIGNMENT)

(***************************************************************************)
(* Every pool of the program has 1024 or 16 * 1024 bytes and every caller  *)
(* asks for at least one byte and at least one element.                    *)
(***************************************************************************)
ASSUME SizesAssumption ==
  /\ PoolSize \in Nat /\ SizeofPool \in Nat /\ SizeofPoolData \in Nat
  /\ SizeofLarge \in Nat \ {0} /\ SizeofArray \in Nat \ {0}
  /\ CW_MAX_ALLOC_FROM_POOL \in Nat
  /\ SizeMod \in Nat
  /\ MaxHeap \in Nat
  /\ CW_ALIGNMENT \in {4, 8, 16}
  /\ PoolSize % CW_ALIGNMENT = 0
  /\ cw_align(SizeofPoolData) <= SizeofPool
  /\ SizeofPool + SizeofLarge <= PoolSize
  /\ Sizes \subseteq Nat \ {0}
  /\ Counts \subseteq Nat \ {0}
  /\ ElemSizes \subseteq Nat \ {0}

VARIABLES
  pool,     \* the pool, NoPool while there is none
  arrays    \* the cw_array_t of every array, NoArray while there is none

vars == <<pool, arrays>>

Extent == [blk : Int, off : Nat, len : Nat]
PoolT  == [last : Seq(Nat), failed : Seq(Nat), current : Nat,
           large : Seq(Extent), held : SUBSET Extent, heap : Int]
ArrayT == [hdr : Extent, elts : Extent, nelts : Nat, nalloc : Nat, size : Nat]

Piece(blk, off, len) == [blk |-> blk, off |-> off, len |-> len]

NULL == Piece(0, 0, 0)

\* The pool with the given fields.
cw_pool_t(last, failed, current, large, held, heap) ==
  [last |-> last, failed |-> failed, current |-> current,
   large |-> large, held |-> held, heap |-> heap]

cw_array_t(hdr, elts, nelts, nalloc, size) ==
  [hdr |-> hdr, elts |-> elts, nelts |-> nelts, nalloc |-> nalloc, size |-> size]

NoPool  == cw_pool_t(<<>>, <<>>, 1, <<>>, {}, 0)
NoArray == cw_array_t(NULL, NULL, 0, 0, 0)

\* pool->max
PoolMax == IF PoolSize - SizeofPool < CW_MAX_ALLOC_FROM_POOL
             THEN PoolSize - SizeofPool
             ELSE CW_MAX_ALLOC_FROM_POOL

\* The first usable byte of block i: only the first holds a whole cw_pool_t.
Header(i) == IF i = 1 THEN SizeofPool ELSE cw_align(SizeofPoolData)

----------------------------------------------------------------------------
(***************************************************************************)
(* Allocation.  An operator returns the pool afterwards, "p", and the      *)
(* memory it hands out, "at", or NULL.  m says which of the calls of       *)
(* malloc that it may need succeed.                                        *)
(***************************************************************************)
Mallocs == [chunk : BOOLEAN, node : BOOLEAN]

Result(p, at) == [p |-> p, at |-> at]

\* Fault: rounds down, into the piece handed out before.
Mem_down(last, align) == IF align THEN last - (last % CW_ALIGNMENT) ELSE last

\* What is handed out of a block starts at d.last, aligned on request.
Mem(last, align) == IF align THEN cw_align(last) ELSE last

\* Fault: the room is measured before the alignment.
Room_unaligned(last, align) == PoolSize - last

\* (size_t) (p->d.end - m): a negative difference wraps around.
Room(last, align) ==
  LET d == PoolSize - Mem(last, align) IN IF d < 0 THEN d + SizeMod ELSE d

\* The blocks from pool->current on that have room.
Fits(p, size, align) ==
  {i \in p.current .. Len(p.last) : Room(p.last[i], align) >= size}

\* The blocks for which the loop of cw_palloc_block counts a failure.
Walked(p) == p.current .. Len(p.last) - 1

\* Fault: the failures are never acted upon.
NextCurrent_stuck(p) == p.current

\* p->d.failed++ > 4: such a block is not searched again.
NextCurrent(p) ==
  LET spent == {i \in Walked(p) : p.failed[i] > 4}
  IN  IF spent = {} THEN p.current ELSE Max(spent) + 1

\* Fault: d.failed of the new block is not set.
NewBlock_unset(p, m, size) ==
  LET at == Piece(Len(p.last) + 1, m, size)
  IN  Result(cw_pool_t(Append(p.last, m + size), p.failed, NextCurrent(p),
                       p.large, p.held \cup {at}, p.heap + 1),
             at)

\* Fault: a failure is counted for the last block of the chain too.
NewBlock_overcount(p, m, size) ==
  LET walked == [i \in 1 .. Len(p.failed) |->
                   IF i >= p.current THEN p.failed[i] + 1 ELSE p.failed[i]]
      at     == Piece(Len(p.last) + 1, m, size)
  IN  Result(cw_pool_t(Append(p.last, m + size), Append(walked, 0), NextCurrent(p),
                       p.large, p.held \cup {at}, p.heap + 1),
             at)

\* A new block is linked at the end of the chain.
NewBlock(p, m, size) ==
  LET n      == Len(p.last) + 1
      walked == [i \in 1 .. Len(p.failed) |->
                   IF i \in Walked(p) THEN p.failed[i] + 1 ELSE p.failed[i]]
      at     == Piece(n, m, size)
  IN  Result(cw_pool_t(Append(p.last, m + size), Append(walked, 0), NextCurrent(p),
                       p.large, p.held \cup {at}, p.heap + 1),
             at)

cw_palloc_block(p, size, ok) ==
  IF ok THEN NewBlock(p, cw_align(SizeofPoolData), size) ELSE Result(p, NULL)

\* The memory [m, m + size) of block i is handed out.
Bump(p, i, m, size) ==
  LET at == Piece(i, m, size)
  IN  Result(cw_pool_t([p.last EXCEPT ![i] = m + size], p.failed, p.current,
                       p.large, p.held \cup {at}, p.heap),
             at)

cw_palloc_small(p, size, align, ok) ==
  LET fits == Fits(p, size, align)
      i    == Min(fits)
  IN  IF fits = {}
        THEN cw_palloc_block(p, size, ok)
        ELSE Bump(p, i, Mem(p.last[i], align), size)

\* malloc (n = 1) and free (n = -1).
Heap(p, n) == cw_pool_t(p.last, p.failed, p.current, p.large, p.held, p.heap + n)

\* The chunk is remembered by a node of the list pool->large.
Linked(p, node, size) ==
  LET large == Append(p.large, node)
      at    == Piece(-Len(large), 0, size)
  IN  Result(cw_pool_t(p.last, p.failed, p.current, large, p.held \cup {at}, p.heap), at)

\* Fault: the chunk is not freed when there is no node for it.
cw_palloc_large_leak(p, size, m) ==
  LET node == cw_palloc_small(Heap(p, 1), SizeofLarge, TRUE, m.node)
  IN  IF ~m.chunk            THEN Result(p, NULL)
      ELSE IF node.at = NULL THEN Result(node.p, NULL)
      ELSE Linked(node.p, node.at, size)

\* Fault: the node is not aligned.
cw_palloc_large_unaligned(p, size, m) ==
  LET node == cw_palloc_small(Heap(p, 1), SizeofLarge, FALSE, m.node)
  IN  IF ~m.chunk            THEN Result(p, NULL)
      ELSE IF node.at = NULL THEN Result(Heap(node.p, -1), NULL)
      ELSE Linked(node.p, node.at, size)

(***************************************************************************)
(* The list node comes from the pool; when there is no memory for it the   *)
(* chunk is freed again.  The code first looks at up to five nodes for one *)
(* whose alloc is NULL; nothing in the program ever clears alloc, so it    *)
(* never finds one.                                                        *)
(***************************************************************************)
cw_palloc_large(p, size, m) ==
  LET node == cw_palloc_small(Heap(p, 1), SizeofLarge, TRUE, m.node)
  IN  IF ~m.chunk            THEN Result(p, NULL)
      ELSE IF node.at = NULL THEN Result(Heap(node.p, -1), NULL)
      ELSE Linked(node.p, node.at, size)

\* cw_palloc (align = TRUE) and cw_pnalloc (align = FALSE).
cw_palloc(p, size, align, m) ==
  IF size <= PoolMax
    THEN cw_palloc_small(p, size, align, m.chunk)
    ELSE cw_palloc_large(p, size, m)

----------------------------------------------------------------------------
(***************************************************************************)
(* Arrays.  cw_array_push and cw_array_push_n return the pool and the      *)
(* array; NULL is returned to the caller when nelts stays as it is.        *)
(***************************************************************************)
PushResult(p, a) == [p |-> p, a |-> a]

\* (u_char *) ptr + len == p->d.last, where p is the first block.
EndsAtLast(p, ptr, len) == ptr.blk = 1 /\ ptr.off + len = p.last[1]

WithHeld(p, last1, held) ==
  cw_pool_t([p.last EXCEPT ![1] = last1], p.failed, p.current, p.large, held, p.heap)

\* The elements of a were the last piece of the first block and take k more
\* elements from it.
Extended(p, a, k) ==
  LET elts == Piece(a.elts.blk, a.elts.off, a.elts.len + k * a.size)
  IN  PushResult(WithHeld(p, p.last[1] + k * a.size, (p.held \ {a.elts}) \cup {elts}),
                 cw_array_t(a.hdr, elts, a.nelts + k, a.nalloc + k, a.size))

\* The elements of a were copied to new; the old ones are not used again.
Moved(p, a, k, new, nalloc) ==
  PushResult(WithHeld(p, p.last[1], p.held \ {a.elts}),
             cw_array_t(a.hdr, new, a.nelts + k, nalloc, a.size))

\* Room for k more elements, where a new allocation has nalloc elements.
Grown(p, a, k, nalloc, m) ==
  LET new == cw_palloc(p, nalloc * a.size, TRUE, m)
  IN  IF /\ EndsAtLast(p, a.elts, a.size * a.nalloc)
         /\ p.last[1] + k * a.size <= PoolSize
        THEN Extended(p, a, k)
      ELSE IF new.at = NULL
        THEN PushResult(new.p, a)
        ELSE Moved(new.p, a, k, new.at, nalloc)

Filled(a, k) == cw_array_t(a.hdr, a.elts, a.nelts + k, a.nalloc, a.size)

\* Fault: the new allocation is no larger than the old one.
cw_array_push_same(p, a, m) ==
  IF a.nelts = a.nalloc
    THEN Grown(p, a, 1, a.nalloc, m)
    ELSE PushResult(p, Filled(a, 1))

cw_array_push(p, a, m) ==
  IF a.nelts = a.nalloc
    THEN Grown(p, a, 1, 2 * a.nalloc, m)
    ELSE PushResult(p, Filled(a, 1))

cw_array_push_n(p, a, n, m) ==
  IF a.nelts + n > a.nalloc
    THEN Grown(p, a, n, 2 * (IF n >= a.nalloc THEN n ELSE a.nalloc), m)
    ELSE PushResult(p, Filled(a, n))

\* Fault: the bump pointer is moved back without a look at what is there.
Back_unchecked(p, ptr, len) == WithHeld(p, p.last[1] - len, p.held \ {ptr})

\* The piece ptr is not used again, and goes back if it is the last one.
Back(p, ptr, len) ==
  WithHeld(p, IF EndsAtLast(p, ptr, len) THEN p.last[1] - len ELSE p.last[1],
           p.held \ {ptr})

cw_array_destroy(p, a) ==
  Back(Back(p, a.elts, a.size * a.nalloc), a.hdr, SizeofArray)

----------------------------------------------------------------------------
(***************************************************************************)
(* The callers' operations.                                                *)
(***************************************************************************)
Exists   == pool.last # <<>>
MayAlloc == Exists /\ pool.heap < MaxHeap
Live(x)  == arrays[x].nalloc # 0

CreatePool ==
  /\ ~Exists
  /\ \E ok \in BOOLEAN :
       pool' = IF ok THEN cw_pool_t(<<SizeofPool>>, <<0>>, 1, <<>>, {}, pool.heap + 1)
                     ELSE pool
  /\ UNCHANGED arrays

\* cw_palloc, cw_pnalloc and cw_pcalloc: the last also clears the bytes.
Palloc ==
  /\ MayAlloc
  /\ \E size \in Sizes, align \in BOOLEAN, m \in Mallocs :
       pool' = cw_palloc(pool, size, align, m).p
  /\ UNCHANGED arrays

\* cw_array_init, of an array whose header is hdr.
ArrayInit(x, p, hdr, n, size, m) ==
  LET elts == cw_palloc(p, n * size, TRUE, m)
  IN  /\ pool' = elts.p
      /\ arrays' = IF elts.at = NULL
                     THEN arrays
                     ELSE [arrays EXCEPT ![x] = cw_array_t(hdr, elts.at, 0, n, size)]

\* A failure to allocate the elements leaves the array's header allocated.
ArrayCreate(x) ==
  /\ MayAlloc
  /\ ~Live(x)
  /\ \E n \in Counts, size \in ElemSizes, m1 \in Mallocs, m2 \in Mallocs :
       LET hdr == cw_palloc(pool, SizeofArray, TRUE, m1)
       IN  IF hdr.at = NULL
             THEN pool' = hdr.p /\ UNCHANGED arrays
             ELSE ArrayInit(x, hdr.p, hdr.at, n, size, m2)

ArrayPush(x) ==
  /\ MayAlloc
  /\ Live(x)
  /\ \E m \in Mallocs :
       LET r == cw_array_push(pool, arrays[x], m)
       IN  pool' = r.p /\ arrays' = [arrays EXCEPT ![x] = r.a]

ArrayPushN(x) ==
  /\ MayAlloc
  /\ Live(x)
  /\ \E n \in Counts, m \in Mallocs :
       LET r == cw_array_push_n(pool, arrays[x], n, m)
       IN  pool' = r.p /\ arrays' = [arrays EXCEPT ![x] = r.a]

ArrayDestroy(x) ==
  /\ Live(x)
  /\ pool' = cw_array_destroy(pool, arrays[x])
  /\ arrays' = [arrays EXCEPT ![x] = NoArray]

\* Every large chunk is freed, then every block; the arrays go with them.
DestroyPool ==
  /\ Exists
  /\ pool' = Heap(NoPool, pool.heap - Len(pool.large) - Len(pool.last))
  /\ arrays' = [x \in Arrays |-> NoArray]

Init == pool = NoPool /\ arrays = [x \in Arrays |-> NoArray]

Next ==
  \/ CreatePool
  \/ Palloc
  \/ \E x \in Arrays : ArrayCreate(x) \/ ArrayPush(x) \/ ArrayPushN(x) \/ ArrayDestroy(x)
  \/ DestroyPool

Spec == Init /\ [][Next]_vars

----------------------------------------------------------------------------
(***************************************************************************)
(* Properties.                                                             *)
(***************************************************************************)

\* Pools and arrays have their types, whatever the callers do and whichever
\* calls of malloc fail: each block has its bump pointer and its count of
\* failures.
TypeOK ==
  /\ pool \in PoolT
  /\ Len(pool.failed) = Len(pool.last)
  /\ arrays \in [Arrays -> ArrayT]

\* No two pieces of memory in use share a byte: neither the bump pointer,
\* nor growing an array in place, nor moving the pointer back for a
\* destroyed array hands out what somebody still holds.
Disjoint(e, f) ==
  \/ e.blk # f.blk
  \/ e.off + e.len <= f.off
  \/ f.off + f.len <= e.off

NoOverlap == \A e, f \in pool.held : e # f => Disjoint(e, f)

\* Every piece in use lies behind the header of its block and below the
\* block's bump pointer, and no bump pointer is past the end of its block.
InBlock(p, e) ==
  /\ e.blk <= Len(p.last)
  /\ Header(e.blk) <= e.off
  /\ e.off + e.len <= p.last[e.blk]

InBounds ==
  /\ \A e \in pool.held : e.blk > 0 => InBlock(pool, e)
  /\ \A i \in 1 .. Len(pool.last) : Header(i) <= pool.last[i] /\ pool.last[i] <= PoolSize

\* However long the chain grows, cw_palloc_small looks at no more than seven
\* blocks: d.failed moves pool->current on, and never past the last block.
SearchBounded ==
  Exists => pool.current \in 1 .. Len(pool.last) /\ Len(pool.last) - pool.current <= 6

\* Whatever fails, every chunk that malloc has outstanding can be reached
\* from the pool, so that cw_destroy_pool frees them all.
NoLeak == pool.heap = Len(pool.last) + Len(pool.large)

\* The elements an array believes it has room for are memory it was given.
ArrayFits ==
  \A x \in Arrays : Live(x) =>
    /\ arrays[x].elts \in pool.held
    /\ arrays[x].hdr \in pool.held
    /\ arrays[x].nelts <= arrays[x].nalloc
    /\ arrays[x].nalloc * arrays[x].size <= arrays[x].elts.len

\* List nodes, array headers and elements are aligned even when pieces of
\* odd sizes were handed out by cw_pnalloc before.
Aligned ==
  /\ \A k \in 1 .. Len(pool.large) : pool.large[k].off % CW_ALIGNMENT = 0
  /\ \A x \in Arrays : Live(x) =>
       /\ arrays[x].hdr.off % CW_ALIGNMENT = 0
       /\ arrays[x].elts.off % CW_ALIGNMENT = 0

----------------------------------------------------------------------------
(***************************************************************************)
(* The inductive invariant behind these properties.                        *)
(***************************************************************************)

\* A piece is not empty, and lies in a block or is a chunk of its own.
Placed(p, e) ==
  /\ e.len > 0
  /\ IF e.blk > 0 THEN InBlock(p, e) ELSE e.blk < 0 /\ -e.blk <= Len(p.large)

\* The failures counted for a block that is still searched say how many
\* blocks were linked behind it.
SearchOK(p) ==
  /\ Len(p.last) - p.current <= 6
  /\ p.failed[Len(p.last)] = 0
  /\ \A i \in Walked(p) : p.failed[i] = Len(p.last) - 1 - i

PoolOK(p) ==
  /\ p \in PoolT
  /\ Len(p.failed) = Len(p.last)
  /\ p.current \in 1 .. Len(p.last)
  /\ \A i \in 1 .. Len(p.last) : Header(i) <= p.last[i] /\ p.last[i] <= PoolSize
  /\ \A e \in p.held : Placed(p, e)
  /\ \A e, f \in p.held : e # f => Disjoint(e, f)
  /\ \A k \in 1 .. Len(p.large) : p.large[k].off % CW_ALIGNMENT = 0
  /\ SearchOK(p)

\* An array owns its header and its elements, which are exactly as long as
\* cw_array_destroy computes them to be.
ArrayOK(p, a) ==
  /\ a.hdr \in p.held /\ a.hdr.len = SizeofArray /\ a.hdr.off % CW_ALIGNMENT = 0
  /\ a.elts \in p.held /\ a.elts.len = a.nalloc * a.size /\ a.elts.off % CW_ALIGNMENT = 0
  /\ a.hdr # a.elts
  /\ a.size > 0
  /\ a.nelts <= a.nalloc

Owned(a) == {a.hdr, a.elts}

\* The pool's own bookkeeping, what it has handed out and what the arrays
\* believe to own agree: every array owns its pieces alone.
IndInv ==
  /\ pool \in PoolT
  /\ arrays \in [Arrays -> ArrayT]
  /\ pool.heap = Len(pool.last) + Len(pool.large)
  /\ Exists => PoolOK(pool)
  /\ ~Exists => pool = NoPool
  /\ \A x \in Arrays : Live(x) => Exists /\ ArrayOK(pool, arrays[x])
  /\ \A x, y \in Arrays :
       x # y /\ Live(x) /\ Live(y) => Owned(arrays[x]) \cap Owned(arrays[y]) = {}

----------------------------------------------------------------------------
(***************************************************************************)
(* The pool as its callers see it: an array has the pieces it owns, and    *)
(* all else that was handed out stays handed out.                          *)
(***************************************************************************)
OwnedBy(x) == IF Live(x) THEN Owned(arrays[x]) ELSE {}

Promise == INSTANCE Allocator WITH
  Owners <- Arrays,
  mem    <- [x \in Arrays |-> OwnedBy(x)],
  shared <- pool.held \ UNION {OwnedBy(x) : x \in Arrays}

\* Through every call of cw_palloc.c and cw_array.c, failed ones included, a
\* caller's memory is its own: nobody else's growing or destroyed array takes,
\* moves or shares it, until cw_destroy_pool ends everything at once.
Allocates == Promise!Spec

=============================================================================
