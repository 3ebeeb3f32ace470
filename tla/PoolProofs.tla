---------------------------- MODULE PoolProofs -----------------------------
(***************************************************************************)
(* Proofs about the pool, for every size of pool and of structures, every  *)
(* request and any number of blocks, chunks and arrays: its safety, and    *)
(* that it implements Allocator.                                           *)
(***************************************************************************)
EXTENDS Pool, NatFacts

----------------------------------------------------------------------------
(***************************************************************************)
(* Facts about the operators the pool is built from.                       *)
(***************************************************************************)

\* cw_align rounds up to a multiple of CW_ALIGNMENT, and never past one.
LEMMA AlignUp ==
  ASSUME NEW d \in Nat
  PROVE  /\ cw_align(d) \in Nat
         /\ d <= cw_align(d)
         /\ cw_align(d) % CW_ALIGNMENT = 0
         /\ \A e \in Nat : e % CW_ALIGNMENT = 0 /\ d <= e => cw_align(d) <= e
BY SizesAssumption DEF cw_align

\* Every block has room behind its header.
LEMMA HeaderFits ==
  /\ cw_align(SizeofPoolData) \in Nat
  /\ PoolSize \in Nat
  /\ \A i : Header(i) \in Nat /\ Header(i) <= SizeofPool
<1>1. cw_align(SizeofPoolData) \in Nat
  BY SizesAssumption, AlignUp
<1>2. QED
  BY <1>1, SizesAssumption DEF Header

\* Replacing one number in a sequence of numbers.
LEMMA Update ==
  ASSUME NEW s \in Seq(Nat), NEW i \in 1 .. Len(s), NEW v \in Nat
  PROVE  LET t == [s EXCEPT ![i] = v]
         IN  /\ t \in Seq(Nat)
             /\ Len(t) = Len(s)
             /\ t[i] = v
             /\ \A j \in 1 .. Len(s) : j # i => t[j] = s[j]
OBVIOUS

\* Appending one number to a sequence of numbers.
LEMMA Added ==
  ASSUME NEW s \in Seq(Nat), NEW v \in Nat
  PROVE  LET t == Append(s, v)
         IN  /\ t \in Seq(Nat)
             /\ Len(t) = Len(s) + 1
             /\ t[Len(s) + 1] = v
             /\ \A j \in 1 .. Len(s) : t[j] = s[j]
OBVIOUS

\* Counting one more for some entries of a sequence of numbers.
LEMMA Counted ==
  ASSUME NEW s \in Seq(Nat), NEW W
  PROVE  LET t == [i \in 1 .. Len(s) |-> IF i \in W THEN s[i] + 1 ELSE s[i]]
         IN  /\ t \in Seq(Nat)
             /\ Len(t) = Len(s)
             /\ \A i \in 1 .. Len(s) : t[i] = IF i \in W THEN s[i] + 1 ELSE s[i]
<1> DEFINE t == [i \in 1 .. Len(s) |-> IF i \in W THEN s[i] + 1 ELSE s[i]]
<1>1. t \in [1 .. Len(s) -> Nat]
  OBVIOUS
<1>2. QED
  BY <1>1

\* What an allocation owes its caller: what was held is still held, and the
\* piece returned is new and as long as requested.
Granted(p, r, size, align) ==
  /\ PoolOK(r.p)
  /\ p.held \subseteq r.p.held
  /\ \/ r.at = NULL
     \/ /\ r.at \in r.p.held \ p.held
        /\ r.at.len = size
        /\ align => r.at.off % CW_ALIGNMENT = 0

\* The chunks of the pool that cannot be reached from it.
Lost(p) == p.heap - Len(p.last) - Len(p.large)

\* Taking the next bytes of a block that has room for them.
LEMMA BumpOK ==
  ASSUME NEW p, PoolOK(p), NEW i \in 1 .. Len(p.last),
         NEW m \in Nat, NEW size \in Nat \ {0}, NEW align \in BOOLEAN,
         p.last[i] <= m, m + size <= PoolSize,
         align => m % CW_ALIGNMENT = 0
  PROVE  LET r == Bump(p, i, m, size)
         IN  Granted(p, r, size, align) /\ Lost(r.p) = Lost(p)
<1> DEFINE r    == Bump(p, i, m, size)
           at   == Piece(i, m, size)
           last == [p.last EXCEPT ![i] = m + size]
<1>1. p \in PoolT /\ p.last \in Seq(Nat) /\ p.failed \in Seq(Nat) /\ p.held \subseteq Extent
  BY DEF PoolOK, PoolT
<1>2. /\ last \in Seq(Nat)
      /\ Len(last) = Len(p.last)
      /\ last[i] = m + size
      /\ \A j \in 1 .. Len(p.last) : j # i => last[j] = p.last[j]
  BY <1>1, Update, m + size \in Nat
<1>3. at \in Extent /\ at.blk = i /\ at.off = m /\ at.len = size
  BY DEF Piece, Extent
<1>4. /\ r.at = at
      /\ r.p.last = last /\ r.p.failed = p.failed /\ r.p.current = p.current
      /\ r.p.large = p.large /\ r.p.held = p.held \cup {at} /\ r.p.heap = p.heap
  BY DEF Bump, Result, cw_pool_t
<1>5. r.p \in PoolT
  BY <1>1, <1>2, <1>3 DEF PoolT, Bump, Result, cw_pool_t
<1> HIDE DEF last, at, r
<1>6. \A j \in 1 .. Len(p.last) : Header(j) <= p.last[j] /\ p.last[j] <= PoolSize
  BY DEF PoolOK
<1>7. ASSUME NEW j \in 1 .. Len(p.last)
      PROVE  Header(j) <= last[j] /\ last[j] <= PoolSize
  <2>1. p.last[j] \in Nat /\ p.last[i] \in Nat
    BY <1>1
  <2>2. Header(j) \in Nat /\ PoolSize \in Nat
    BY HeaderFits
  <2>3. CASE j = i
    BY <2>1, <2>2, <2>3, <1>2, <1>6
  <2>4. CASE j # i
    BY <2>1, <2>2, <2>4, <1>2, <1>6
  <2>5. QED
    BY <2>3, <2>4
<1>8. Placed(r.p, at)
  <2>1. i > 0 /\ i <= Len(last) /\ size > 0 /\ Header(i) <= m
    BY <1>1, <1>2, <1>6, HeaderFits
  <2>2. r.p.last[at.blk] = m + size
    BY <1>2, <1>3, <1>4
  <2>3. InBlock(r.p, at)
    BY <2>1, <2>2, <1>3, <1>4 DEF InBlock
  <2>4. QED
    BY <2>1, <2>3, <1>3 DEF Placed
<1>9. ASSUME NEW e \in p.held
      PROVE  /\ Placed(r.p, e)
             /\ Disjoint(e, at) /\ Disjoint(at, e)
             /\ e # at
  <2>1. e \in Extent /\ e.blk \in Int /\ e.off \in Nat /\ e.len \in Nat
    BY <1>1 DEF Extent
  <2>2. Placed(p, e)
    BY DEF PoolOK
  <2>3. CASE e.blk = i
    <3>1. e.len > 0 /\ e.off + e.len <= p.last[i] /\ Header(i) <= e.off
      BY <2>2, <2>3 DEF Placed, InBlock
    <3>2. e.off + e.len <= m /\ e.off + e.len <= last[i]
      <4>1. p.last[i] \in Nat /\ last[i] = m + size
        BY <1>1, <1>2
      <4>2. QED
        BY <4>1, <3>1, <2>1
    <3>3. Disjoint(e, at) /\ Disjoint(at, e)
      BY <3>2, <1>3 DEF Disjoint
    <3>4. e # at
      BY <3>1, <3>2, <2>1, <1>3
    <3>5. InBlock(r.p, e)
      BY <3>1, <3>2, <2>3, <1>2, <1>4 DEF InBlock
    <3>6. QED
      BY <3>1, <3>3, <3>4, <3>5, <2>3 DEF Placed
  <2>4. CASE e.blk # i
    <3>1. Disjoint(e, at) /\ Disjoint(at, e) /\ e # at
      BY <2>4, <1>3 DEF Disjoint
    <3>2. CASE e.blk > 0
      <4>1. InBlock(p, e) /\ e.len > 0
        BY <2>2, <3>2 DEF Placed
      <4>2. e.blk \in 1 .. Len(p.last)
        BY <4>1, <3>2, <2>1, <1>1 DEF InBlock
      <4>3. InBlock(r.p, e)
        BY <4>1, <4>2, <2>4, <1>2, <1>4 DEF InBlock
      <4>4. QED
        BY <4>1, <4>3, <3>1, <3>2 DEF Placed
    <3>3. CASE ~(e.blk > 0)
      BY <3>1, <3>3, <2>2, <1>4 DEF Placed
    <3>4. QED
      BY <3>2, <3>3
  <2>5. QED
    BY <2>3, <2>4
<1>10. \A e, f \in r.p.held : e # f => Disjoint(e, f)
  BY <1>4, <1>9 DEF PoolOK
<1>11. \A e \in r.p.held : Placed(r.p, e)
  BY <1>4, <1>8, <1>9
<1>12. SearchOK(r.p)
  BY <1>2, <1>4 DEF PoolOK, SearchOK, Walked
<1>13. PoolOK(r.p)
  BY <1>2, <1>4, <1>5, <1>7, <1>10, <1>11, <1>12 DEF PoolOK
<1>14. Lost(r.p) = Lost(p)
  BY <1>2, <1>4 DEF Lost
<1>15. QED
  BY <1>3, <1>4, <1>9, <1>13, <1>14 DEF Granted, r

\* pool->current moves on by one block as soon as seven are searched.
LEMMA NextCurrentIs ==
  ASSUME NEW p, PoolOK(p)
  PROVE  NextCurrent(p) = IF Len(p.last) - p.current = 6 THEN p.current + 1 ELSE p.current
<1> DEFINE spent == {i \in Walked(p) : p.failed[i] > 4}
<1>1. /\ Len(p.last) \in Nat /\ p.current \in Nat /\ p.current <= Len(p.last)
      /\ Len(p.last) - p.current <= 6
      /\ \A i \in Walked(p) : p.failed[i] = Len(p.last) - 1 - i
  BY DEF PoolOK, PoolT, SearchOK
<1>2. spent = {i \in Walked(p) : Len(p.last) - 1 - i > 4}
  BY <1>1
<1>3. CASE Len(p.last) - p.current = 6
  <2>1. spent = {p.current}
    BY <1>1, <1>2, <1>3 DEF Walked
  <2>2. Max(spent) = p.current
    BY <2>1, <1>1 DEF Max
  <2>3. QED
    BY <1>3, <2>1, <2>2 DEF NextCurrent
<1>4. CASE Len(p.last) - p.current # 6
  <2>1. spent = {}
    BY <1>1, <1>2, <1>4 DEF Walked
  <2>2. QED
    BY <1>4, <2>1 DEF NextCurrent
<1>5. QED
  BY <1>3, <1>4

\* A new block serves the request and is searched from then on.
LEMMA NewBlockOK ==
  ASSUME NEW p, PoolOK(p), NEW size \in Nat \ {0}, size <= PoolSize - SizeofPool
  PROVE  LET r == NewBlock(p, cw_align(SizeofPoolData), size)
         IN  Granted(p, r, size, TRUE) /\ Lost(r.p) = Lost(p)
<1> DEFINE m      == cw_align(SizeofPoolData)
           n      == Len(p.last)
           r      == NewBlock(p, m, size)
           at     == Piece(n + 1, m, size)
           last   == Append(p.last, m + size)
           walked == [i \in 1 .. Len(p.failed) |->
                        IF i \in Walked(p) THEN p.failed[i] + 1 ELSE p.failed[i]]
           failed == Append(walked, 0)
<1>1. /\ p.last \in Seq(Nat) /\ p.failed \in Seq(Nat) /\ p.held \subseteq Extent
      /\ p.large \in Seq(Extent) /\ p.heap \in Int /\ p.current \in Nat
      /\ Len(p.failed) = n /\ n = Len(p.last) /\ n \in Nat /\ n >= 1 /\ p.current <= n /\ p.current >= 1
  BY DEF PoolOK, PoolT
<1>0. n \in Nat /\ n >= 1 /\ p.current \in Nat /\ p.current >= 1 /\ p.current <= n
  BY <1>1
<1>2. /\ m \in Nat /\ m % CW_ALIGNMENT = 0 /\ m <= SizeofPool
      /\ m + size \in Nat /\ m + size <= PoolSize
  <2>1. m \in Nat /\ m % CW_ALIGNMENT = 0
    BY SizesAssumption, AlignUp
  <2>2. m <= SizeofPool /\ SizeofPool \in Nat /\ PoolSize \in Nat
    BY SizesAssumption
  <2> HIDE DEF m
  <2>3. QED
    BY <2>1, <2>2
<1>3. /\ last \in Seq(Nat)
      /\ Len(last) = n + 1
      /\ last[n + 1] = m + size
      /\ \A j \in 1 .. n : last[j] = p.last[j]
  BY <1>1, <1>2, Added
<1>4. /\ walked \in Seq(Nat)
      /\ Len(walked) = n
      /\ \A j \in 1 .. n : walked[j] = IF j \in Walked(p) THEN p.failed[j] + 1 ELSE p.failed[j]
  BY <1>1, Counted
<1> HIDE DEF walked
<1>5. /\ failed \in Seq(Nat)
      /\ Len(failed) = n + 1
      /\ failed[n + 1] = 0
      /\ \A j \in 1 .. n : failed[j] = walked[j]
  BY <1>4, Added
<1>6. at \in Extent /\ at.blk = n + 1 /\ at.off = m /\ at.len = size
  BY <1>1, <1>2 DEF Piece, Extent
<1>7. /\ r.at = at
      /\ r.p = cw_pool_t(last, failed, NextCurrent(p), p.large, p.held \cup {at}, p.heap + 1)
  BY DEF NewBlock, Result, walked
<1>8. /\ r.p.last = last /\ r.p.failed = failed /\ r.p.current = NextCurrent(p)
      /\ r.p.large = p.large /\ r.p.held = p.held \cup {at} /\ r.p.heap = p.heap + 1
  BY <1>7 DEF cw_pool_t
<1> HIDE DEF m, n, r, at, last, failed
<1>9. SearchOK(p)
  BY DEF PoolOK
<1>10. NextCurrent(p) = IF n - p.current = 6 THEN p.current + 1 ELSE p.current
  BY NextCurrentIs, <1>1
<1>11. NextCurrent(p) \in Nat /\ NextCurrent(p) \in 1 .. n + 1 /\ p.current <= NextCurrent(p)
  <2>1. n - p.current <= 6
    BY <1>1, <1>9 DEF SearchOK
  <2>2. QED
    BY <2>1, <1>0, <1>10
<1>12. r.p \in PoolT
  <2>1. p.held \cup {at} \subseteq Extent /\ p.heap + 1 \in Int
    BY <1>1, <1>6
  <2>2. QED
    BY <2>1, <1>1, <1>3, <1>5, <1>7, <1>11 DEF PoolT, cw_pool_t
<1>13. SearchOK(r.p)
  <2>1. \A i \in p.current .. n - 1 : p.failed[i] = n - 1 - i
    BY <1>1, <1>9 DEF SearchOK, Walked
  <2>2. p.failed[n] = 0 /\ n - p.current <= 6
    BY <1>1, <1>9 DEF SearchOK
  <2>3. ASSUME NEW i \in NextCurrent(p) .. n
        PROVE  failed[i] = n - i
    <3>1. i \in 1 .. n /\ i \in p.current .. n
      BY <1>1, <1>11
    <3>2. failed[i] = walked[i]
      BY <3>1, <1>5
    <3>3. CASE i = n
      <4>1. i \notin Walked(p)
        BY <3>3, <1>1 DEF Walked
      <4>2. QED
        BY <4>1, <3>1, <3>2, <3>3, <2>2, <1>4, <1>0
    <3>4. CASE i # n
      <4>1. i \in Walked(p)
        BY <3>1, <3>4, <1>1 DEF Walked
      <4>2. p.failed[i] = n - 1 - i
        BY <3>1, <3>4, <2>1, <1>0
      <4>3. failed[i] = p.failed[i] + 1
        BY <4>1, <3>1, <3>2, <1>4
      <4>4. QED
        BY <4>2, <4>3, <3>1, <1>0
    <3>5. QED
      BY <3>3, <3>4
  <2>4. n + 1 - NextCurrent(p) <= 6
    BY <2>2, <1>0, <1>10
  <2>5. Walked(r.p) = NextCurrent(p) .. n
    <3>1. Len(r.p.last) - 1 = n
      BY <1>0, <1>3, <1>8
    <3>2. QED
      BY <3>1, <1>8 DEF Walked
  <2>6. Len(r.p.last) = n + 1 /\ r.p.failed[n + 1] = 0
    BY <1>3, <1>5, <1>8
  <2>7. \A i \in Walked(r.p) : r.p.failed[i] = Len(r.p.last) - 1 - i
    BY <2>3, <2>5, <2>6, <1>0, <1>8, <1>11
  <2>8. Len(r.p.last) - r.p.current <= 6
    <3>1. Len(r.p.last) = n + 1 /\ r.p.current = NextCurrent(p)
      BY <2>6, <1>8
    <3>2. QED
      BY <3>1, <2>4, <1>0, <1>11
  <2>9. r.p.failed[Len(r.p.last)] = 0
    BY <2>6
  <2>10. QED
    BY <2>7, <2>8, <2>9 DEF SearchOK
<1>14. ASSUME NEW j \in 1 .. n + 1
       PROVE  Header(j) <= last[j] /\ last[j] <= PoolSize
  <2>1. CASE j \in 1 .. n
    BY <2>1, <1>1, <1>3 DEF PoolOK
  <2>2. CASE j = n + 1
    <3>1. Header(j) = m
      BY <2>2, <1>1 DEF Header, m
    <3>2. QED
      BY <3>1, <2>2, <1>2, <1>3
  <2>3. QED
    BY <2>1, <2>2, <1>1
<1>15. Placed(r.p, at)
  <2>1. Header(n + 1) = m
    BY <1>1 DEF Header, m
  <2>2. InBlock(r.p, at)
    <3>1. r.p.last[at.blk] = m + size /\ at.blk <= Len(r.p.last)
      BY <1>1, <1>3, <1>6, <1>8
    <3>2. QED
      BY <3>1, <2>1, <1>2, <1>6 DEF InBlock
  <2>3. QED
    BY <2>2, <1>1, <1>6 DEF Placed
<1>16. ASSUME NEW e \in p.held
       PROVE  Placed(r.p, e) /\ Disjoint(e, at) /\ Disjoint(at, e) /\ e # at
  <2>1. e \in Extent /\ e.blk \in Int
    BY <1>1 DEF Extent
  <2>2. Placed(p, e)
    BY DEF PoolOK
  <2>3. CASE e.blk > 0
    <3>1. InBlock(p, e) /\ e.len > 0
      BY <2>2, <2>3 DEF Placed
    <3>2. e.blk \in 1 .. n
      BY <3>1, <2>1, <2>3, <1>1 DEF InBlock
    <3>3. e.blk # n + 1 /\ e.blk <= n + 1
      BY <3>2, <1>1
    <3>4. InBlock(r.p, e)
      BY <3>1, <3>2, <3>3, <1>3, <1>8 DEF InBlock
    <3>5. QED
      BY <3>1, <3>3, <3>4, <2>3, <1>6 DEF Placed, Disjoint
  <2>4. CASE ~(e.blk > 0)
    <3>1. e.blk # n + 1
      BY <2>4, <1>1
    <3>2. QED
      BY <3>1, <2>2, <2>4, <1>6, <1>8 DEF Placed, Disjoint
  <2>5. QED
    BY <2>3, <2>4
<1>17. \A e, f \in r.p.held : e # f => Disjoint(e, f)
  BY <1>8, <1>16 DEF PoolOK
<1>18. \A e \in r.p.held : Placed(r.p, e)
  BY <1>8, <1>15, <1>16
<1>19. PoolOK(r.p)
  BY <1>3, <1>5, <1>8, <1>11, <1>12, <1>13, <1>14, <1>17, <1>18 DEF PoolOK
<1>20. Lost(r.p) = Lost(p)
  <2>1. Len(p.large) \in Nat
    BY <1>1
  <2>2. QED
    <3>1. Len(r.p.last) = Len(p.last) + 1 /\ Len(r.p.large) = Len(p.large)
      BY <1>1, <1>3, <1>8
    <3>2. Len(p.last) \in Nat /\ p.heap \in Int /\ r.p.heap = p.heap + 1
      BY <1>1, <1>8
    <3>3. QED
      BY <3>1, <3>2, <2>1 DEF Lost
<1>21. QED
  BY <1>2, <1>6, <1>7, <1>8, <1>16, <1>19, <1>20 DEF Granted, r, m

\* cw_palloc_small, from a block that is searched or from a new one.
LEMMA SmallOK ==
  ASSUME NEW p, PoolOK(p), NEW size \in Nat \ {0}, size <= PoolSize - SizeofPool,
         NEW align \in BOOLEAN, NEW ok \in BOOLEAN
  PROVE  LET r == cw_palloc_small(p, size, align, ok)
         IN  /\ Granted(p, r, size, align) /\ Lost(r.p) = Lost(p)
             /\ r.at = NULL => r.p = p
<1> DEFINE fits == Fits(p, size, align)
           i    == Min(fits)
           m    == Mem(p.last[i], align)
<1>1. /\ p.last \in Seq(Nat) /\ p.current \in 1 .. Len(p.last)
      /\ \A j \in 1 .. Len(p.last) : p.last[j] \in Nat /\ p.last[j] <= PoolSize
  BY DEF PoolOK, PoolT
<1>2. CASE fits = {}
  <2>1. CASE ok
    <3>1. cw_palloc_small(p, size, align, ok) = NewBlock(p, cw_align(SizeofPoolData), size)
      BY <1>2, <2>1 DEF cw_palloc_small, cw_palloc_block
    <3>2. Piece(Len(p.last) + 1, cw_align(SizeofPoolData), size) # NULL
      BY <1>1 DEF Piece, NULL
    <3>3. NewBlock(p, cw_align(SizeofPoolData), size).at # NULL
      BY <3>2 DEF NewBlock, Result
    <3>4. QED
      BY <3>1, <3>3, NewBlockOK DEF Granted
  <2>2. CASE ~ok
    <3>1. cw_palloc_small(p, size, align, ok) = Result(p, NULL)
      BY <1>2, <2>2 DEF cw_palloc_small, cw_palloc_block
    <3>2. QED
      BY <3>1 DEF Result, Granted
  <2>3. QED
    BY <2>1, <2>2
<1>3. CASE fits # {}
  <2>1. fits \subseteq Nat
    BY <1>1 DEF Fits
  <2>2. i \in fits
    BY <2>1, <1>3, MinOf
  <2> HIDE DEF i
  <2>3. i \in 1 .. Len(p.last) /\ Room(p.last[i], align) >= size
    BY <2>2, <1>1 DEF Fits
  <2>4. p.last[i] \in Nat /\ p.last[i] <= PoolSize
    BY <2>3, <1>1
  <2>5. /\ m \in Nat /\ p.last[i] <= m /\ m <= PoolSize
        /\ align => m % CW_ALIGNMENT = 0
    BY <2>4, AlignUp, SizesAssumption DEF Mem
  <2>6. Room(p.last[i], align) = PoolSize - m
    BY <2>5, SizesAssumption DEF Room
  <2> HIDE DEF m
  <2>7. m + size <= PoolSize
    BY <2>3, <2>5, <2>6, SizesAssumption
  <2>8. cw_palloc_small(p, size, align, ok) = Bump(p, i, m, size)
    BY <1>3 DEF cw_palloc_small, i, m
  <2>9. Piece(i, m, size) # NULL
    BY <2>3 DEF Piece, NULL
  <2>10. Bump(p, i, m, size).at # NULL
    BY <2>9 DEF Bump, Result
  <2>11. QED
    BY <2>3, <2>5, <2>7, <2>8, <2>10, BumpOK
<1>4. QED
  BY <1>2, <1>3

\* Only the count of outstanding chunks changes.
LEMMA HeapOK ==
  ASSUME NEW p, PoolOK(p), NEW n \in Int
  PROVE  PoolOK(Heap(p, n)) /\ Lost(Heap(p, n)) = Lost(p) + n /\ Heap(p, n).held = p.held
<1> DEFINE q == Heap(p, n)
<1>1. /\ q.last = p.last /\ q.failed = p.failed /\ q.current = p.current
      /\ q.large = p.large /\ q.held = p.held /\ q.heap = p.heap + n
  BY DEF Heap, cw_pool_t
<1>2. q \in PoolT
  BY DEF PoolOK, PoolT, Heap, cw_pool_t
<1>3. p.heap \in Int /\ Len(p.last) \in Nat /\ Len(p.large) \in Nat
  BY DEF PoolOK, PoolT
<1> HIDE DEF q
<1>4. Lost(q) = Lost(p) + n
  BY <1>1, <1>3 DEF Lost
<1>5. SearchOK(q) /\ \A e \in q.held : Placed(q, e)
  BY <1>1 DEF PoolOK, SearchOK, Walked, Placed, InBlock
<1>6. PoolOK(q)
  BY <1>1, <1>2, <1>5 DEF PoolOK
<1>7. QED
  BY <1>1, <1>4, <1>6 DEF q

\* A large chunk that got its list node.
LEMMA LinkedOK ==
  ASSUME NEW p, PoolOK(p), NEW node \in Extent, node.off % CW_ALIGNMENT = 0,
         NEW size \in Nat \ {0}
  PROVE  LET r == Linked(p, node, size)
         IN  Granted(p, r, size, TRUE) /\ Lost(r.p) = Lost(p) - 1
<1> DEFINE r     == Linked(p, node, size)
           large == Append(p.large, node)
           at    == Piece(-Len(large), 0, size)
<1>1. /\ p.last \in Seq(Nat) /\ p.failed \in Seq(Nat) /\ p.held \subseteq Extent
      /\ p.large \in Seq(Extent) /\ p.heap \in Int /\ p.current \in Nat
      /\ Len(p.last) \in Nat /\ Len(p.large) \in Nat
  BY DEF PoolOK, PoolT
<1>2. /\ large \in Seq(Extent)
      /\ Len(large) = Len(p.large) + 1
      /\ large[Len(p.large) + 1] = node
      /\ \A k \in 1 .. Len(p.large) : large[k] = p.large[k]
  BY <1>1
<1>3. at \in Extent /\ at.blk = -Len(large) /\ at.off = 0 /\ at.len = size
  BY <1>1, <1>2 DEF Piece, Extent
<1>4. /\ r.at = at
      /\ r.p = cw_pool_t(p.last, p.failed, p.current, large, p.held \cup {at}, p.heap)
  BY DEF Linked, Result
<1> HIDE DEF r, large, at
<1>5. /\ r.p.last = p.last /\ r.p.failed = p.failed /\ r.p.current = p.current
      /\ r.p.large = large /\ r.p.held = p.held \cup {at} /\ r.p.heap = p.heap
  BY <1>4 DEF cw_pool_t
<1>6. r.p \in PoolT
  BY <1>1, <1>2, <1>3, <1>4 DEF PoolT, cw_pool_t
<1>7. ASSUME NEW k \in 1 .. Len(large)
      PROVE  large[k].off % CW_ALIGNMENT = 0
  <2>1. k \in 1 .. Len(p.large) \/ k = Len(p.large) + 1
    BY <1>1, <1>2
  <2>2. \A j \in 1 .. Len(p.large) : p.large[j].off % CW_ALIGNMENT = 0
    BY DEF PoolOK
  <2>3. QED
    BY <2>1, <2>2, <1>2
<1>8. Placed(r.p, at)
  <2>1. at.len > 0 /\ ~(at.blk > 0) /\ at.blk < 0 /\ -at.blk <= Len(large)
    BY <1>1, <1>2, <1>3
  <2>2. QED
    BY <2>1, <1>5 DEF Placed
<1>9. ASSUME NEW e \in p.held
      PROVE  Placed(r.p, e) /\ Disjoint(e, at) /\ Disjoint(at, e) /\ e # at
  <2>1. e.blk \in Int
    BY <1>1 DEF Extent
  <2>2. Placed(p, e)
    BY DEF PoolOK
  <2>3. CASE e.blk > 0
    <3>1. e.blk # at.blk
      BY <2>1, <2>3, <1>1, <1>2, <1>3
    <3>2. QED
      BY <3>1, <2>2, <2>3, <1>5 DEF Placed, InBlock, Disjoint
  <2>4. CASE ~(e.blk > 0)
    <3>1. e.len > 0 /\ e.blk < 0 /\ -e.blk <= Len(p.large)
      BY <2>2, <2>4 DEF Placed
    <3>2. -e.blk <= Len(large) /\ e.blk # at.blk
      BY <3>1, <2>1, <1>1, <1>2, <1>3
    <3>3. QED
      BY <3>1, <3>2, <2>4, <1>5 DEF Placed, Disjoint
  <2>5. QED
    BY <2>3, <2>4
<1>10. \A e, f \in r.p.held : e # f => Disjoint(e, f)
  BY <1>5, <1>9 DEF PoolOK
<1>11. \A e \in r.p.held : Placed(r.p, e)
  BY <1>5, <1>8, <1>9
<1>12. SearchOK(r.p)
  BY <1>5 DEF PoolOK, SearchOK, Walked
<1>13. PoolOK(r.p)
  BY <1>5, <1>6, <1>7, <1>10, <1>11, <1>12 DEF PoolOK
<1>14. Lost(r.p) = Lost(p) - 1
  <2>1. /\ Len(r.p.large) = Len(p.large) + 1 /\ Len(r.p.last) = Len(p.last)
        /\ r.p.heap = p.heap
    BY <1>2, <1>5
  <2>2. Len(p.large) \in Nat /\ Len(p.last) \in Nat /\ p.heap \in Int
    BY <1>1
  <2>3. QED
    BY <2>1, <2>2 DEF Lost
<1>15. 0 % CW_ALIGNMENT = 0
  BY SizesAssumption
<1>16. QED
  BY <1>3, <1>4, <1>5, <1>9, <1>13, <1>14, <1>15 DEF Granted, r

\* cw_palloc_large: if there is no node for the chunk, it is freed.
LEMMA LargeOK ==
  ASSUME NEW p, PoolOK(p), NEW size \in Nat \ {0}, NEW m \in Mallocs
  PROVE  LET r == cw_palloc_large(p, size, m)
         IN  Granted(p, r, size, TRUE) /\ Lost(r.p) = Lost(p)
<1> DEFINE r    == cw_palloc_large(p, size, m)
           q    == Heap(p, 1)
           node == cw_palloc_small(q, SizeofLarge, TRUE, m.node)
<1>1. PoolOK(q) /\ Lost(q) = Lost(p) + 1 /\ q.held = p.held
  BY HeapOK
<1>2. m.node \in BOOLEAN /\ m.chunk \in BOOLEAN
  BY DEF Mallocs
<1>3. SizeofLarge \in Nat \ {0} /\ SizeofLarge <= PoolSize - SizeofPool
  BY SizesAssumption
<1> HIDE DEF q
<1>4. /\ Granted(q, node, SizeofLarge, TRUE) /\ Lost(node.p) = Lost(q)
      /\ node.at = NULL => node.p = q
  BY <1>1, <1>2, <1>3, SmallOK
<1>5. Lost(p) \in Int
  BY DEF PoolOK, PoolT, Lost
<1>6. CASE ~m.chunk
  <2>1. r = Result(p, NULL)
    BY <1>6 DEF cw_palloc_large
  <2>2. QED
    BY <2>1 DEF Result, Granted
<1> HIDE DEF node
<1>7. CASE m.chunk /\ node.at = NULL
  <2>1. r = Result(Heap(q, -1), NULL)
    BY <1>4, <1>7 DEF cw_palloc_large, q, node
  <2>2. PoolOK(Heap(q, -1)) /\ Lost(Heap(q, -1)) = Lost(q) + (-1) /\ Heap(q, -1).held = q.held
    BY <1>1, HeapOK
  <2>3. QED
    BY <2>1, <2>2, <1>1, <1>5 DEF Result, Granted
<1>8. CASE m.chunk /\ node.at # NULL
  <2>1. r = Linked(node.p, node.at, size)
    BY <1>8 DEF cw_palloc_large, q, node
  <2>2. /\ PoolOK(node.p) /\ q.held \subseteq node.p.held
        /\ node.at \in node.p.held /\ node.at.off % CW_ALIGNMENT = 0
    BY <1>4, <1>8 DEF Granted
  <2>3. node.at \in Extent
    BY <2>2 DEF PoolOK, PoolT
  <2> DEFINE l == Linked(node.p, node.at, size)
  <2>4. Granted(node.p, l, size, TRUE) /\ Lost(l.p) = Lost(node.p) - 1
    BY <2>2, <2>3, LinkedOK
  <2> HIDE DEF l
  <2>5. Lost(l.p) = Lost(p)
    BY <2>4, <1>1, <1>4, <1>5
  <2>6. Granted(p, l, size, TRUE)
    BY <2>2, <2>4, <1>1 DEF Granted
  <2>7. QED
    BY <2>1, <2>5, <2>6 DEF l
<1>9. QED
  BY <1>2, <1>6, <1>7, <1>8

\* cw_palloc keeps its promise for every request.
LEMMA PallocOK ==
  ASSUME NEW p, PoolOK(p), NEW size \in Nat \ {0}, NEW align \in BOOLEAN, NEW m \in Mallocs
  PROVE  LET r == cw_palloc(p, size, align, m)
         IN  Granted(p, r, size, align) /\ Lost(r.p) = Lost(p)
<1>1. m.chunk \in BOOLEAN
  BY DEF Mallocs
<1>2. CASE size <= PoolMax
  <2>1. size <= PoolSize - SizeofPool
    BY <1>2, SizesAssumption DEF PoolMax
  <2>2. QED
    BY <1>1, <1>2, <2>1, SmallOK DEF cw_palloc
<1>3. CASE ~(size <= PoolMax)
  <2> DEFINE r == cw_palloc_large(p, size, m)
  <2>1. Granted(p, r, size, TRUE) /\ Lost(r.p) = Lost(p)
    BY LargeOK
  <2>2. cw_palloc(p, size, align, m) = r
    BY <1>3 DEF cw_palloc
  <2> HIDE DEF r
  <2>3. QED
    BY <2>1, <2>2 DEF Granted
<1>4. QED
  BY <1>2, <1>3

----------------------------------------------------------------------------
(***************************************************************************)
(* Arrays.                                                                 *)
(***************************************************************************)

\* Moving the bump pointer of the first block, with other pieces held.
LEMMA WithHeldOK ==
  ASSUME NEW p, PoolOK(p), NEW l \in Nat, Header(1) <= l, l <= PoolSize,
         NEW H, H \subseteq Extent,
         \A e \in H : /\ e.len > 0
                      /\ e.blk = 1 => Header(1) <= e.off /\ e.off + e.len <= l
                      /\ e.blk # 1 => e \in p.held,
         \A e, f \in H : e # f => Disjoint(e, f)
  PROVE  LET q == WithHeld(p, l, H)
         IN  PoolOK(q) /\ Lost(q) = Lost(p) /\ q.held = H /\ q.last[1] = l
<1> DEFINE q    == WithHeld(p, l, H)
           last == [p.last EXCEPT ![1] = l]
<1>1. /\ p.last \in Seq(Nat) /\ p.failed \in Seq(Nat)
      /\ p.large \in Seq(Extent) /\ p.heap \in Int /\ p.current \in Nat
      /\ p.current \in 1 .. Len(p.last) /\ Len(p.last) \in Nat
  BY DEF PoolOK, PoolT
<1>2. 1 \in 1 .. Len(p.last)
  BY <1>1
<1>3. /\ last \in Seq(Nat)
      /\ Len(last) = Len(p.last)
      /\ last[1] = l
      /\ \A j \in 1 .. Len(p.last) : j # 1 => last[j] = p.last[j]
  BY <1>1, <1>2, Update
<1>4. q = cw_pool_t(last, p.failed, p.current, p.large, H, p.heap)
  BY DEF WithHeld
<1> HIDE DEF q, last
<1>5. /\ q.last = last /\ q.failed = p.failed /\ q.current = p.current
      /\ q.large = p.large /\ q.held = H /\ q.heap = p.heap
  BY <1>4 DEF cw_pool_t
<1>6. q \in PoolT
  BY <1>1, <1>3, <1>4 DEF PoolT, cw_pool_t
<1>7. ASSUME NEW j \in 1 .. Len(last)
      PROVE  Header(j) <= last[j] /\ last[j] <= PoolSize
  BY <1>3 DEF PoolOK
<1>8. ASSUME NEW e \in H
      PROVE  Placed(q, e)
  <2>1. CASE e.blk = 1
    BY <2>1, <1>2, <1>3, <1>5 DEF Placed, InBlock
  <2>2. CASE e.blk # 1
    <3>1. Placed(p, e) /\ e.blk \in Int
      BY <2>2 DEF PoolOK, Extent
    <3>2. CASE e.blk > 0
      <4>1. InBlock(p, e) /\ e.len > 0
        BY <3>1, <3>2 DEF Placed
      <4>2. e.blk \in 1 .. Len(p.last)
        BY <4>1, <3>1, <3>2, <1>1 DEF InBlock
      <4>3. InBlock(q, e)
        BY <4>1, <4>2, <2>2, <1>3, <1>5 DEF InBlock
      <4>4. QED
        BY <4>1, <4>3, <3>2 DEF Placed
    <3>3. CASE ~(e.blk > 0)
      BY <3>1, <3>3, <1>5 DEF Placed
    <3>4. QED
      BY <3>2, <3>3
  <2>3. QED
    BY <2>1, <2>2
<1>9. SearchOK(q)
  BY <1>3, <1>5 DEF PoolOK, SearchOK, Walked
<1>10. PoolOK(q)
  BY <1>3, <1>5, <1>6, <1>7, <1>8, <1>9 DEF PoolOK
<1>11. Lost(q) = Lost(p)
  BY <1>3, <1>5 DEF Lost
<1>12. QED
  BY <1>3, <1>5, <1>10, <1>11 DEF q

\* A piece at the end of the first block is the last one in it.
LEMMA LastPiece ==
  ASSUME NEW p, PoolOK(p), NEW ptr \in p.held, EndsAtLast(p, ptr, ptr.len),
         NEW e \in p.held, e # ptr, e.blk = 1
  PROVE  e.off + e.len <= ptr.off
<1>1. e \in Extent /\ ptr \in Extent
  BY DEF PoolOK, PoolT
<1>2. e.off \in Nat /\ e.len \in Nat /\ ptr.off \in Nat /\ ptr.len \in Nat
  BY <1>1 DEF Extent
<1>3. ptr.blk = 1 /\ ptr.off + ptr.len = p.last[1]
  BY DEF EndsAtLast
<1>4. e.len > 0 /\ e.off + e.len <= p.last[1]
  BY DEF PoolOK, Placed, InBlock
<1>5. e.off + e.len <= ptr.off \/ ptr.off + ptr.len <= e.off
  BY <1>3 DEF PoolOK, Disjoint
<1>6. QED
  BY <1>2, <1>3, <1>4, <1>5

\* The bump pointer of the first block, and the pieces in it.
LEMMA FirstBlock ==
  ASSUME NEW p, PoolOK(p)
  PROVE  /\ p.last[1] \in Nat /\ Header(1) <= p.last[1] /\ p.last[1] <= PoolSize
         /\ p.held \subseteq Extent
         /\ \A e \in p.held : e.len > 0
         /\ \A e \in p.held : e.blk = 1 => Header(1) <= e.off /\ e.off + e.len <= p.last[1]
<1>1. p.last \in Seq(Nat) /\ p.current \in 1 .. Len(p.last) /\ Len(p.last) \in Nat
  BY DEF PoolOK, PoolT
<1>2. 1 \in 1 .. Len(p.last)
  BY <1>1
<1>3. \A e \in p.held : Placed(p, e)
  BY DEF PoolOK
<1>4. QED
  BY <1>1, <1>2, <1>3 DEF PoolOK, PoolT, Placed, InBlock

\* Giving a piece up, as cw_array_destroy does.
LEMMA BackOK ==
  ASSUME NEW p, PoolOK(p), NEW ptr \in p.held
  PROVE  LET q == Back(p, ptr, ptr.len)
         IN  PoolOK(q) /\ Lost(q) = Lost(p) /\ q.held = p.held \ {ptr}
<1> DEFINE l == IF EndsAtLast(p, ptr, ptr.len) THEN p.last[1] - ptr.len ELSE p.last[1]
           H == p.held \ {ptr}
<1>1. Back(p, ptr, ptr.len) = WithHeld(p, l, H)
  BY DEF Back
<1>2. ptr \in Extent /\ ptr.off \in Nat /\ ptr.len \in Nat
  BY FirstBlock DEF Extent
<1>3. CASE EndsAtLast(p, ptr, ptr.len)
  <2>1. l = ptr.off /\ ptr.blk = 1
    BY <1>2, <1>3 DEF EndsAtLast
  <2>2. Header(1) <= ptr.off /\ ptr.off <= PoolSize
    BY <2>1, <1>2, <1>3, FirstBlock, HeaderFits DEF EndsAtLast
  <2> HIDE DEF l
  <2>3. \A e \in H : /\ e.len > 0
                     /\ e.blk = 1 => Header(1) <= e.off /\ e.off + e.len <= l
                     /\ e.blk # 1 => e \in p.held
    BY <2>1, <1>3, LastPiece, FirstBlock
  <2>4. \A e, f \in H : e # f => Disjoint(e, f)
    BY DEF PoolOK
  <2>5. l \in Nat /\ Header(1) <= l /\ l <= PoolSize /\ H \subseteq Extent
    BY <2>1, <2>2, <1>2, FirstBlock
  <2> HIDE DEF H
  <2>6. PoolOK(WithHeld(p, l, H)) /\ Lost(WithHeld(p, l, H)) = Lost(p) /\ WithHeld(p, l, H).held = H
    BY <2>3, <2>4, <2>5, WithHeldOK
  <2>7. QED
    BY <2>6, <1>1 DEF H
<1>4. CASE ~EndsAtLast(p, ptr, ptr.len)
  <2>1. l = p.last[1]
    BY <1>4
  <2> HIDE DEF l
  <2>2. \A e \in H : /\ e.len > 0
                     /\ e.blk = 1 => Header(1) <= e.off /\ e.off + e.len <= l
                     /\ e.blk # 1 => e \in p.held
    BY <2>1, FirstBlock
  <2>3. \A e, f \in H : e # f => Disjoint(e, f)
    BY DEF PoolOK
  <2>4. l \in Nat /\ Header(1) <= l /\ l <= PoolSize /\ H \subseteq Extent
    BY <2>1, FirstBlock
  <2> HIDE DEF H
  <2>5. PoolOK(WithHeld(p, l, H)) /\ Lost(WithHeld(p, l, H)) = Lost(p) /\ WithHeld(p, l, H).held = H
    BY <2>2, <2>3, <2>4, WithHeldOK
  <2>6. QED
    BY <2>5, <1>1 DEF H
<1>5. QED
  BY <1>3, <1>4

\* The size of an array's memory.
LEMMA Bytes ==
  ASSUME NEW n \in Nat \ {0}, NEW k \in Nat, NEW size \in Nat \ {0}
  PROVE  /\ n * size \in Nat \ {0} /\ k * size \in Nat
         /\ n * size = size * n
         /\ (n + k) * size = n * size + k * size
<1>1. /\ n * size = size * n
      /\ (n + k) * size = n * size + k * size
      /\ n * size \in Nat /\ k * size \in Nat
  OBVIOUS
<1>2. n * size # 0
  BY n > 0, size > 0
<1>3. QED
  BY <1>1, <1>2

\* What an operation on the array a owes the other arrays: their pieces stay
\* and none of them becomes a's.
ArrayStep(p, a, r) ==
  /\ PoolOK(r.p) /\ Lost(r.p) = Lost(p)
  /\ r.a \in ArrayT /\ r.a.nalloc # 0
  /\ ArrayOK(r.p, r.a)
  /\ p.held \ Owned(a) \subseteq r.p.held
  /\ \A e \in p.held \ Owned(a) : e \notin Owned(r.a)

\* Growing in place.
LEMMA ExtendedOK ==
  ASSUME NEW p, PoolOK(p), NEW a \in ArrayT, a.nalloc # 0, ArrayOK(p, a),
         NEW k \in Nat \ {0},
         EndsAtLast(p, a.elts, a.size * a.nalloc),
         p.last[1] + k * a.size <= PoolSize
  PROVE  ArrayStep(p, a, Extended(p, a, k))
<1> DEFINE b    == k * a.size
           elts == Piece(a.elts.blk, a.elts.off, a.elts.len + b)
           l    == p.last[1] + b
           H    == (p.held \ {a.elts}) \cup {elts}
           q    == WithHeld(p, l, H)
           c    == cw_array_t(a.hdr, elts, a.nelts + k, a.nalloc + k, a.size)
<1>1. /\ a.nalloc \in Nat \ {0} /\ a.size \in Nat \ {0} /\ a.nelts \in Nat
      /\ a.hdr \in Extent /\ a.elts \in Extent /\ a.nelts <= a.nalloc
      /\ a.hdr \in p.held /\ a.elts \in p.held /\ a.hdr # a.elts
      /\ a.elts.len = a.nalloc * a.size
  BY DEF ArrayT, ArrayOK
<1>2. /\ b \in Nat /\ a.size * a.nalloc = a.elts.len
      /\ (a.nalloc + k) * a.size = a.elts.len + b
  BY <1>1, Bytes
<1> HIDE DEF b
<1>3. /\ a.elts.blk = 1 /\ a.elts.off \in Nat /\ a.elts.len \in Nat
      /\ a.elts.off + a.elts.len = p.last[1]
      /\ EndsAtLast(p, a.elts, a.elts.len)
  BY <1>1, <1>2 DEF EndsAtLast, Extent
<1>4. /\ elts \in Extent /\ elts.blk = 1 /\ elts.off = a.elts.off
      /\ elts.len = a.elts.len + b
  BY <1>2, <1>3 DEF Piece, Extent
<1>5. Extended(p, a, k) = PushResult(q, c)
  BY DEF Extended, b
<1> HIDE DEF elts
<1>6. l \in Nat /\ Header(1) <= l /\ l <= PoolSize
  BY <1>2, FirstBlock, HeaderFits DEF b
<1>7. elts.len > 0 /\ Header(1) <= elts.off /\ elts.off + elts.len <= l
  <2>1. a.elts.len > 0 /\ Header(1) <= a.elts.off
    BY <1>1, <1>3, FirstBlock
  <2>2. QED
    BY <2>1, <1>2, <1>3, <1>4, FirstBlock
<1>8. ASSUME NEW e \in p.held, e # a.elts
      PROVE  /\ e.blk = 1 => Header(1) <= e.off /\ e.off + e.len <= l
             /\ Disjoint(e, elts) /\ Disjoint(elts, e)
             /\ e # elts /\ e.len > 0
  <2>1. e.off \in Nat /\ e.len \in Nat /\ e.len > 0
    BY FirstBlock DEF Extent
  <2>2. CASE e.blk = 1
    <3>1. e.off + e.len <= a.elts.off /\ Header(1) <= e.off
      BY <2>2, <1>1, <1>3, <1>8, LastPiece, FirstBlock
    <3>2. e.off + e.len <= l
      BY <3>1, <2>1, <1>2, <1>3
    <3>3. Disjoint(e, elts) /\ Disjoint(elts, e)
      BY <3>1, <1>4 DEF Disjoint
    <3>4. e # elts
      BY <3>1, <2>1, <1>3, <1>4
    <3>5. QED
      BY <3>1, <3>2, <3>3, <3>4, <2>1
  <2>3. CASE e.blk # 1
    BY <2>1, <2>3, <1>4 DEF Disjoint
  <2>4. QED
    BY <2>2, <2>3
<1> HIDE DEF l
<1>9. H \subseteq Extent
  BY <1>4, FirstBlock
<1>10. \A e \in H : /\ e.len > 0
                    /\ e.blk = 1 => Header(1) <= e.off /\ e.off + e.len <= l
                    /\ e.blk # 1 => e \in p.held
  BY <1>4, <1>7, <1>8
<1>11. \A e, f \in H : e # f => Disjoint(e, f)
  BY <1>8 DEF PoolOK
<1>12. \A e \in p.held \ Owned(a) : e \in H /\ e # elts /\ e # a.hdr
  BY <1>8 DEF Owned
<1>13. a.hdr \in H /\ elts \in H /\ a.hdr # elts
  BY <1>1, <1>8
<1> HIDE DEF H
<1>14. PoolOK(q) /\ Lost(q) = Lost(p) /\ q.held = H
  BY <1>6, <1>9, <1>10, <1>11, WithHeldOK
<1> HIDE DEF q
<1>15. /\ c.hdr = a.hdr /\ c.elts = elts /\ c.nelts = a.nelts + k
       /\ c.nalloc = a.nalloc + k /\ c.size = a.size /\ c \in ArrayT
  BY <1>1, <1>4 DEF cw_array_t, ArrayT
<1> HIDE DEF c
<1>16. c.nalloc # 0 /\ c.nelts <= c.nalloc /\ c.size > 0
  BY <1>1, <1>15
<1>17. elts.len = c.nalloc * c.size
  BY <1>2, <1>4, <1>15
<1>18. ArrayOK(q, c)
  BY <1>4, <1>13, <1>14, <1>15, <1>16, <1>17 DEF ArrayOK
<1>19. QED
  BY <1>5, <1>12, <1>14, <1>15, <1>16, <1>18 DEF ArrayStep, PushResult, Owned

\* Moving to a new allocation.
LEMMA MovedOK ==
  ASSUME NEW p, PoolOK(p), NEW a \in ArrayT, a.nalloc # 0, ArrayOK(p, a),
         NEW k \in Nat \ {0}, NEW n \in Nat \ {0}, a.nelts + k <= n,
         NEW r, Granted(p, r, n * a.size, TRUE), Lost(r.p) = Lost(p), r.at # NULL
  PROVE  ArrayStep(p, a, Moved(r.p, a, k, r.at, n))
<1> DEFINE H == r.p.held \ {a.elts}
           q == WithHeld(r.p, r.p.last[1], H)
           c == cw_array_t(a.hdr, r.at, a.nelts + k, n, a.size)
<1>1. /\ a.size \in Nat \ {0} /\ a.nelts \in Nat
      /\ a.hdr \in Extent
      /\ a.hdr \in p.held /\ a.elts \in p.held /\ a.hdr # a.elts
      /\ a.hdr.len = SizeofArray /\ a.hdr.off % CW_ALIGNMENT = 0
  BY DEF ArrayT, ArrayOK
<1>2. /\ PoolOK(r.p) /\ p.held \subseteq r.p.held
      /\ r.at \in r.p.held /\ r.at \notin p.held
      /\ r.at.len = n * a.size /\ r.at.off % CW_ALIGNMENT = 0
  BY DEF Granted
<1>3. \A e \in H : /\ e.len > 0
                   /\ e.blk = 1 => Header(1) <= e.off /\ e.off + e.len <= r.p.last[1]
                   /\ e.blk # 1 => e \in r.p.held
  BY <1>2, FirstBlock
<1>4. \A e, f \in H : e # f => Disjoint(e, f)
  BY <1>2 DEF PoolOK
<1>5. H \subseteq Extent /\ r.at \in Extent
  BY <1>2, FirstBlock
<1>6. a.hdr \in H /\ r.at \in H /\ a.hdr # r.at
  BY <1>1, <1>2
<1>7. \A e \in p.held \ Owned(a) : e \in H /\ e # r.at /\ e # a.hdr
  BY <1>2 DEF Owned
<1>8. Moved(r.p, a, k, r.at, n) = PushResult(q, c)
  BY DEF Moved
<1> HIDE DEF H
<1>9. PoolOK(q) /\ Lost(q) = Lost(p) /\ q.held = H
  BY <1>2, <1>3, <1>4, <1>5, FirstBlock, WithHeldOK
<1> HIDE DEF q
<1>10. /\ c.hdr = a.hdr /\ c.elts = r.at /\ c.nelts = a.nelts + k
       /\ c.nalloc = n /\ c.size = a.size /\ c \in ArrayT
  BY <1>1, <1>5 DEF cw_array_t, ArrayT
<1> HIDE DEF c
<1>11. c.nelts <= c.nalloc /\ c.size > 0 /\ c.nalloc # 0
  BY <1>1, <1>10
<1>12. ArrayOK(q, c)
  BY <1>1, <1>2, <1>6, <1>9, <1>10, <1>11 DEF ArrayOK
<1>13. QED
  BY <1>7, <1>8, <1>9, <1>10, <1>11, <1>12 DEF ArrayStep, PushResult, Owned

\* Room for k more elements, or none and an array as it was.
LEMMA GrownOK ==
  ASSUME NEW p, PoolOK(p), NEW a \in ArrayT, a.nalloc # 0, ArrayOK(p, a),
         NEW k \in Nat \ {0}, NEW n \in Nat \ {0}, a.nelts + k <= n, NEW m \in Mallocs
  PROVE  ArrayStep(p, a, Grown(p, a, k, n, m))
<1> DEFINE new == cw_palloc(p, n * a.size, TRUE, m)
<1>1. a.size \in Nat \ {0} /\ a.nalloc \in Nat
  BY DEF ArrayT, ArrayOK
<1>2. n * a.size \in Nat \ {0}
  BY <1>1, Bytes
<1>3. Granted(p, new, n * a.size, TRUE) /\ Lost(new.p) = Lost(p)
  BY <1>2, PallocOK
<1>4. CASE /\ EndsAtLast(p, a.elts, a.size * a.nalloc)
           /\ p.last[1] + k * a.size <= PoolSize
  BY <1>4, ExtendedOK DEF Grown
<1>5. CASE /\ ~(/\ EndsAtLast(p, a.elts, a.size * a.nalloc)
                /\ p.last[1] + k * a.size <= PoolSize)
           /\ new.at # NULL
  <2>1. Grown(p, a, k, n, m) = Moved(new.p, a, k, new.at, n)
    BY <1>5 DEF Grown
  <2> HIDE DEF new
  <2>2. QED
    BY <2>1, <1>3, <1>5, MovedOK
<1>6. CASE /\ ~(/\ EndsAtLast(p, a.elts, a.size * a.nalloc)
                /\ p.last[1] + k * a.size <= PoolSize)
           /\ new.at = NULL
  <2>1. Grown(p, a, k, n, m) = PushResult(new.p, a)
    BY <1>6 DEF Grown
  <2> HIDE DEF new
  <2>2. PoolOK(new.p) /\ p.held \subseteq new.p.held
    BY <1>3 DEF Granted
  <2>3. ArrayOK(new.p, a)
    BY <2>2 DEF ArrayOK
  <2>4. QED
    BY <2>1, <2>2, <2>3, <1>3 DEF ArrayStep, PushResult
<1>7. QED
  BY <1>4, <1>5, <1>6

\* cw_array_push and cw_array_push_n.
LEMMA PushOK ==
  ASSUME NEW p, PoolOK(p), NEW a \in ArrayT, a.nalloc # 0, ArrayOK(p, a), NEW m \in Mallocs
  PROVE  /\ ArrayStep(p, a, cw_array_push(p, a, m))
         /\ \A n \in Nat \ {0} : ArrayStep(p, a, cw_array_push_n(p, a, n, m))
<1>1. /\ a.nalloc \in Nat \ {0} /\ a.nelts \in Nat /\ a.nelts <= a.nalloc
      /\ a.size \in Nat /\ a.hdr \in Extent /\ a.elts \in Extent
  BY DEF ArrayT, ArrayOK
<1>2. ASSUME NEW k \in Nat \ {0}, a.nelts + k <= a.nalloc
      PROVE  ArrayStep(p, a, PushResult(p, Filled(a, k)))
  <2> DEFINE c == Filled(a, k)
  <2>1. /\ c.hdr = a.hdr /\ c.elts = a.elts /\ c.nelts = a.nelts + k
        /\ c.nalloc = a.nalloc /\ c.size = a.size
    BY DEF Filled, cw_array_t
  <2>2. c \in ArrayT
    BY <1>1 DEF Filled, cw_array_t, ArrayT
  <2> HIDE DEF c
  <2>3. ArrayOK(p, c)
    BY <2>1, <1>2 DEF ArrayOK
  <2>4. ArrayStep(p, a, PushResult(p, c))
    BY <2>1, <2>2, <2>3 DEF ArrayStep, PushResult, Owned
  <2>5. QED
    BY <2>4 DEF c
<1>3. ArrayStep(p, a, cw_array_push(p, a, m))
  <2>1. CASE a.nelts = a.nalloc
    <3>1. 2 * a.nalloc \in Nat \ {0} /\ a.nelts + 1 <= 2 * a.nalloc
      BY <1>1, <2>1
    <3>2. QED
      BY <3>1, <2>1, GrownOK DEF cw_array_push
  <2>2. CASE a.nelts # a.nalloc
    <3>1. a.nelts + 1 <= a.nalloc
      BY <1>1, <2>2
    <3>2. QED
      BY <3>1, <2>2, <1>2 DEF cw_array_push
  <2>3. QED
    BY <2>1, <2>2
<1>4. ASSUME NEW n \in Nat \ {0}
      PROVE  ArrayStep(p, a, cw_array_push_n(p, a, n, m))
  <2> DEFINE new == 2 * (IF n >= a.nalloc THEN n ELSE a.nalloc)
  <2>1. CASE a.nelts + n > a.nalloc
    <3>1. new \in Nat \ {0} /\ a.nelts + n <= new
      BY <1>1
    <3>2. cw_array_push_n(p, a, n, m) = Grown(p, a, n, new, m)
      BY <2>1 DEF cw_array_push_n
    <3> HIDE DEF new
    <3>3. QED
      BY <3>1, <3>2, GrownOK
  <2>2. CASE ~(a.nelts + n > a.nalloc)
    <3>1. a.nelts + n <= a.nalloc
      BY <1>1, <2>2
    <3>2. QED
      BY <3>1, <2>2, <1>2 DEF cw_array_push_n
  <2>3. QED
    BY <2>1, <2>2
<1>5. QED
  BY <1>3, <1>4

----------------------------------------------------------------------------
(***************************************************************************)
(* The specification.                                                      *)
(***************************************************************************)

\* No chunk is lost by a step that loses none.
LEMMA NothingLost ==
  ASSUME NEW p \in PoolT, NEW q \in PoolT, Lost(q) = Lost(p),
         p.heap = Len(p.last) + Len(p.large)
  PROVE  q.heap = Len(q.last) + Len(q.large)
<1>1. Len(p.last) \in Nat /\ Len(p.large) \in Nat
  BY DEF PoolT
<1>2. q.heap \in Int /\ Len(q.last) \in Nat /\ Len(q.large) \in Nat
  BY DEF PoolT
<1>3. Lost(p) = 0
  BY <1>1 DEF Lost
<1>4. q.heap - Len(q.last) - Len(q.large) = 0
  BY <1>3 DEF Lost
<1>5. \A a \in Int, b, c \in Nat : a - b - c = 0 => a = b + c
  OBVIOUS
<1>6. QED
  BY <1>2, <1>4, <1>5, Zenon

\* An allocation leaves every array as it was.
LEMMA AllocStep ==
  ASSUME IndInv, Exists, PoolOK(pool'), Lost(pool') = Lost(pool),
         pool.held \subseteq pool'.held, arrays' = arrays
  PROVE  IndInv'
<1>1. /\ pool \in PoolT /\ pool' \in PoolT /\ pool.heap = Len(pool.last) + Len(pool.large)
      /\ arrays \in [Arrays -> ArrayT]
  BY DEF IndInv, PoolOK
<1>2. pool'.heap = Len(pool'.last) + Len(pool'.large)
  BY <1>1, NothingLost
<1>3. Exists'
  BY DEF PoolOK, PoolT, Exists
<1>4. \A x \in Arrays : Live(x)' => ArrayOK(pool', arrays'[x])
  BY DEF IndInv, Live, ArrayOK
<1>5. \A x, y \in Arrays :
        x # y /\ Live(x)' /\ Live(y)' => Owned(arrays'[x]) \cap Owned(arrays'[y]) = {}
  BY DEF IndInv, Live
<1>6. QED
  BY <1>1, <1>2, <1>3, <1>4, <1>5 DEF IndInv

\* An operation on one array leaves every other array as it was.
LEMMA OneArrayStep ==
  ASSUME IndInv, NEW x \in Arrays, Live(x), NEW r, ArrayStep(pool, arrays[x], r),
         pool' = r.p, arrays' = [arrays EXCEPT ![x] = r.a]
  PROVE  IndInv'
<1>1. /\ pool \in PoolT /\ pool' \in PoolT /\ pool.heap = Len(pool.last) + Len(pool.large)
      /\ arrays \in [Arrays -> ArrayT] /\ Exists /\ PoolOK(pool')
  BY DEF IndInv, ArrayStep, PoolOK
<1>2. pool'.heap = Len(pool'.last) + Len(pool'.large)
  BY <1>1, NothingLost DEF ArrayStep
<1>3. Exists'
  BY <1>1 DEF PoolOK, PoolT, Exists
<1>4. /\ arrays' \in [Arrays -> ArrayT] /\ arrays'[x] = r.a
      /\ \A y \in Arrays : y # x => arrays'[y] = arrays[y]
  BY <1>1 DEF ArrayStep
<1>5. ArrayOK(pool', arrays'[x])
  BY <1>4 DEF ArrayStep
<1>6. ASSUME NEW y \in Arrays, y # x, Live(y)
      PROVE  /\ ArrayOK(pool', arrays[y])
             /\ Owned(arrays[y]) \cap Owned(r.a) = {}
  <2>1. ArrayOK(pool, arrays[y]) /\ Owned(arrays[y]) \cap Owned(arrays[x]) = {}
    BY <1>6 DEF IndInv
  <2>2. Owned(arrays[y]) \subseteq pool.held \ Owned(arrays[x])
    BY <2>1 DEF Owned, ArrayOK
  <2>3. Owned(arrays[y]) \subseteq pool'.held /\ Owned(arrays[y]) \cap Owned(r.a) = {}
    BY <2>2 DEF ArrayStep
  <2>4. QED
    BY <2>1, <2>3 DEF Owned, ArrayOK
<1>7. \A y \in Arrays : Live(y)' => ArrayOK(pool', arrays'[y])
  BY <1>4, <1>5, <1>6 DEF Live
<1>8. \A y, z \in Arrays :
        y # z /\ Live(y)' /\ Live(z)' => Owned(arrays'[y]) \cap Owned(arrays'[z]) = {}
  <2>1. SUFFICES ASSUME NEW y \in Arrays, NEW z \in Arrays, y # z, Live(y)', Live(z)'
                 PROVE  Owned(arrays'[y]) \cap Owned(arrays'[z]) = {}
    OBVIOUS
  <2>2. CASE y = x
    BY <2>1, <2>2, <1>4, <1>6 DEF Live
  <2>3. CASE z = x
    BY <2>1, <2>3, <1>4, <1>6 DEF Live
  <2>4. CASE y # x /\ z # x
    BY <2>1, <2>4, <1>4 DEF Live, IndInv
  <2>5. QED
    BY <2>2, <2>3, <2>4
<1>9. QED
  BY <1>1, <1>2, <1>3, <1>4, <1>7, <1>8 DEF IndInv

\* A new array owns a header and elements that nobody held before.
LEMMA NewArrayStep ==
  ASSUME IndInv, Exists, NEW x \in Arrays, ~Live(x),
         PoolOK(pool'), Lost(pool') = Lost(pool), pool.held \subseteq pool'.held,
         NEW a \in ArrayT, a.nalloc # 0, ArrayOK(pool', a),
         Owned(a) \cap pool.held = {},
         arrays' = [arrays EXCEPT ![x] = a]
  PROVE  IndInv'
<1>1. /\ pool \in PoolT /\ pool' \in PoolT /\ pool.heap = Len(pool.last) + Len(pool.large)
      /\ arrays \in [Arrays -> ArrayT]
  BY DEF IndInv, PoolOK
<1>2. pool'.heap = Len(pool'.last) + Len(pool'.large)
  BY <1>1, NothingLost
<1>3. Exists'
  BY DEF PoolOK, PoolT, Exists
<1>4. /\ arrays' \in [Arrays -> ArrayT] /\ arrays'[x] = a
      /\ \A y \in Arrays : y # x => arrays'[y] = arrays[y]
  BY <1>1
<1>5. ASSUME NEW y \in Arrays, y # x, Live(y)
      PROVE  /\ ArrayOK(pool', arrays[y])
             /\ Owned(arrays[y]) \cap Owned(a) = {}
  <2>1. ArrayOK(pool, arrays[y])
    BY <1>5 DEF IndInv
  <2>2. Owned(arrays[y]) \subseteq pool.held
    BY <2>1 DEF Owned, ArrayOK
  <2>3. ArrayOK(pool', arrays[y])
    BY <2>1 DEF ArrayOK
  <2>4. QED
    BY <2>2, <2>3
<1>6. \A y \in Arrays : Live(y)' => ArrayOK(pool', arrays'[y])
  BY <1>4, <1>5 DEF Live
<1>7. ASSUME NEW y \in Arrays, NEW z \in Arrays, y # z, Live(y)', Live(z)'
      PROVE  Owned(arrays'[y]) \cap Owned(arrays'[z]) = {}
  <2>1. CASE y = x
    BY <2>1, <1>4, <1>5, <1>7 DEF Live
  <2>2. CASE z = x
    BY <2>2, <1>4, <1>5, <1>7 DEF Live
  <2>3. CASE y # x /\ z # x
    BY <2>3, <1>4, <1>7 DEF Live, IndInv
  <2>4. QED
    BY <2>1, <2>2, <2>3
<1>8. QED
  BY <1>1, <1>2, <1>3, <1>4, <1>6, <1>7 DEF IndInv

\* cw_array_create, whether or not malloc fails.
LEMMA ArrayCreateStep ==
  ASSUME IndInv, NEW x \in Arrays, ArrayCreate(x)
  PROVE  IndInv'
<1>1. PICK n \in Counts, size \in ElemSizes, m1 \in Mallocs, m2 \in Mallocs :
        LET hdr == cw_palloc(pool, SizeofArray, TRUE, m1)
        IN  IF hdr.at = NULL
              THEN pool' = hdr.p /\ UNCHANGED arrays
              ELSE ArrayInit(x, hdr.p, hdr.at, n, size, m2)
  BY DEF ArrayCreate
<1> DEFINE hdr  == cw_palloc(pool, SizeofArray, TRUE, m1)
           elts == cw_palloc(hdr.p, n * size, TRUE, m2)
<1>2. Exists /\ PoolOK(pool) /\ ~Live(x)
  BY DEF ArrayCreate, MayAlloc, IndInv
<1>3. n \in Nat \ {0} /\ size \in Nat \ {0} /\ SizeofArray \in Nat \ {0}
  BY SizesAssumption
<1>4. n * size \in Nat \ {0}
  BY <1>3, Bytes
<1>5. Granted(pool, hdr, SizeofArray, TRUE) /\ Lost(hdr.p) = Lost(pool)
  BY <1>2, <1>3, PallocOK
<1> HIDE DEF hdr
<1>6. CASE hdr.at = NULL
  <2>1. pool' = hdr.p /\ arrays' = arrays
    BY <1>1, <1>6 DEF hdr
  <2>2. QED
    BY <2>1, <1>2, <1>5, AllocStep DEF Granted
<1>7. CASE hdr.at # NULL
  <2>1. ArrayInit(x, hdr.p, hdr.at, n, size, m2)
    BY <1>1, <1>7 DEF hdr
  <2>2. /\ PoolOK(hdr.p) /\ pool.held \subseteq hdr.p.held
        /\ hdr.at \in hdr.p.held /\ hdr.at \notin pool.held
        /\ hdr.at.len = SizeofArray /\ hdr.at.off % CW_ALIGNMENT = 0
    BY <1>5, <1>7 DEF Granted
  <2>3. Granted(hdr.p, elts, n * size, TRUE) /\ Lost(elts.p) = Lost(pool)
    BY <2>2, <1>4, <1>5, PallocOK
  <2>4. PoolOK(elts.p) /\ hdr.p.held \subseteq elts.p.held
    BY <2>3 DEF Granted
  <2>5. /\ pool' = elts.p
        /\ arrays' = IF elts.at = NULL
                       THEN arrays
                       ELSE [arrays EXCEPT ![x] = cw_array_t(hdr.at, elts.at, 0, n, size)]
    BY <2>1 DEF ArrayInit
  <2> HIDE DEF elts
  <2>6. PoolOK(pool') /\ Lost(pool') = Lost(pool) /\ pool.held \subseteq pool'.held
    BY <2>2, <2>3, <2>4, <2>5
  <2>7. CASE elts.at = NULL
    BY <2>5, <2>6, <2>7, <1>2, AllocStep
  <2>8. CASE elts.at # NULL
    <3> DEFINE a == cw_array_t(hdr.at, elts.at, 0, n, size)
    <3>1. /\ elts.at \in elts.p.held /\ elts.at \notin hdr.p.held
          /\ elts.at.len = n * size /\ elts.at.off % CW_ALIGNMENT = 0
      BY <2>3, <2>8 DEF Granted
    <3>2. hdr.at \in Extent /\ elts.at \in Extent
      BY <3>1, <2>2, <2>4, FirstBlock
    <3>3. /\ a.hdr = hdr.at /\ a.elts = elts.at /\ a.nelts = 0 /\ a.nalloc = n /\ a.size = size
          /\ a \in ArrayT
      BY <3>2, <1>3 DEF cw_array_t, ArrayT
    <3>4. arrays' = [arrays EXCEPT ![x] = a]
      BY <2>5, <2>8
    <3> HIDE DEF a
    <3>5. a.nalloc # 0 /\ a.nelts <= a.nalloc /\ a.size > 0
      BY <3>3, <1>3
    <3>6. ArrayOK(pool', a)
      BY <3>1, <3>3, <3>5, <2>2, <2>4, <2>5 DEF ArrayOK
    <3>7. Owned(a) \cap pool.held = {}
      BY <3>1, <3>3, <2>2 DEF Owned
    <3>8. QED
      BY <3>3, <3>4, <3>5, <3>6, <3>7, <2>6, <1>2, NewArrayStep
  <2>9. QED
    BY <2>7, <2>8
<1>8. QED
  BY <1>6, <1>7

\* cw_array_destroy gives both pieces of the array up, and no others.
LEMMA ArrayDestroyStep ==
  ASSUME IndInv, NEW x \in Arrays, ArrayDestroy(x)
  PROVE  IndInv'
<1> DEFINE a == arrays[x]
           q == Back(pool, a.elts, a.size * a.nalloc)
<1>1. /\ Exists /\ PoolOK(pool) /\ ArrayOK(pool, a) /\ Live(x)
      /\ pool \in PoolT /\ arrays \in [Arrays -> ArrayT]
      /\ pool.heap = Len(pool.last) + Len(pool.large)
  BY DEF ArrayDestroy, IndInv
<1>2. /\ a.nalloc \in Nat \ {0} /\ a.size \in Nat \ {0}
      /\ a.hdr \in pool.held /\ a.elts \in pool.held /\ a.hdr # a.elts
      /\ a.elts.len = a.nalloc * a.size /\ a.hdr.len = SizeofArray
  BY <1>1 DEF ArrayOK, ArrayT, Live
<1>3. a.size * a.nalloc = a.elts.len
  BY <1>2, Bytes
<1>4. /\ pool' = Back(q, a.hdr, SizeofArray)
      /\ arrays' = [arrays EXCEPT ![x] = NoArray]
  BY DEF ArrayDestroy, cw_array_destroy
<1> HIDE DEF a
<1>5. PoolOK(q) /\ Lost(q) = Lost(pool) /\ q.held = pool.held \ {a.elts}
  BY <1>1, <1>2, <1>3, BackOK
<1> HIDE DEF q
<1>6. PoolOK(pool') /\ Lost(pool') = Lost(pool) /\ pool'.held = pool.held \ Owned(a)
  <2>1. a.hdr \in q.held
    BY <1>2, <1>5
  <2>2. PoolOK(pool') /\ Lost(pool') = Lost(q) /\ pool'.held = q.held \ {a.hdr}
    BY <2>1, <1>2, <1>4, <1>5, BackOK
  <2>3. QED
    BY <2>2, <1>5 DEF Owned
<1>7. pool' \in PoolT /\ Exists'
  BY <1>6 DEF PoolOK, PoolT, Exists
<1>8. pool'.heap = Len(pool'.last) + Len(pool'.large)
  BY <1>1, <1>6, <1>7, NothingLost
<1>9. NoArray \in ArrayT /\ NoArray.nalloc = 0
  BY DEF NoArray, cw_array_t, NULL, Piece, ArrayT, Extent
<1>10. /\ arrays' \in [Arrays -> ArrayT] /\ ~Live(x)'
       /\ \A y \in Arrays : y # x => arrays'[y] = arrays[y]
  BY <1>1, <1>4, <1>9 DEF Live
<1>11. ASSUME NEW y \in Arrays, Live(y)'
       PROVE  ArrayOK(pool', arrays'[y])
  <2>1. y # x /\ arrays'[y] = arrays[y] /\ Live(y)
    BY <1>10, <1>11 DEF Live
  <2>2. ArrayOK(pool, arrays[y]) /\ Owned(arrays[y]) \cap Owned(a) = {}
    BY <2>1, <1>1 DEF IndInv, a
  <2>3. QED
    BY <2>1, <2>2, <1>6 DEF ArrayOK, Owned
<1>12. \A y, z \in Arrays :
         y # z /\ Live(y)' /\ Live(z)' => Owned(arrays'[y]) \cap Owned(arrays'[z]) = {}
  BY <1>10 DEF Live, IndInv
<1>13. QED
  BY <1>6, <1>7, <1>8, <1>10, <1>11, <1>12 DEF IndInv

\* The state without a pool, in the beginning and after cw_destroy_pool.
LEMMA EmptyOK ==
  ASSUME pool = NoPool, arrays = [x \in Arrays |-> NoArray]
  PROVE  IndInv
<1>1. NoArray \in ArrayT /\ NoArray.nalloc = 0
  BY DEF NoArray, cw_array_t, NULL, Piece, ArrayT, Extent
<1>2. /\ pool.last = <<>> /\ pool.large = <<>> /\ pool.heap = 0
      /\ pool \in PoolT
  BY DEF NoPool, cw_pool_t, PoolT
<1>3. arrays \in [Arrays -> ArrayT] /\ \A x \in Arrays : ~Live(x)
  BY <1>1 DEF Live
<1>4. ~Exists /\ pool.heap = Len(pool.last) + Len(pool.large)
  BY <1>2 DEF Exists
<1>5. QED
  BY <1>2, <1>3, <1>4 DEF IndInv

\* cw_create_pool.
LEMMA CreatePoolStep ==
  ASSUME IndInv, CreatePool
  PROVE  IndInv'
<1>1. PICK ok \in BOOLEAN :
        pool' = IF ok THEN cw_pool_t(<<SizeofPool>>, <<0>>, 1, <<>>, {}, pool.heap + 1)
                      ELSE pool
  BY DEF CreatePool
<1>2. pool = NoPool /\ arrays' = arrays /\ ~Exists
  BY DEF CreatePool, IndInv
<1>3. CASE ~ok
  BY <1>1, <1>2, <1>3 DEF IndInv, Exists, Live
<1>4. CASE ok
  <2>1. pool.heap = 0
    BY <1>2 DEF NoPool, cw_pool_t
  <2>2. /\ pool'.last = <<SizeofPool>> /\ pool'.failed = <<0>> /\ pool'.current = 1
        /\ pool'.large = <<>> /\ pool'.held = {} /\ pool'.heap = 1
    BY <1>1, <1>4, <2>1 DEF cw_pool_t
  <2>3. <<SizeofPool>> \in Seq(Nat) /\ <<0>> \in Seq(Nat)
    BY SizesAssumption
  <2>4. pool' \in PoolT
    BY <1>1, <1>4, <2>1, <2>3 DEF cw_pool_t, PoolT
  <2>5. /\ Len(pool'.last) = 1 /\ Len(pool'.failed) = 1 /\ Len(pool'.large) = 0
        /\ pool'.last[1] = SizeofPool /\ pool'.failed[1] = 0
    BY <2>2
  <2>6. Header(1) <= SizeofPool /\ SizeofPool <= PoolSize
    BY SizesAssumption, HeaderFits
  <2>7. SearchOK(pool')
    BY <2>2, <2>5 DEF SearchOK, Walked
  <2>8. PoolOK(pool')
    BY <2>2, <2>4, <2>5, <2>6, <2>7 DEF PoolOK
  <2>9. Exists' /\ pool'.heap = Len(pool'.last) + Len(pool'.large)
    BY <2>2, <2>5 DEF Exists
  <2>10. arrays' \in [Arrays -> ArrayT] /\ \A x \in Arrays : ~Live(x)'
    BY <1>2 DEF IndInv, Live
  <2>11. QED
    BY <2>4, <2>8, <2>9, <2>10 DEF IndInv
<1>5. QED
  BY <1>3, <1>4

\* Every operation of the callers.
LEMMA NextStep ==
  ASSUME IndInv, [Next]_vars
  PROVE  IndInv'
<1>1. CASE CreatePool
  BY <1>1, CreatePoolStep
<1>2. CASE Palloc
  <2>1. PICK size \in Sizes, align \in BOOLEAN, m \in Mallocs :
          pool' = cw_palloc(pool, size, align, m).p
    BY <1>2 DEF Palloc
  <2>2. Exists /\ PoolOK(pool) /\ arrays' = arrays /\ size \in Nat \ {0}
    BY <1>2, SizesAssumption DEF Palloc, MayAlloc, IndInv
  <2>3. /\ Granted(pool, cw_palloc(pool, size, align, m), size, align)
        /\ Lost(pool') = Lost(pool)
    BY <2>1, <2>2, PallocOK
  <2>4. QED
    BY <2>1, <2>2, <2>3, AllocStep DEF Granted
<1>3. ASSUME NEW x \in Arrays, ArrayCreate(x)
      PROVE  IndInv'
  BY <1>3, ArrayCreateStep
<1>4. ASSUME NEW x \in Arrays, ArrayPush(x) \/ ArrayPushN(x)
      PROVE  IndInv'
  <2>1. /\ Live(x) /\ PoolOK(pool) /\ ArrayOK(pool, arrays[x])
        /\ arrays[x] \in ArrayT /\ arrays[x].nalloc # 0
    BY <1>4 DEF ArrayPush, ArrayPushN, Live, IndInv
  <2>2. CASE ArrayPush(x)
    <3>1. PICK m \in Mallocs :
            LET r == cw_array_push(pool, arrays[x], m)
            IN  pool' = r.p /\ arrays' = [arrays EXCEPT ![x] = r.a]
      BY <2>2 DEF ArrayPush
    <3>2. ArrayStep(pool, arrays[x], cw_array_push(pool, arrays[x], m))
      BY <2>1, PushOK
    <3>3. QED
      BY <3>1, <3>2, <2>1, OneArrayStep
  <2>3. CASE ArrayPushN(x)
    <3>1. PICK n \in Counts, m \in Mallocs :
            LET r == cw_array_push_n(pool, arrays[x], n, m)
            IN  pool' = r.p /\ arrays' = [arrays EXCEPT ![x] = r.a]
      BY <2>3 DEF ArrayPushN
    <3>2. n \in Nat \ {0}
      BY SizesAssumption
    <3>3. ArrayStep(pool, arrays[x], cw_array_push_n(pool, arrays[x], n, m))
      BY <2>1, <3>2, PushOK
    <3>4. QED
      BY <3>1, <3>3, <2>1, OneArrayStep
  <2>4. QED
    BY <1>4, <2>2, <2>3
<1>5. ASSUME NEW x \in Arrays, ArrayDestroy(x)
      PROVE  IndInv'
  BY <1>5, ArrayDestroyStep
<1>6. CASE DestroyPool
  <2>1. pool.heap - Len(pool.large) - Len(pool.last) = 0
    <3>1. Len(pool.large) \in Nat /\ Len(pool.last) \in Nat
      BY DEF IndInv, PoolT
    <3>2. pool.heap = Len(pool.last) + Len(pool.large)
      BY DEF IndInv
    <3>3. QED
      BY <3>1, <3>2
  <2>2. pool' = Heap(NoPool, 0) /\ arrays' = [x \in Arrays |-> NoArray]
    BY <1>6, <2>1 DEF DestroyPool
  <2>3. pool' = NoPool
    BY <2>2 DEF Heap, NoPool, cw_pool_t
  <2>4. /\ NoArray \in ArrayT /\ NoArray.nalloc = 0
        /\ NoPool \in PoolT /\ NoPool.last = <<>> /\ NoPool.large = <<>> /\ NoPool.heap = 0
    BY DEF NoArray, cw_array_t, NULL, Piece, ArrayT, Extent, NoPool, cw_pool_t, PoolT
  <2>5. arrays' \in [Arrays -> ArrayT] /\ \A x \in Arrays : ~Live(x)'
    BY <2>2, <2>4 DEF Live
  <2>6. ~Exists'
    BY <2>3, <2>4 DEF Exists
  <2>7. pool'.heap = Len(pool'.last) + Len(pool'.large)
    BY <2>3, <2>4
  <2>8. QED
    BY <2>3, <2>4, <2>5, <2>6, <2>7 DEF IndInv
<1>7. CASE UNCHANGED vars
  BY <1>7 DEF vars, IndInv, Exists, Live
<1>8. QED
  BY <1>1, <1>2, <1>3, <1>4, <1>5, <1>6, <1>7 DEF Next

(***************************************************************************)
(* The pool, its callers and its arrays keep the inductive invariant,      *)
(* whatever is requested and whichever calls of malloc fail.               *)
(***************************************************************************)
THEOREM Invariance == Spec => []IndInv
<1>1. Init => IndInv
  BY EmptyOK DEF Init
<1>2. IndInv /\ [Next]_vars => IndInv'
  BY NextStep
<1>3. QED
  BY <1>1, <1>2, PTL DEF Spec

\* The pool and the arrays always have their types.
THEOREM TypeCorrect == Spec => []TypeOK
<1>1. IndInv => TypeOK
  <2>1. ASSUME IndInv, Exists
        PROVE  TypeOK
    BY <2>1 DEF IndInv, PoolOK, TypeOK
  <2>2. ASSUME IndInv, ~Exists
        PROVE  TypeOK
    BY <2>2 DEF IndInv, TypeOK, NoPool, cw_pool_t
  <2>3. QED
    BY <2>1, <2>2
<1>2. QED
  BY <1>1, Invariance, PTL

\* No byte of the pool is ever held by two callers.
THEOREM Separation == Spec => []NoOverlap
<1>1. IndInv => NoOverlap
  <2>1. ASSUME IndInv, Exists
        PROVE  NoOverlap
    BY <2>1 DEF IndInv, PoolOK, NoOverlap
  <2>2. ASSUME IndInv, ~Exists
        PROVE  NoOverlap
    BY <2>2 DEF IndInv, NoOverlap, NoPool, cw_pool_t
  <2>3. QED
    BY <2>1, <2>2
<1>2. QED
  BY <1>1, Invariance, PTL

\* Nobody is ever given memory outside a block, or the header of one.
THEOREM Containment == Spec => []InBounds
<1>1. IndInv => InBounds
  <2>1. ASSUME IndInv, Exists
        PROVE  InBounds
    BY <2>1 DEF IndInv, PoolOK, InBounds, Placed
  <2>2. ASSUME IndInv, ~Exists
        PROVE  InBounds
    <3>1. pool.held = {} /\ pool.last = <<>>
      BY <2>2 DEF IndInv, NoPool, cw_pool_t
    <3>2. QED
      BY <3>1 DEF InBounds
  <2>3. QED
    BY <2>1, <2>2
<1>2. QED
  BY <1>1, Invariance, PTL

\* No allocation ever searches more than seven blocks.
THEOREM BoundedSearch == Spec => []SearchBounded
<1>1. IndInv => SearchBounded
  BY DEF IndInv, PoolOK, SearchOK, SearchBounded
<1>2. QED
  BY <1>1, Invariance, PTL

\* No chunk of memory is ever lost, whichever calls of malloc fail.
THEOREM Leakless == Spec => []NoLeak
<1>1. IndInv => NoLeak
  BY DEF IndInv, NoLeak
<1>2. QED
  BY <1>1, Invariance, PTL

\* No array ever believes to have more room than it was given.
THEOREM ArraysFit == Spec => []ArrayFits
<1>1. ASSUME IndInv, NEW x \in Arrays, Live(x)
      PROVE  /\ arrays[x].elts \in pool.held
             /\ arrays[x].hdr \in pool.held
             /\ arrays[x].nelts <= arrays[x].nalloc
             /\ arrays[x].nalloc * arrays[x].size <= arrays[x].elts.len
  <2>1. ArrayOK(pool, arrays[x]) /\ arrays[x] \in ArrayT
    BY <1>1 DEF IndInv
  <2>2. arrays[x].elts.len \in Nat
    BY <2>1 DEF ArrayT, Extent
  <2>3. QED
    BY <2>1, <2>2 DEF ArrayOK
<1>2. IndInv => ArrayFits
  BY <1>1 DEF ArrayFits
<1>3. QED
  BY <1>2, Invariance, PTL

\* Whatever is read or written as a structure is aligned for it.
THEOREM Alignment == Spec => []Aligned
<1>1. ASSUME IndInv, Exists
      PROVE  Aligned
  BY <1>1 DEF IndInv, PoolOK, ArrayOK, Aligned
<1>2. ASSUME IndInv, ~Exists
      PROVE  Aligned
  <2>1. pool.large = <<>> /\ \A x \in Arrays : ~Live(x)
    BY <1>2 DEF IndInv, NoPool, cw_pool_t
  <2>2. QED
    BY <2>1 DEF Aligned
<1>3. QED
  BY <1>1, <1>2, Invariance, PTL

----------------------------------------------------------------------------
(***************************************************************************)
(* The pool keeps the promise of module Allocator.                         *)
(***************************************************************************)

\* What the pool's owners and the others have, in the terms of Allocator.
Memory == [x \in Arrays |-> OwnedBy(x)]
Shared == pool.held \ UNION {OwnedBy(x) : x \in Arrays}

\* No byte is in two pieces.
Separate ==
  /\ Memory \in [Arrays -> SUBSET Promise!Extent]
  /\ Shared \in SUBSET Promise!Extent
  /\ Promise!Exclusive(Memory, Shared)

----------------------------------------------------------------------------
(***************************************************************************)
(* What the pool's invariant says in the terms of Allocator.               *)
(***************************************************************************)

\* Whatever is owned is held.
LEMMA OwnedHeld ==
  ASSUME IndInv, NEW x \in Arrays
  PROVE  OwnedBy(x) \subseteq pool.held
<1>1. CASE Live(x)
  BY <1>1 DEF OwnedBy, Owned, IndInv, ArrayOK
<1>2. CASE ~Live(x)
  BY <1>2 DEF OwnedBy
<1>3. QED
  BY <1>1, <1>2

\* The invariant of the pool says that nobody shares a byte with anybody.
LEMMA SeparateOK == IndInv => Separate
<1>1. SUFFICES ASSUME IndInv
               PROVE  Separate
  OBVIOUS
<1>2. Promise!Extent = Extent
  BY DEF Promise!Extent, Extent
<1>3. pool.held \subseteq Extent
  BY <1>1 DEF IndInv, PoolT
<1>4. \A e, f \in pool.held : e # f => Disjoint(e, f)
  <2>1. CASE Exists
    BY <1>1, <2>1 DEF IndInv, PoolOK
  <2>2. CASE ~Exists
    BY <1>1, <2>2 DEF IndInv, NoPool, cw_pool_t
  <2>3. QED
    BY <2>1, <2>2
<1>5. \A x \in Arrays : OwnedBy(x) \subseteq pool.held
  BY <1>1, OwnedHeld
<1>6. Memory \in [Arrays -> SUBSET Promise!Extent] /\ Shared \in SUBSET Promise!Extent
  BY <1>2, <1>3, <1>5 DEF Memory, Shared
<1>7. \A x \in Arrays : Memory[x] \cap Shared = {}
  BY DEF Memory, Shared
<1>8. \A x, y \in Arrays : x # y => Memory[x] \cap Memory[y] = {}
  BY <1>1 DEF Memory, OwnedBy, IndInv
<1>9. Shared \cup UNION {Memory[x] : x \in Arrays} \subseteq pool.held
  BY <1>5 DEF Memory, Shared
<1>10. \A e, f \in Shared \cup UNION {Memory[x] : x \in Arrays} : e # f => Promise!Apart(e, f)
  BY <1>4, <1>9 DEF Disjoint, Promise!Apart
<1>11. QED
  BY <1>6, <1>7, <1>8, <1>10 DEF Separate, Promise!Exclusive

----------------------------------------------------------------------------
(***************************************************************************)
(* Steps of the pool as steps of the allocator.                            *)
(***************************************************************************)

\* A step in which nobody loses a piece and no array but x changes what it
\* owns serves x.
LEMMA ServeStep ==
  ASSUME Separate', NEW x \in Arrays,
         \A y \in Arrays : y # x => OwnedBy(y)' = OwnedBy(y),
         \A e \in pool.held : e \notin OwnedBy(x) => e \in pool'.held,
         \A e \in OwnedBy(x)' : e \in OwnedBy(x) \/ e \notin pool.held
  PROVE  Promise!Next
<1>1. \A e : e \in Shared <=> e \in pool.held /\ \A y \in Arrays : e \notin OwnedBy(y)
  BY DEF Shared
<1>2. \A e : e \in Shared' <=> e \in pool'.held /\ \A y \in Arrays : e \notin OwnedBy(y)'
  BY DEF Shared
<1>3. Shared \subseteq Shared'
  BY <1>1, <1>2
<1>4. \A y \in Arrays \ {x} : Memory'[y] = Memory[y]
  BY DEF Memory
<1>5. Promise!Serve(x)
  BY <1>3, <1>4 DEF Promise!Serve, Separate, Memory, Shared
<1>6. QED
  BY <1>5 DEF Promise!Next

\* A step that changes no array and takes nothing back allocates.
LEMMA AllocateStep ==
  ASSUME Separate', UNCHANGED arrays, pool.held \subseteq pool'.held
  PROVE  Promise!Next
<1>1. \A e : e \in Shared <=> e \in pool.held /\ \A y \in Arrays : e \notin OwnedBy(y)
  BY DEF Shared
<1>2. \A e : e \in Shared' <=> e \in pool'.held /\ \A y \in Arrays : e \notin OwnedBy(y)'
  BY DEF Shared
<1>3. \A x \in Arrays : OwnedBy(x)' = OwnedBy(x)
  BY DEF OwnedBy, Live
<1>4. Shared \subseteq Shared'
  BY <1>1, <1>2, <1>3
<1>5. Memory' = Memory
  BY <1>3 DEF Memory
<1>6. Promise!Allocate
  BY <1>4, <1>5 DEF Promise!Allocate, Separate, Memory, Shared
<1>7. QED
  BY <1>6 DEF Promise!Next

\* cw_array_create: the array owns two new pieces, or all that was handed out
\* is nobody's.
LEMMA ArrayCreateServes ==
  ASSUME IndInv, Separate', NEW x \in Arrays, ArrayCreate(x)
  PROVE  Promise!Next
<1>1. PICK n \in Counts, size \in ElemSizes, m1 \in Mallocs, m2 \in Mallocs :
        LET hdr == cw_palloc(pool, SizeofArray, TRUE, m1)
        IN  IF hdr.at = NULL
              THEN pool' = hdr.p /\ UNCHANGED arrays
              ELSE ArrayInit(x, hdr.p, hdr.at, n, size, m2)
  BY DEF ArrayCreate
<1> DEFINE hdr  == cw_palloc(pool, SizeofArray, TRUE, m1)
           elts == cw_palloc(hdr.p, n * size, TRUE, m2)
<1>2. PoolOK(pool)
  BY DEF ArrayCreate, MayAlloc, IndInv
<1>3. n \in Nat \ {0} /\ size \in Nat \ {0} /\ SizeofArray \in Nat \ {0}
  BY SizesAssumption
<1>4. n * size \in Nat \ {0}
  BY <1>3, Bytes
<1>5. Granted(pool, hdr, SizeofArray, TRUE)
  BY <1>2, <1>3, PallocOK
<1> HIDE DEF hdr
<1>6. CASE hdr.at = NULL
  <2>1. pool' = hdr.p /\ UNCHANGED arrays
    BY <1>1, <1>6 DEF hdr
  <2>2. QED
    BY <2>1, <1>5, AllocateStep DEF Granted
<1>7. CASE hdr.at # NULL
  <2>1. /\ PoolOK(hdr.p) /\ pool.held \subseteq hdr.p.held
        /\ hdr.at \notin pool.held
    BY <1>5, <1>7 DEF Granted
  <2>2. Granted(hdr.p, elts, n * size, TRUE)
    BY <2>1, <1>4, PallocOK
  <2>3. /\ pool' = elts.p
        /\ arrays' = IF elts.at = NULL
                       THEN arrays
                       ELSE [arrays EXCEPT ![x] = cw_array_t(hdr.at, elts.at, 0, n, size)]
    BY <1>1, <1>7 DEF ArrayInit, hdr
  <2> HIDE DEF elts
  <2>4. pool.held \subseteq pool'.held
    BY <2>1, <2>2, <2>3 DEF Granted
  <2>5. CASE elts.at = NULL
    BY <2>3, <2>4, <2>5, AllocateStep
  <2>6. CASE elts.at # NULL
    <3>1. elts.at \notin pool.held
      BY <2>1, <2>2, <2>6 DEF Granted
    <3>2. arrays \in [Arrays -> ArrayT]
      BY DEF IndInv
    <3>3. /\ arrays'[x].hdr = hdr.at /\ arrays'[x].elts = elts.at
          /\ \A y \in Arrays : y # x => arrays'[y] = arrays[y]
      BY <3>2, <2>3, <2>6 DEF cw_array_t
    <3>4. \A y \in Arrays : y # x => OwnedBy(y)' = OwnedBy(y)
      BY <3>3 DEF OwnedBy, Live
    <3>5. \A e \in OwnedBy(x)' : e \notin pool.held
      BY <3>1, <3>3, <2>1 DEF OwnedBy, Owned
    <3>6. QED
      BY <3>4, <3>5, <2>4, ServeStep
  <2>7. QED
    BY <2>5, <2>6
<1>8. QED
  BY <1>6, <1>7

\* cw_array_push and cw_array_push_n change what their own array has.
LEMMA PushServes ==
  ASSUME IndInv, Separate', NEW x \in Arrays, ArrayPush(x) \/ ArrayPushN(x)
  PROVE  Promise!Next
<1>1. /\ Live(x) /\ PoolOK(pool) /\ ArrayOK(pool, arrays[x])
      /\ arrays \in [Arrays -> ArrayT] /\ arrays[x].nalloc # 0
  BY DEF ArrayPush, ArrayPushN, Live, IndInv
<1>2. PICK r : /\ ArrayStep(pool, arrays[x], r)
               /\ pool' = r.p /\ arrays' = [arrays EXCEPT ![x] = r.a]
  <2>1. CASE ArrayPush(x)
    <3>1. PICK m \in Mallocs :
            LET r == cw_array_push(pool, arrays[x], m)
            IN  pool' = r.p /\ arrays' = [arrays EXCEPT ![x] = r.a]
      BY <2>1 DEF ArrayPush
    <3>2. ArrayStep(pool, arrays[x], cw_array_push(pool, arrays[x], m))
      BY <1>1, PushOK
    <3>3. QED
      BY <3>1, <3>2
  <2>2. CASE ArrayPushN(x)
    <3>1. PICK n \in Counts, m \in Mallocs :
            LET r == cw_array_push_n(pool, arrays[x], n, m)
            IN  pool' = r.p /\ arrays' = [arrays EXCEPT ![x] = r.a]
      BY <2>2 DEF ArrayPushN
    <3>2. n \in Nat \ {0}
      BY SizesAssumption
    <3>3. ArrayStep(pool, arrays[x], cw_array_push_n(pool, arrays[x], n, m))
      BY <1>1, <3>2, PushOK
    <3>4. QED
      BY <3>1, <3>3
  <2>3. QED
    BY <2>1, <2>2
<1>3. arrays'[x] = r.a /\ \A y \in Arrays : y # x => arrays'[y] = arrays[y]
  BY <1>1, <1>2
<1>4. \A y \in Arrays : y # x => OwnedBy(y)' = OwnedBy(y)
  BY <1>3 DEF OwnedBy, Live
<1>5. QED
  BY <1>1, <1>2, <1>3, <1>4, ServeStep DEF OwnedBy, ArrayStep

\* cw_array_destroy gives back what its own array has.
LEMMA ArrayDestroyServes ==
  ASSUME IndInv, Separate', NEW x \in Arrays, ArrayDestroy(x)
  PROVE  Promise!Next
<1> DEFINE a == arrays[x]
           q == Back(pool, a.elts, a.size * a.nalloc)
<1>1. PoolOK(pool) /\ ArrayOK(pool, a) /\ Live(x) /\ arrays \in [Arrays -> ArrayT]
  BY DEF ArrayDestroy, IndInv
<1>2. /\ a.nalloc \in Nat \ {0} /\ a.size \in Nat \ {0}
      /\ a.hdr \in pool.held /\ a.elts \in pool.held /\ a.hdr # a.elts
      /\ a.elts.len = a.nalloc * a.size /\ a.hdr.len = SizeofArray
  BY <1>1 DEF ArrayOK, ArrayT, Live
<1>3. a.size * a.nalloc = a.elts.len
  BY <1>2, Bytes
<1>4. /\ pool' = Back(q, a.hdr, SizeofArray)
      /\ arrays' = [arrays EXCEPT ![x] = NoArray]
  BY DEF ArrayDestroy, cw_array_destroy
<1> HIDE DEF a
<1>5. PoolOK(q) /\ q.held = pool.held \ {a.elts}
  BY <1>1, <1>2, <1>3, BackOK
<1> HIDE DEF q
<1>6. pool'.held = q.held \ {a.hdr}
  BY <1>2, <1>4, <1>5, BackOK
<1>7. OwnedBy(x) = {a.hdr, a.elts}
  BY <1>1 DEF OwnedBy, Owned, a
<1>8. OwnedBy(x)' = {} /\ \A y \in Arrays : y # x => OwnedBy(y)' = OwnedBy(y)
  BY <1>1, <1>4 DEF OwnedBy, Live, NoArray, cw_array_t
<1>9. QED
  BY <1>5, <1>6, <1>7, <1>8, ServeStep

\* cw_destroy_pool ends everything at once.
LEMMA DestroyPoolDestroys ==
  ASSUME DestroyPool
  PROVE  Promise!Next
<1>1. pool'.held = {} /\ arrays' = [x \in Arrays |-> NoArray]
  BY DEF DestroyPool, Heap, NoPool, cw_pool_t
<1>2. \A x \in Arrays : OwnedBy(x)' = {}
  BY <1>1 DEF OwnedBy, Live, NoArray, cw_array_t
<1>3. Memory' = [x \in Arrays |-> {}] /\ Shared' = {}
  BY <1>1, <1>2 DEF Memory, Shared
<1>4. Promise!Destroy
  BY <1>3 DEF Promise!Destroy, Memory, Shared
<1>5. QED
  BY <1>4 DEF Promise!Next

\* cw_create_pool hands nothing out, and a step that changes nothing does not.
LEMMA NothingServed ==
  ASSUME UNCHANGED arrays, pool'.held = pool.held
  PROVE  UNCHANGED <<Memory, Shared>>
<1>1. \A x \in Arrays : OwnedBy(x)' = OwnedBy(x)
  BY DEF OwnedBy, Live
<1>2. QED
  BY <1>1 DEF Memory, Shared

\* Every step of the pool is one that Allocator allows, or changes no memory.
LEMMA StepServes ==
  ASSUME IndInv, Separate', [Next]_vars
  PROVE  Promise!Next \/ UNCHANGED <<Memory, Shared>>
<1>1. CASE CreatePool
  <2>1. pool = NoPool /\ UNCHANGED arrays
    BY <1>1 DEF CreatePool, IndInv
  <2>2. pool'.held = pool.held
    BY <1>1, <2>1 DEF CreatePool, NoPool, cw_pool_t
  <2>3. QED
    BY <2>1, <2>2, NothingServed
<1>2. CASE Palloc
  <2>1. PICK size \in Sizes, align \in BOOLEAN, m \in Mallocs :
          pool' = cw_palloc(pool, size, align, m).p
    BY <1>2 DEF Palloc
  <2>2. PoolOK(pool) /\ UNCHANGED arrays /\ size \in Nat \ {0}
    BY <1>2, SizesAssumption DEF Palloc, MayAlloc, IndInv
  <2>3. Granted(pool, cw_palloc(pool, size, align, m), size, align)
    BY <2>2, PallocOK
  <2>4. QED
    BY <2>1, <2>2, <2>3, AllocateStep DEF Granted
<1>3. ASSUME NEW x \in Arrays, ArrayCreate(x)
      PROVE  Promise!Next
  BY <1>3, ArrayCreateServes
<1>4. ASSUME NEW x \in Arrays, ArrayPush(x) \/ ArrayPushN(x)
      PROVE  Promise!Next
  BY <1>4, PushServes
<1>5. ASSUME NEW x \in Arrays, ArrayDestroy(x)
      PROVE  Promise!Next
  BY <1>5, ArrayDestroyServes
<1>6. CASE DestroyPool
  BY <1>6, DestroyPoolDestroys
<1>7. CASE UNCHANGED vars
  BY <1>7, NothingServed DEF vars
<1>8. QED
  BY <1>1, <1>2, <1>3, <1>4, <1>5, <1>6, <1>7 DEF Next

(***************************************************************************)
(* Whatever sizes are requested, however often, and whichever calls of     *)
(* malloc fail: cw_palloc.c and cw_array.c implement Allocator, where a    *)
(* caller's memory is its own until the pool is destroyed.                 *)
(***************************************************************************)
THEOREM Refinement == Spec => Allocates
<1>1. Init => Promise!Init
  <2>1. SUFFICES ASSUME Init
                 PROVE  Promise!Init
    OBVIOUS
  <2>2. pool.held = {} /\ \A x \in Arrays : OwnedBy(x) = {}
    BY <2>1 DEF Init, NoPool, cw_pool_t, OwnedBy, Live, NoArray, cw_array_t
  <2>3. QED
    BY <2>2 DEF Promise!Init
<1>2. IndInv /\ Separate' /\ [Next]_vars => [Promise!Next]_<<Memory, Shared>>
  BY StepServes
<1>3. QED
  BY <1>1, <1>2, SeparateOK, Invariance, PTL
     DEF Spec, Allocates, Promise!Spec, Memory, Shared

=============================================================================
