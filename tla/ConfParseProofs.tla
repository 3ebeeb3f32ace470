-------------------------- MODULE ConfParseProofs --------------------------
(***************************************************************************)
(* Proofs about module ConfParse, for every set of commands, every file    *)
(* and parameter, and any depth of blocks and included files: files and    *)
(* buffers are given back (FilesClosed), braces match (BracesMatch) and    *)
(* the number of workers is the one that is configured (Configured).       *)
(***************************************************************************)
EXTENDS ConfParse, NatFacts, FiniteSetTheorems, SequenceTheorems

\* The parts of Chained.
Bottom == Level(0) = 0
Each(k) ==
  /\ Level(k) \in 1 .. Len(confs)
  /\ stack[k].type = "param" => k = 1
  /\ stack[k].type = "block" => Level(k) = Level(k - 1)
Ordered(j, k) == j < k => Level(j) <= Level(k) /\ (k \in FileCalls => Level(j) < Level(k))
Innermost(k) ==
  (\E j \in FileCalls : j <= k) => \E j \in FileCalls : j <= k /\ Level(j) = Level(k)

\* Chained, by its parts.
LEMMA ChainedParts ==
  Chained <=> /\ Bottom
              /\ \A k \in 1 .. Len(stack) : Each(k)
              /\ \A j, k \in 0 .. Len(stack) : Ordered(j, k)
              /\ \A k \in 1 .. Len(stack) : Innermost(k)
BY DEF Chained, Bottom, Each, Ordered, Innermost

\* Every level is a number.
LEMMA LevelNat ==
  ASSUME Typed
  PROVE  /\ Len(stack) \in Nat /\ Len(confs) \in Nat
         /\ \A k \in 0 .. Len(stack) : Level(k) \in Nat
         /\ \A k \in 1 .. Len(stack) : stack[k] \in Frame
         /\ Level(Len(stack)) = conf_file
<1>1. Len(stack) \in Nat /\ \A k \in 1 .. Len(stack) : stack[k] \in Frame
  BY DEF Typed
<1>2. ASSUME NEW k \in 0 .. Len(stack)
      PROVE  Level(k) \in Nat
  <2>1. CASE k = Len(stack)
    BY <2>1 DEF Level, Typed
  <2>2. CASE k # Len(stack)
    <3>1. k + 1 \in 1 .. Len(stack)
      BY <2>2, <1>1
    <3>2. stack[k + 1].prev \in Nat
      BY <3>1, <1>1 DEF Frame
    <3>3. QED
      BY <3>2, <2>2 DEF Level
  <2>3. QED
    BY <2>1, <2>2
<1>3. QED
  BY <1>1, <1>2 DEF Typed, Level

\* The calls that opened a file are finitely many.
LEMMA FileCallsFinite ==
  ASSUME Typed
  PROVE  FileCalls \subseteq 1 .. Len(stack) /\ IsFiniteSet(FileCalls)
<1>1. FileCalls \subseteq 1 .. Len(stack)
  BY DEF FileCalls
<1>2. IsFiniteSet(1 .. Len(stack))
  BY LevelNat, FS_Interval
<1>3. QED
  BY <1>1, <1>2, FS_Subset

----------------------------------------------------------------------------
(***************************************************************************)
(* A call and a return.                                                    *)
(***************************************************************************)

\* A call leaves the levels below it.
LEMMA PushLevels ==
  ASSUME Typed, NEW type \in {"param", "file", "block"}, Call(type)
  PROVE  /\ stack' \in Seq(Frame) /\ Len(stack') = Len(stack) + 1
         /\ \A k \in 1 .. Len(stack) : stack'[k] = stack[k]
         /\ stack'[Len(stack) + 1].type = type /\ stack'[Len(stack) + 1].prev = conf_file
         /\ \A k \in 0 .. Len(stack) : Level(k)' = Level(k)
         /\ (\A k : k = Len(stack) + 1 => Level(k)' = conf_file')
         /\ FileCalls' = FileCalls \cup (IF type = "file" THEN {Len(stack) + 1} ELSE {})
<1> DEFINE fr == [type |-> type, prev |-> conf_file, ctx |-> ctx]
<1>1. stack \in Seq(Frame) /\ Len(stack) \in Nat /\ fr \in Frame
  BY DEF Typed, Frame
<1>2. stack' = Append(stack, fr)
  BY DEF Call
<1>3. fr.type = type /\ fr.prev = conf_file
  OBVIOUS
<1> HIDE DEF fr
<1>4. /\ stack' \in Seq(Frame) /\ Len(stack') = Len(stack) + 1
      /\ \A k \in 1 .. Len(stack) : stack'[k] = stack[k]
      /\ stack'[Len(stack) + 1] = fr
  BY <1>1, <1>2
<1>5. ASSUME NEW k \in 0 .. Len(stack)
      PROVE  Level(k)' = Level(k)
  <2>1. Level(k)' = stack'[k + 1].prev
    BY <1>1, <1>4 DEF Level
  <2>2. CASE k = Len(stack)
    BY <2>1, <2>2, <1>3, <1>4 DEF Level
  <2>3. CASE k # Len(stack)
    <3>1. k + 1 \in 1 .. Len(stack)
      BY <2>3, <1>1
    <3>2. QED
      BY <3>1, <2>1, <2>3, <1>4 DEF Level
  <2>4. QED
    BY <2>2, <2>3
<1>6. (\A k : k = Len(stack) + 1 => Level(k)' = conf_file')
  BY <1>4 DEF Level
<1>7. FileCalls' = FileCalls \cup (IF type = "file" THEN {Len(stack) + 1} ELSE {})
  <2>1. FileCalls' = {k \in 1 .. Len(stack) + 1 : stack'[k].type = "file"}
    BY <1>4 DEF FileCalls
  <2>2. \A k : k \in 1 .. Len(stack) + 1 <=> k \in 1 .. Len(stack) \/ k = Len(stack) + 1
    BY <1>1
  <2>3. QED
    BY <2>1, <2>2, <1>3, <1>4 DEF FileCalls
<1>8. QED
  BY <1>3, <1>4, <1>5, <1>6, <1>7

\* So a call keeps the chain.
LEMMA PushChained ==
  ASSUME Typed, Chained, NEW type \in {"param", "file", "block"}, Call(type),
         Len(confs') \in Nat, Len(confs) <= Len(confs'),
         \/ type = "block" /\ stack # <<>> /\ conf_file' = conf_file
         \/ type = "file" /\ conf_file' = Len(confs) + 1 /\ conf_file' = Len(confs')
         \/ type = "param" /\ stack = <<>> /\ conf_file' = 1 /\ Len(confs') = 1
  PROVE  Chained'
<1> DEFINE N == Len(stack)
<1>1. /\ N \in Nat /\ Len(confs) \in Nat /\ stack \in Seq(Frame)
      /\ \A k \in 0 .. N : Level(k) \in Nat
      /\ Level(N) = conf_file
  BY LevelNat DEF Typed
<1>2. /\ Len(stack') = N + 1
      /\ \A k \in 1 .. N : stack'[k] = stack[k]
      /\ stack'[N + 1].type = type
      /\ \A k \in 0 .. N : Level(k)' = Level(k)
      /\ \A k : k = N + 1 => Level(k)' = conf_file'
      /\ FileCalls' = FileCalls \cup (IF type = "file" THEN {N + 1} ELSE {})
  BY PushLevels
<1>3. /\ Level(0) = 0
      /\ \A k \in 1 .. N : Each(k)
      /\ \A j, k \in 0 .. N : Ordered(j, k)
      /\ \A k \in 1 .. N : Innermost(k)
  BY ChainedParts DEF Bottom
<1>4. \A k \in 1 .. N : Level(k) \in 1 .. Len(confs)
  BY <1>3 DEF Each
<1>5. stack # <<>> => N >= 1
  BY <1>1
<1>6. stack = <<>> => N = 0
  OBVIOUS
<1>7. FileCalls \subseteq 1 .. N
  BY FileCallsFinite
<1> HIDE DEF N
<1>8. \A k \in 0 .. N : Level(k) <= Len(confs)
  BY <1>1, <1>3, <1>4
<1>9. conf_file' \in 1 .. Len(confs') /\ conf_file \in Nat
      /\ (type = "file" => conf_file < conf_file') /\ conf_file <= conf_file'
      /\ (type = "param" => N = 0) /\ (type = "block" => N >= 1 /\ conf_file' = conf_file)
  <2>1. conf_file \in Nat /\ conf_file <= Len(confs)
    BY <1>1, <1>8
  <2>2. CASE type = "block"
    <3>1. N >= 1 /\ N \in 1 .. N /\ conf_file' = conf_file
      BY <2>2, <1>1, <1>5
    <3>2. conf_file \in 1 .. Len(confs)
      BY <3>1, <1>1, <1>4
    <3>3. QED
      BY <2>2, <3>1, <3>2, <1>1
  <2>3. CASE type = "file"
    BY <2>1, <2>3, <1>1
  <2>4. CASE type = "param"
    <3>1. N = 0 /\ conf_file' = 1 /\ Len(confs') = 1
      BY <2>4, <1>6
    <3>2. conf_file = 0
      BY <3>1, <1>1, <1>3
    <3>3. QED
      BY <2>4, <3>1, <3>2
  <2>5. QED
    BY <2>2, <2>3, <2>4
<1>10. Bottom'
  BY <1>1, <1>2, <1>3 DEF Bottom
<1>11. ASSUME NEW k \in 1 .. N + 1
       PROVE  Each(k)'
  <2>1. CASE k \in 1 .. N
    <3>1. Level(k)' = Level(k) /\ Level(k - 1)' = Level(k - 1) /\ stack'[k] = stack[k]
      BY <2>1, <1>1, <1>2
    <3>2. Each(k) /\ Level(k) \in 1 .. Len(confs')
      BY <2>1, <1>1, <1>3, <1>4
    <3>3. QED
      BY <3>1, <3>2 DEF Each
  <2>2. CASE k = N + 1
    <3>1. Level(k)' = conf_file' /\ Level(k - 1)' = conf_file /\ stack'[k].type = type
      BY <2>2, <1>1, <1>2
    <3>2. QED
      BY <3>1, <2>2, <1>1, <1>9 DEF Each
  <2>3. QED
    BY <2>1, <2>2, <1>1
<1>12. ASSUME NEW j \in 0 .. N + 1, NEW k \in 0 .. N + 1, j < k
       PROVE  Level(j)' <= Level(k)' /\ (k \in FileCalls' => Level(j)' < Level(k)')
  <2>1. CASE k \in 0 .. N
    <3>1. j \in 0 .. N /\ (k \in FileCalls' => k \in FileCalls)
      BY <2>1, <1>12, <1>1, <1>2
    <3>2. Level(k)' = Level(k) /\ Level(j)' = Level(j)
      BY <2>1, <3>1, <1>2
    <3>3. Ordered(j, k)
      BY <2>1, <3>1, <1>3
    <3>4. QED
      BY <3>1, <3>2, <3>3, <1>12 DEF Ordered
  <2>2. CASE k = N + 1
    <3>1. j \in 0 .. N
      BY <2>2, <1>12, <1>1
    <3>2. Level(k)' = conf_file' /\ Level(j)' = Level(j) /\ Level(j) \in Nat
      BY <2>2, <3>1, <1>1, <1>2
    <3>3. Level(j) <= conf_file
      <4>1. CASE j = N
        BY <4>1, <1>1
      <4>2. CASE j # N
        <5>1. Ordered(j, N) /\ j < N
          BY <4>2, <3>1, <1>1, <1>3
        <5>2. QED
          BY <5>1, <1>1 DEF Ordered
      <4>3. QED
        BY <4>1, <4>2
    <3>4. k \in FileCalls' => type = "file"
      BY <2>2, <1>1, <1>2, <1>7
    <3>5. QED
      BY <3>2, <3>3, <3>4, <1>9
  <2>3. QED
    BY <2>1, <2>2, <1>1
<1>13. ASSUME NEW k \in 1 .. N + 1, NEW i \in FileCalls', i <= k
       PROVE  \E j \in FileCalls' : j <= k /\ Level(j)' = Level(k)'
  <2>1. CASE k \in 1 .. N
    <3>1. i \in FileCalls
      BY <2>1, <1>13, <1>1, <1>2
    <3>2. PICK j \in FileCalls : j <= k /\ Level(j) = Level(k)
      BY <3>1, <2>1, <1>13, <1>3 DEF Innermost
    <3>3. j \in FileCalls' /\ Level(j)' = Level(j) /\ Level(k)' = Level(k)
      BY <2>1, <1>1, <1>2, <1>7
    <3>4. QED
      BY <3>2, <3>3
  <2>2. CASE k = N + 1 /\ type = "file"
    <3>1. k \in FileCalls' /\ k <= k
      BY <2>2, <1>1, <1>2
    <3>2. QED
      BY <3>1
  <2>3. CASE k = N + 1 /\ type # "file"
    <3>1. i \in FileCalls /\ i \in 1 .. N /\ N \in 1 .. N
      BY <2>3, <1>1, <1>2, <1>7
    <3>2. PICK j \in FileCalls : j <= N /\ Level(j) = Level(N)
      BY <3>1, <1>3 DEF Innermost
    <3>3. type = "block" /\ conf_file' = conf_file
      BY <3>1, <2>3, <1>9
    <3>4. j \in FileCalls' /\ j <= k /\ Level(j)' = Level(j) /\ Level(k)' = Level(N)
      BY <2>3, <3>2, <3>3, <1>1, <1>2, <1>7
    <3>5. QED
      BY <3>2, <3>4
  <2>4. QED
    BY <2>1, <2>2, <2>3, <1>1
<1>14. Chained'
  <2>1. Len(stack') = N + 1
    BY <1>2
  <2>2. \A k \in 1 .. Len(stack') : Each(k)'
    BY <2>1, <1>11
  <2>3. \A j, k \in 0 .. Len(stack') : Ordered(j, k)'
    BY <2>1, <1>12 DEF Ordered
  <2>4. \A k \in 1 .. Len(stack') : Innermost(k)'
    BY <2>1, <1>13 DEF Innermost
  <2>5. QED
    BY <1>10, <2>2, <2>3, <2>4 DEF Chained, Bottom, Each, Ordered, Innermost
<1>15. QED
  BY <1>14

\* A return uncovers the level below it, as it was.
LEMMA PopLevels ==
  ASSUME Typed, Chained, stack # <<>>, stack' = Front(stack),
         conf_file' = CASE Top.type = "file"  -> Top.prev
                        [] Top.type = "param" -> 0
                        [] Top.type = "block" -> conf_file
  PROVE  /\ stack' \in Seq(Frame) /\ Len(stack) >= 1 /\ Len(stack') = Len(stack) - 1
         /\ \A k \in 1 .. Len(stack) - 1 : stack'[k] = stack[k]
         /\ \A k \in 0 .. Len(stack) - 1 : Level(k)' = Level(k)
         /\ FileCalls' = FileCalls \ {Len(stack)}
         /\ conf_file' \in Nat
<1> DEFINE N == Len(stack)
<1>1. /\ N \in Nat /\ stack \in Seq(Frame) /\ \A k \in 0 .. N : Level(k) \in Nat
      /\ \A k \in 1 .. N : stack[k] \in Frame
      /\ Level(N) = conf_file
  BY LevelNat DEF Typed
<1>2. N >= 1
  BY <1>1
<1>3. /\ stack' \in Seq(Frame) /\ Len(stack') = N - 1
      /\ \A k \in 1 .. N - 1 : stack'[k] = stack[k]
  <2>1. \A k \in 1 .. N - 1 : stack[k] \in Frame
    BY <1>1
  <2>2. /\ SubSeq(stack, 1, N - 1) \in Seq(Frame)
        /\ Len(SubSeq(stack, 1, N - 1)) = IF 1 <= N - 1 THEN (N - 1) - 1 + 1 ELSE 0
        /\ \A k \in 1 .. (N - 1) - 1 + 1 : SubSeq(stack, 1, N - 1)[k] = stack[1 + k - 1]
    BY <2>1, <1>1, SubSeqProperties
  <2>3. (N - 1) - 1 + 1 = N - 1 /\ \A k \in 1 .. N - 1 : 1 + k - 1 = k
    BY <1>1
  <2>4. stack' = SubSeq(stack, 1, N - 1)
    BY DEF Front
  <2> HIDE DEF N
  <2>5. QED
    BY <2>2, <2>3, <2>4, <1>1, <1>2
<1>4. Top = stack[N] /\ Top \in Frame
  BY <1>1, <1>2 DEF Top
<1>5. Level(N - 1) = stack[N].prev
  <2>1. N - 1 # Len(stack) /\ (N - 1) + 1 = N
    BY <1>1
  <2> HIDE DEF N
  <2>2. QED
    BY <2>1 DEF Level
<1>6. Each(N) /\ Level(0) = 0
  BY <1>1, <1>2, ChainedParts DEF Bottom
<1>7. conf_file' = Level(N - 1)
  <2>1. CASE Top.type = "file"
    BY <2>1, <1>4, <1>5
  <2>2. CASE Top.type = "param"
    <3>1. N = 1
      BY <2>2, <1>4, <1>6 DEF Each
    <3>2. conf_file' = 0
      BY <2>2
    <3>3. N - 1 = 0
      BY <3>1
    <3> HIDE DEF N
    <3>4. QED
      BY <3>2, <3>3, <1>6
  <2>3. CASE Top.type = "block"
    <3>1. Level(N) = Level(N - 1)
      BY <2>3, <1>4, <1>6 DEF Each
    <3>2. conf_file' = conf_file
      BY <2>3
    <3>3. QED
      BY <3>1, <3>2, <1>1, <1>2
  <2>4. QED
    BY <2>1, <2>2, <2>3, <1>4 DEF Frame
<1> HIDE DEF N
<1>8. ASSUME NEW k \in 0 .. N - 1
      PROVE  Level(k)' = Level(k)
  <2>1. CASE k = N - 1
    BY <2>1, <1>3, <1>7 DEF Level
  <2>2. CASE k # N - 1
    <3>1. k + 1 \in 1 .. N - 1 /\ k # N
      BY <2>2, <1>1
    <3>2. Level(k)' = stack'[k + 1].prev
      BY <2>2, <1>3 DEF Level
    <3>3. Level(k) = stack[k + 1].prev
      BY <3>1 DEF Level, N
    <3>4. QED
      BY <3>1, <3>2, <3>3, <1>3
  <2>3. QED
    BY <2>1, <2>2
<1>9. FileCalls' = FileCalls \ {N}
  <2>1. FileCalls' = {k \in 1 .. N - 1 : stack'[k].type = "file"}
    BY <1>3 DEF FileCalls
  <2>2. FileCalls = {k \in 1 .. N : stack[k].type = "file"}
    BY DEF FileCalls, N
  <2>3. \A k : k \in 1 .. N - 1 <=> k \in 1 .. N /\ k # N
    BY <1>1
  <2>4. QED
    BY <2>1, <2>2, <2>3, <1>3
<1>10. conf_file' \in Nat
  <2>1. N - 1 \in 0 .. N
    BY <1>1, <1>2
  <2>2. QED
    BY <2>1, <1>1, <1>7
<1>11. QED
  BY <1>2, <1>3, <1>8, <1>9, <1>10 DEF N

\* So a return keeps the chain.
LEMMA PopChained ==
  ASSUME Typed, Chained, stack # <<>>, stack' = Front(stack), confs' = confs,
         conf_file' = CASE Top.type = "file"  -> Top.prev
                        [] Top.type = "param" -> 0
                        [] Top.type = "block" -> conf_file
  PROVE  Chained'
<1> DEFINE N == Len(stack)
<1>1. /\ N \in Nat /\ N >= 1 /\ Len(stack') = N - 1
      /\ \A k \in 1 .. N - 1 : stack'[k] = stack[k]
      /\ \A k \in 0 .. N - 1 : Level(k)' = Level(k)
      /\ FileCalls' = FileCalls \ {N}
  BY LevelNat, PopLevels
<1>2. /\ Level(0) = 0
      /\ \A k \in 1 .. N : Each(k)
      /\ \A j, k \in 0 .. N : Ordered(j, k)
      /\ \A k \in 1 .. N : Innermost(k)
  BY ChainedParts DEF Bottom
<1>3. FileCalls \subseteq 1 .. N
  BY FileCallsFinite
<1> HIDE DEF N
<1>4. Bottom'
  BY <1>1, <1>2 DEF Bottom
<1>5. ASSUME NEW k \in 1 .. N - 1
      PROVE  Each(k)'
  <2>1. /\ Level(k)' = Level(k) /\ Level(k - 1)' = Level(k - 1) /\ stack'[k] = stack[k]
        /\ Each(k)
    BY <1>1, <1>2
  <2>2. QED
    BY <2>1 DEF Each
<1>6. ASSUME NEW j \in 0 .. N - 1, NEW k \in 0 .. N - 1
      PROVE  Ordered(j, k)'
  <2>1. /\ Level(k)' = Level(k) /\ Level(j)' = Level(j) /\ Ordered(j, k)
        /\ (k \in FileCalls' => k \in FileCalls)
    BY <1>1, <1>2
  <2>2. QED
    BY <2>1 DEF Ordered
<1>7. ASSUME NEW k \in 1 .. N - 1
      PROVE  Innermost(k)'
  <2>1. SUFFICES ASSUME NEW i \in FileCalls', i <= k
                 PROVE  \E j \in FileCalls' : j <= k /\ Level(j)' = Level(k)'
    BY DEF Innermost
  <2>2. i \in FileCalls /\ k \in 1 .. N
    BY <1>1
  <2>3. PICK j \in FileCalls : j <= k /\ Level(j) = Level(k)
    BY <2>1, <2>2, <1>2 DEF Innermost
  <2>4. j \in 0 .. N - 1 /\ j # N /\ k \in 0 .. N - 1
    BY <2>3, <1>1, <1>3
  <2>5. j \in FileCalls' /\ Level(j)' = Level(j) /\ Level(k)' = Level(k)
    BY <2>4, <1>1
  <2>6. QED
    BY <2>3, <2>5
<1>8. Len(stack') = N - 1
  BY <1>1
<1>9. QED
  BY <1>4, <1>5, <1>6, <1>7, <1>8 DEF Chained, Bottom, Each, Ordered, Innermost

\* Where nothing is called, nothing of it changes.
LEMMA KeepChained ==
  ASSUME Chained, UNCHANGED <<stack, conf_file>>, Len(confs') = Len(confs)
  PROVE  Chained' /\ FileCalls' = FileCalls /\ \A k : Level(k)' = Level(k)
<1>1. FileCalls' = FileCalls /\ \A k : Level(k)' = Level(k)
  BY DEF FileCalls, Level
<1>2. QED
  BY <1>1 DEF Chained

----------------------------------------------------------------------------
(***************************************************************************)
(* The files that are open.                                                *)
(***************************************************************************)

\* The innermost call's file is the last that was opened, and is open.
LEMMA Innermost1 ==
  ASSUME Typed, Chained, Held
  PROVE  /\ IsFiniteSet(fds) /\ fds \subseteq 1 .. Len(confs)
         /\ \A f \in fds : f <= conf_file
         /\ FileCalls # {} => conf_file \in fds
<1> DEFINE N == Len(stack)
<1>1. N \in Nat /\ Level(N) = conf_file /\ \A k \in 0 .. N : Level(k) \in Nat
  BY LevelNat
<1>2. FileCalls \subseteq 1 .. N /\ IsFiniteSet(FileCalls)
  BY FileCallsFinite
<1>3. /\ \A k \in 1 .. N : Each(k)
      /\ \A j, k \in 0 .. N : Ordered(j, k)
      /\ \A k \in 1 .. N : Innermost(k)
  BY ChainedParts
<1>4. fds = {Level(k) : k \in FileCalls}
  BY DEF Held
<1> HIDE DEF N
<1>5. fds \subseteq 1 .. Len(confs)
  BY <1>2, <1>3, <1>4 DEF Each
<1>6. IsFiniteSet(fds)
  <2>1. Len(confs) \in Nat
    BY LevelNat
  <2>2. IsFiniteSet(1 .. Len(confs))
    BY <2>1, FS_Interval
  <2>3. QED
    BY <2>2, <1>5, FS_Subset
<1>7. ASSUME NEW f \in fds
      PROVE  f <= conf_file
  <2>1. PICK k \in FileCalls : f = Level(k)
    BY <1>4
  <2>2. k \in 0 .. N /\ N \in 0 .. N
    BY <1>1, <1>2
  <2>3. k = N \/ k < N
    BY <2>2, <1>1
  <2>4. QED
    BY <2>1, <2>2, <2>3, <1>1, <1>3 DEF Ordered
<1>8. ASSUME NEW i \in FileCalls
      PROVE  conf_file \in fds
  <2>1. i <= N /\ N \in 1 .. N
    BY <1>1, <1>2
  <2>2. PICK j \in FileCalls : j <= N /\ Level(j) = Level(N)
    BY <2>1, <1>3 DEF Innermost
  <2>3. QED
    BY <2>2, <1>1, <1>4
<1>9. QED
  BY <1>5, <1>6, <1>7, <1>8

\* The files stay accounted for when no call is made and none returns ...
LEMMA KeepHeld ==
  ASSUME Held, FileCalls' = FileCalls, \A k : Level(k)' = Level(k),
         UNCHANGED <<fds, buffers>>, rv' # "error" => rv # "error"
  PROVE  Held'
BY DEF Held

\* ... when a call goes on with the parameter or with the file there is ...
LEMMA PushHeld ==
  ASSUME Typed, Chained, Held, NEW type \in {"param", "block"}, Call(type),
         UNCHANGED <<fds, buffers>>, rv' # "error" => rv # "error"
  PROVE  Held'
<1>1. /\ FileCalls' = FileCalls
      /\ \A k \in 0 .. Len(stack) : Level(k)' = Level(k)
      /\ FileCalls \subseteq 1 .. Len(stack) /\ Len(stack) \in Nat
  BY PushLevels, FileCallsFinite, LevelNat
<1>2. \A k \in FileCalls : Level(k)' = Level(k)
  BY <1>1
<1>3. QED
  BY <1>1, <1>2 DEF Held

\* ... when a call opens a file, with its buffer or without ...
LEMMA PushFileHeld ==
  ASSUME Typed, Chained, Held, Call("file"), conf_file' = Len(confs) + 1,
         fds' = fds \cup {Len(confs) + 1},
         \/ rv # "error" /\ buffers' = buffers \cup {Len(confs) + 1}
         \/ rv' = "error" /\ buffers' = buffers
  PROVE  Held'
<1> DEFINE n == Len(confs) + 1
           N == Len(stack)
<1>1. /\ FileCalls' = FileCalls \cup {N + 1}
      /\ \A k \in 0 .. N : Level(k)' = Level(k)
      /\ \A k : k = N + 1 => Level(k)' = n
      /\ FileCalls \subseteq 1 .. N /\ IsFiniteSet(FileCalls)
      /\ N \in Nat /\ Len(confs) \in Nat
  BY PushLevels, FileCallsFinite, LevelNat
<1>2. IsFiniteSet(fds) /\ fds \subseteq 1 .. Len(confs)
  BY Innermost1
<1> HIDE DEF N
<1>3. n \notin fds /\ N + 1 \notin FileCalls
  BY <1>1, <1>2
<1>4. Cardinality(fds') = Cardinality(fds) + 1
  BY <1>2, <1>3, FS_AddElement
<1>5. Cardinality(FileCalls') = Cardinality(FileCalls) + 1
  BY <1>1, <1>3, FS_AddElement
<1>6. \A k \in FileCalls : Level(k)' = Level(k)
  BY <1>1
<1> HIDE DEF n
<1>7. fds' = {Level(k)' : k \in FileCalls'}
  BY <1>1, <1>6 DEF Held, n
<1>8. QED
  BY <1>4, <1>5, <1>7 DEF Held, n

\* ... and when a call returns, which gives back what it had.
LEMMA PopHeld ==
  ASSUME Typed, Chained, Held, stack # <<>>, stack' = Front(stack),
         conf_file' = CASE Top.type = "file"  -> Top.prev
                        [] Top.type = "param" -> 0
                        [] Top.type = "block" -> conf_file,
         fds' = Released(fds), buffers' = Released(buffers),
         rv' # "error" => rv # "error"
  PROVE  Held'
<1> DEFINE N == Len(stack)
<1>1. /\ N \in Nat /\ N >= 1 /\ Level(N) = conf_file
      /\ \A k \in 0 .. N - 1 : Level(k)' = Level(k)
      /\ \A k \in 0 .. N : Level(k) \in Nat
      /\ FileCalls' = FileCalls \ {N}
      /\ FileCalls \subseteq 1 .. N /\ IsFiniteSet(FileCalls)
  BY PopLevels, FileCallsFinite, LevelNat
<1>2. IsFiniteSet(fds) /\ (FileCalls # {} => conf_file \in fds)
  BY Innermost1
<1>3. N \in FileCalls <=> Top.type = "file"
  BY <1>1 DEF Top, FileCalls
<1>4. \A j, k \in 0 .. N : Ordered(j, k)
  BY ChainedParts
<1> HIDE DEF N
<1>5. \A k \in FileCalls \ {N} : Level(k)' = Level(k)
  BY <1>1
<1>6. CASE Top.type = "file"
  <2>1. fds' = fds \ {conf_file} /\ buffers' = buffers \ {conf_file} /\ N \in FileCalls
    BY <1>6, <1>3 DEF Released
  <2>2. \A k \in FileCalls \ {N} : Level(k) # conf_file
    <3>1. SUFFICES ASSUME NEW k \in FileCalls \ {N}
                   PROVE  Level(k) # conf_file
      OBVIOUS
    <3>2. k \in 0 .. N /\ N \in 0 .. N /\ k < N
      BY <1>1
    <3>3. Level(k) < Level(N) /\ Level(k) \in Nat /\ Level(N) \in Nat
      BY <2>1, <3>2, <1>1, <1>4 DEF Ordered
    <3>4. QED
      BY <3>3, <1>1
  <2>3. fds' = {Level(k)' : k \in FileCalls'}
    BY <2>1, <2>2, <1>1, <1>5 DEF Held
  <2>4. Cardinality(fds') = Cardinality(fds) - 1
    BY <2>1, <1>2, FS_RemoveElement
  <2>5. Cardinality(FileCalls') = Cardinality(FileCalls) - 1
    BY <2>1, <1>1, FS_RemoveElement
  <2>6. QED
    BY <2>1, <2>3, <2>4, <2>5 DEF Held
<1>7. CASE Top.type # "file"
  <2>1. fds' = fds /\ buffers' = buffers /\ FileCalls' = FileCalls /\ N \notin FileCalls
    BY <1>7, <1>1, <1>3 DEF Released
  <2>2. \A k \in FileCalls : Level(k)' = Level(k)
    BY <2>1, <1>5
  <2>3. QED
    BY <2>1, <2>2 DEF Held
<1>8. QED
  BY <1>6, <1>7

\* What the invariant says of the files is FilesClosed.
LEMMA HeldClosed ==
  ASSUME Typed, Chained, Held, Begun
  PROVE  FilesClosed
<1>1. /\ fds \subseteq 1 .. Len(confs)
      /\ \A f \in fds : f <= conf_file
      /\ FileCalls # {} => conf_file \in fds
  BY Innermost1
<1>2. FileCalls # {} => conf_file = Max(fds)
  <2>1. SUFFICES ASSUME FileCalls # {}
                 PROVE  conf_file = Max(fds)
    OBVIOUS
  <2>2. conf_file \in fds /\ \A f \in fds : f <= conf_file
    BY <2>1, <1>1
  <2>3. Max(fds) \in fds /\ \A f \in fds : f <= Max(fds)
    BY <2>2 DEF Max
  <2>4. \A f \in fds : f \in Int
    BY <1>1
  <2>5. conf_file <= Max(fds) /\ Max(fds) <= conf_file
        /\ conf_file \in Int /\ Max(fds) \in Int
    BY <2>2, <2>3, <2>4, Zenon
  <2>6. QED
    BY <2>5
<1>3. stack = <<>> => conf_file = 0
  <2>1. stack = <<>> => Len(stack) = 0
    OBVIOUS
  <2>2. QED
    BY <2>1, LevelNat, ChainedParts DEF Bottom
<1>4. QED
  BY <1>2, <1>3 DEF FilesClosed, Held

----------------------------------------------------------------------------
(***************************************************************************)
(* The braces.                                                             *)
(***************************************************************************)
Matched(n) == Cardinality(OpenBlocks(n)) = Parsed(n) - Closed(n)

\* How many of a sequence are in a set.
Count(s, Q) == Cardinality({k \in 1 .. Len(s) : s[k] \in Q})

\* One more element counts if it is in the set.
LEMMA CountAppend ==
  ASSUME NEW S, NEW s \in Seq(S), NEW x \in S, NEW Q
  PROVE  /\ Count(s, Q) \in Nat
         /\ Count(Append(s, x), Q) = Count(s, Q) + (IF x \in Q THEN 1 ELSE 0)
<1> DEFINE A == {k \in 1 .. Len(s) : s[k] \in Q}
           B == {k \in 1 .. Len(Append(s, x)) : Append(s, x)[k] \in Q}
           N == Len(s)
<1>1. N \in Nat /\ Len(Append(s, x)) = N + 1
      /\ (\A k \in 1 .. N : Append(s, x)[k] = s[k]) /\ Append(s, x)[N + 1] = x
  OBVIOUS
<1>2. IsFiniteSet(1 .. N) /\ A \subseteq 1 .. N
  BY <1>1, FS_Interval
<1>3. IsFiniteSet(A)
  BY <1>2, FS_Subset
<1>4. Cardinality(A) \in Nat
  BY <1>3, FS_CardinalityType
<1>5. \A k : k \in 1 .. N + 1 <=> k \in 1 .. N \/ k = N + 1
  BY <1>1
<1>6. N + 1 \notin A
  BY <1>1
<1>7. B = IF x \in Q THEN A \cup {N + 1} ELSE A
  BY <1>1, <1>5
<1> HIDE DEF A, B, N
<1>8. Cardinality(B) = Cardinality(A) + (IF x \in Q THEN 1 ELSE 0)
  <2>1. CASE x \in Q
    BY <2>1, <1>3, <1>4, <1>6, <1>7, FS_AddElement
  <2>2. CASE x \notin Q
    BY <2>2, <1>4, <1>7
  <2>3. QED
    BY <2>1, <2>2
<1>9. QED
  BY <1>4, <1>8 DEF A, B, N, Count

\* The braces of a file that were seen, when another token is.
LEMMA SeenOne ==
  ASSUME NEW n, confs[n].seen \in Seq(Inputs), NEW x \in Inputs,
         confs'[n].seen = Append(confs[n].seen, x)
  PROVE  /\ Parsed(n) \in Nat /\ Closed(n) \in Nat
         /\ Parsed(n)' = Parsed(n) + (IF ParsesBlock(x) THEN 1 ELSE 0)
         /\ Closed(n)' = Closed(n) + (IF x.rc = "block_done" THEN 1 ELSE 0)
<1> DEFINE s == confs[n].seen
           P == {y \in Inputs : ParsesBlock(y)}
           D == {y \in Inputs : y.rc = "block_done"}
<1>1. /\ \A k \in 1 .. Len(s) : s[k] \in Inputs
      /\ \A k \in 1 .. Len(Append(s, x)) : Append(s, x)[k] \in Inputs
  OBVIOUS
<1>2. Parsed(n) = Count(s, P) /\ Closed(n) = Count(s, D)
  <2>1. {k \in 1 .. Len(s) : ParsesBlock(s[k])} = {k \in 1 .. Len(s) : s[k] \in P}
    BY <1>1
  <2>2. {k \in 1 .. Len(s) : s[k].rc = "block_done"} = {k \in 1 .. Len(s) : s[k] \in D}
    BY <1>1
  <2>3. QED
    BY <2>1, <2>2 DEF Parsed, Closed, Count
<1>3. Parsed(n)' = Count(Append(s, x), P) /\ Closed(n)' = Count(Append(s, x), D)
  <2>1. {k \in 1 .. Len(Append(s, x)) : ParsesBlock(Append(s, x)[k])}
          = {k \in 1 .. Len(Append(s, x)) : Append(s, x)[k] \in P}
    BY <1>1
  <2>2. {k \in 1 .. Len(Append(s, x)) : Append(s, x)[k].rc = "block_done"}
          = {k \in 1 .. Len(Append(s, x)) : Append(s, x)[k] \in D}
    BY <1>1
  <2>3. /\ Parsed(n)' = Cardinality({k \in 1 .. Len(Append(s, x)) : ParsesBlock(Append(s, x)[k])})
        /\ Closed(n)' = Cardinality({k \in 1 .. Len(Append(s, x)) :
                                       Append(s, x)[k].rc = "block_done"})
    BY DEF Parsed, Closed, ParsesBlock
  <2>4. QED
    BY <2>1, <2>2, <2>3 DEF Count
<1>4. (x \in P <=> ParsesBlock(x)) /\ (x \in D <=> x.rc = "block_done")
  OBVIOUS
<1> HIDE DEF s, P, D
<1>5. s \in Seq(Inputs)
  BY DEF s
<1>6. /\ Count(s, P) \in Nat
      /\ Count(Append(s, x), P) = Count(s, P) + (IF x \in P THEN 1 ELSE 0)
  BY <1>5, CountAppend
<1>7. /\ Count(s, D) \in Nat
      /\ Count(Append(s, x), D) = Count(s, D) + (IF x \in D THEN 1 ELSE 0)
  BY <1>5, CountAppend
<1>8. QED
  BY <1>2, <1>3, <1>4, <1>6, <1>7

\* And when none is.
LEMMA SeenNone ==
  ASSUME NEW n, confs'[n].seen = confs[n].seen
  PROVE  Parsed(n)' = Parsed(n) /\ Closed(n)' = Closed(n)
BY DEF Parsed, Closed, ParsesBlock

\* A file that is opened has none.
LEMMA SeenNew ==
  ASSUME NEW n, confs'[n].seen = <<>>
  PROVE  Parsed(n)' = 0 /\ Closed(n)' = 0
<1>1. /\ {k \in 1 .. Len(<<>>) : ParsesBlock(<<>>[k])} = {}
      /\ {k \in 1 .. Len(<<>>) : <<>>[k].rc = "block_done"} = {}
  OBVIOUS
<1>2. QED
  BY <1>1, FS_EmptySet DEF Parsed, Closed, ParsesBlock

\* What it means to take a token.
LEMMA TakenFacts ==
  ASSUME Typed, Chained, Reading
  PROVE  /\ conf_file \in 1 .. Len(confs) /\ t \in Inputs
         /\ \A n \in 1 .. Len(confs) : confs[n].seen \in Seq(Inputs)
         /\ Taken \in Seq(ConfFile) /\ Len(Taken) = Len(confs)
         /\ Taken[conf_file].seen = Append(confs[conf_file].seen, t)
         /\ \A n \in 1 .. Len(confs) : n # conf_file => Taken[n] = confs[n]
         /\ Skipped \in Seq(ConfFile) /\ Len(Skipped) = Len(confs)
         /\ \A n \in 1 .. Len(confs) : Skipped[n].seen = confs[n].seen
<1>1. /\ Len(stack) \in 1 .. Len(stack) /\ Len(confs) \in Nat
      /\ Level(Len(stack)) = conf_file
  BY LevelNat DEF Typed, Reading, Parsing
<1>2. conf_file \in 1 .. Len(confs)
  BY <1>1, ChainedParts DEF Each
<1>3. /\ confs \in Seq(ConfFile) /\ \A n \in 1 .. Len(confs) : confs[n] \in ConfFile
  BY DEF Typed
<1> DEFINE c == confs[conf_file]
           x == Head(c.unread)
           a == [seen |-> Append(c.seen, x), unread |-> Tail(c.unread)]
           b == [c EXCEPT !.unread = Tail(@)]
<1>4. c.seen \in Seq(Inputs) /\ c.unread \in Seq(Inputs) /\ c.unread # <<>>
  BY <1>2, <1>3 DEF Reading, ConfFile
<1>5. x \in Inputs /\ Tail(c.unread) \in Seq(Inputs) /\ Append(c.seen, x) \in Seq(Inputs)
  <2> HIDE DEF c
  <2>1. QED
    BY <1>4
<1>6. a \in ConfFile /\ a.seen = Append(c.seen, x)
  <2> HIDE DEF c, x
  <2>1. QED
    BY <1>5 DEF ConfFile
<1>7. b \in ConfFile /\ b.seen = c.seen
  <2>1. c \in ConfFile
    BY <1>2, <1>3
  <2> HIDE DEF c, x
  <2>2. QED
    BY <2>1, <1>5 DEF ConfFile
<1>8. Taken = [confs EXCEPT ![conf_file] = a] /\ Skipped = [confs EXCEPT ![conf_file] = b]
  BY DEF Taken, Skipped, t
<1>9. t = x
  BY DEF t
<1> HIDE DEF a, b, c, x
<1>10. /\ Taken \in Seq(ConfFile) /\ Len(Taken) = Len(confs) /\ Taken[conf_file] = a
       /\ \A n \in 1 .. Len(confs) : n # conf_file => Taken[n] = confs[n]
  BY <1>2, <1>3, <1>6, <1>8
<1>11. /\ Skipped \in Seq(ConfFile) /\ Len(Skipped) = Len(confs) /\ Skipped[conf_file] = b
       /\ \A n \in 1 .. Len(confs) : n # conf_file => Skipped[n] = confs[n]
  BY <1>2, <1>3, <1>7, <1>8
<1>12. \A n \in 1 .. Len(confs) : confs[n].seen \in Seq(Inputs)
  BY <1>3 DEF ConfFile
<1>13. QED
  BY <1>2, <1>5, <1>6, <1>7, <1>9, <1>10, <1>11, <1>12 DEF c

\* The blocks that are open are finitely many.
LEMMA BlocksFinite ==
  ASSUME Typed, NEW n
  PROVE  IsFiniteSet(OpenBlocks(n)) /\ Cardinality(OpenBlocks(n)) \in Nat
<1>1. OpenBlocks(n) \subseteq 1 .. Len(stack)
  BY DEF OpenBlocks
<1>2. IsFiniteSet(1 .. Len(stack))
  BY LevelNat, FS_Interval
<1>3. IsFiniteSet(OpenBlocks(n))
  BY <1>1, <1>2, FS_Subset
<1>4. QED
  BY <1>3, FS_CardinalityType

\* No call parses a block of a file that is not there yet.
LEMMA NoBlocks ==
  ASSUME Typed, Chained, NEW n, n = Len(confs) + 1
  PROVE  \A k \in 1 .. Len(stack) : stack[k].prev # n
<1>1. SUFFICES ASSUME NEW k \in 1 .. Len(stack)
               PROVE  stack[k].prev # n
  OBVIOUS
<1>2. Len(stack) \in Nat /\ Len(confs) \in Nat
  BY LevelNat
<1>3. k - 1 \in 0 .. Len(stack) /\ k - 1 # Len(stack) /\ (k - 1) + 1 = k
  BY <1>2
<1>4. Level(k - 1) = stack[k].prev
  BY <1>3 DEF Level
<1>5. k - 1 = 0 \/ k - 1 \in 1 .. Len(stack)
  BY <1>3
<1>6. Level(k - 1) <= Len(confs) /\ Level(k - 1) \in Nat
  BY <1>2, <1>5, ChainedParts DEF Bottom, Each
<1>7. QED
  BY <1>2, <1>4, <1>6

\* The block that is being parsed is one of cf->conf_file.
LEMMA TopBlock ==
  ASSUME Typed, Chained, stack # <<>>, Top.type = "block"
  PROVE  Top.prev = conf_file
<1> DEFINE N == Len(stack)
<1>1. N \in Nat /\ N \in 1 .. N /\ Level(N) = conf_file /\ Top = stack[N]
  BY LevelNat DEF Typed, Top
<1>2. N - 1 # Len(stack) /\ (N - 1) + 1 = N
  BY <1>1
<1>3. Each(N)
  BY <1>1, ChainedParts
<1> HIDE DEF N
<1>4. Level(N - 1) = stack[N].prev
  BY <1>2 DEF Level
<1>5. QED
  BY <1>1, <1>3, <1>4 DEF Each

\* A directive that is not for a block that is parsed leaves the count.
LEMMA OtherDirective ==
  ASSUME Typed, Directive, NEW set \in {"worker_processes", "http", "include"}, Runs(set)
  PROVE  ~ParsesBlock(t) /\ t.rc # "block_done"
<1>1. t.rc \in {"ok", "block"} /\ Accepted(t) /\ Chosen(t).set = set
  BY DEF Directive, Runs, Refused
<1>2. Candidates(t) # {} /\ Candidates(t) \subseteq 1 .. Len(Commands)
  BY <1>1 DEF Accepted, Candidates
<1>3. Candidates(t) \subseteq Nat
  BY <1>2, ConfParseAssumption
<1>4. Min(Candidates(t)) \in Candidates(t)
  BY <1>2, <1>3, MinOf
<1> DEFINE m == Min(Candidates(t))
<1> HIDE DEF m
<1>5. m \in 1 .. Len(Commands) /\ Commands[m].name = t.name /\ Commands[m].set = set
  BY <1>1, <1>2, <1>4 DEF Candidates, Chosen, m
<1>6. ASSUME NEW k \in 1 .. Len(Commands), Commands[k].name = t.name, Commands[k].set = "block"
      PROVE  FALSE
  <2>1. Commands[m].set = "block"
    BY <1>5, <1>6, ConfParseAssumption
  <2>2. QED
    BY <2>1, <1>5
<1>7. QED
  BY <1>1, <1>6 DEF ParsesBlock

\* And one that is for such a block counts.
LEMMA BlockDirective ==
  ASSUME Typed, Runs("block")
  PROVE  ParsesBlock(t) /\ t.rc = "block" /\ Chosen(t).inside \in Contexts
<1>1. t.rc \in {"ok", "block"} /\ Accepted(t) /\ Chosen(t).set = "block"
  BY DEF Directive, Runs, Refused
<1>2. Candidates(t) # {} /\ Candidates(t) \subseteq 1 .. Len(Commands)
  BY <1>1 DEF Accepted, Candidates
<1>3. Candidates(t) \subseteq Nat
  BY <1>2, ConfParseAssumption
<1>4. Min(Candidates(t)) \in Candidates(t)
  BY <1>2, <1>3, MinOf
<1> DEFINE m == Min(Candidates(t))
<1> HIDE DEF m
<1>5. m \in 1 .. Len(Commands) /\ Commands[m].name = t.name /\ Commands[m].set = "block"
      /\ Chosen(t) = Commands[m]
  BY <1>1, <1>2, <1>4 DEF Candidates, Chosen, m
<1>6. Commands[m].block
  BY <1>5, ConfParseAssumption
<1>7. t.rc = "block"
  BY <1>1, <1>5, <1>6 DEF Accepted, Terminated
<1>8. QED
  BY <1>5, <1>7 DEF ParsesBlock, Contexts

\* The braces seen of each file when a token is taken.
LEMMA TakenSeen ==
  ASSUME Typed, Chained, Reading, NEW n \in 1 .. Len(confs), confs'[n] = Taken[n]
  PROVE  /\ Parsed(n) \in Nat /\ Closed(n) \in Nat
         /\ Parsed(n)' = Parsed(n) + (IF n = conf_file /\ ParsesBlock(t) THEN 1 ELSE 0)
         /\ Closed(n)' = Closed(n) + (IF n = conf_file /\ t.rc = "block_done" THEN 1 ELSE 0)
<1>1. /\ t \in Inputs /\ confs[n].seen \in Seq(Inputs)
      /\ Taken[conf_file].seen = Append(confs[conf_file].seen, t)
      /\ n # conf_file => Taken[n] = confs[n]
  BY TakenFacts
<1>2. Parsed(n) \in Nat /\ Closed(n) \in Nat
  <2>1. {k \in 1 .. Len(confs[n].seen) : ParsesBlock(confs[n].seen[k])}
          \subseteq 1 .. Len(confs[n].seen)
    OBVIOUS
  <2>2. {k \in 1 .. Len(confs[n].seen) : confs[n].seen[k].rc = "block_done"}
          \subseteq 1 .. Len(confs[n].seen)
    OBVIOUS
  <2>3. IsFiniteSet(1 .. Len(confs[n].seen))
    <3>1. Len(confs[n].seen) \in Int /\ 1 \in Int
      BY <1>1
    <3>2. QED
      BY <3>1, FS_Interval, Zenon
  <2>4. QED
    BY <2>1, <2>2, <2>3, FS_Subset, FS_CardinalityType DEF Parsed, Closed
<1>3. CASE n = conf_file
  <2>1. confs'[n].seen = Append(confs[n].seen, t)
    BY <1>1, <1>3
  <2>2. /\ Parsed(n)' = Parsed(n) + (IF ParsesBlock(t) THEN 1 ELSE 0)
        /\ Closed(n)' = Closed(n) + (IF t.rc = "block_done" THEN 1 ELSE 0)
    <3> DEFINE x == t
    <3>1. x \in Inputs /\ confs'[n].seen = Append(confs[n].seen, x)
      BY <1>1, <2>1
    <3> HIDE DEF x
    <3>2. /\ Parsed(n)' = Parsed(n) + (IF ParsesBlock(x) THEN 1 ELSE 0)
          /\ Closed(n)' = Closed(n) + (IF x.rc = "block_done" THEN 1 ELSE 0)
      BY <1>1, <3>1, SeenOne
    <3>3. QED
      BY <3>2 DEF x
  <2>3. QED
    BY <2>2, <1>2, <1>3
<1>4. CASE n # conf_file
  <2>1. confs'[n].seen = confs[n].seen
    BY <1>1, <1>4
  <2>2. Parsed(n)' = Parsed(n) /\ Closed(n)' = Closed(n)
    BY <2>1, SeenNone
  <2>3. QED
    BY <2>2, <1>2, <1>4
<1>5. QED
  BY <1>3, <1>4

\* A token that is no brace leaves every file matched.
LEMMA PlainMatched ==
  ASSUME Typed, Chained, Reading, NEW n \in 1 .. Len(confs), confs'[n] = Taken[n],
         ~ParsesBlock(t), t.rc # "block_done", OpenBlocks(n)' = OpenBlocks(n), Matched(n)
  PROVE  Matched(n)'
<1>1. Parsed(n)' = Parsed(n) /\ Closed(n)' = Closed(n)
  BY TakenSeen
<1>2. QED
  BY <1>1 DEF Matched

\* The steps that call nothing and return from nothing.
LEMMA KeepInv ==
  ASSUME IndInv, UNCHANGED <<stack, conf_file, fds, buffers, ctx>>,
         confs' \in Seq(ConfFile), Len(confs') = Len(confs),
         rv' \in {"parsing", "ok", "error"}, stage' \in {"param", "file", "done"},
         rv' # "error" => rv # "error", rv' = "parsing" => stack # <<>>,
         stage' = "done" => stack = <<>>, Paired'
  PROVE  IndInv'
<1>1. Typed'
  BY DEF IndInv, Typed
<1>2. Chained' /\ FileCalls' = FileCalls /\ \A k : Level(k)' = Level(k)
  BY KeepChained DEF IndInv
<1>3. Held'
  BY <1>2, KeepHeld DEF IndInv
<1>4. Begun'
  BY DEF Begun
<1>5. QED
  BY <1>1, <1>2, <1>3, <1>4 DEF IndInv

\* With an error there is nothing to say of the braces.
LEMMA ErrorBraces == rv' = "error" => Paired'
BY DEF Paired

\* A file is opened: OpenFile, for what is left of the files there are.
LEMMA OpenFileInv ==
  ASSUME IndInv, NEW cs \in Seq(ConfFile), Len(cs) = Len(confs), OpenFile(cs),
         rv # "error", ctx' = ctx, stage' \in {"param", "file"},
         \A n \in 1 .. Len(confs) : confs'[n] = cs[n] => Parsed(n)' = Parsed(n) /\ Closed(n)' = Closed(n),
         rv = "parsing" \/ stack = <<>>
  PROVE  IndInv'
<1>1. PICK f \in Files, ok \in {TRUE, ~Failures} :
        /\ Call("file")
        /\ confs' = Append(cs, [seen |-> <<>>, unread |-> f])
        /\ conf_file' = Len(cs) + 1
        /\ fds' = fds \cup {Len(cs) + 1}
        /\ buffers' = IF ok THEN buffers \cup {Len(cs) + 1} ELSE buffers
        /\ rv' = IF ok THEN "parsing" ELSE "error"
  BY DEF OpenFile
<1>2. Typed /\ Chained /\ Held /\ Begun /\ Paired
  BY DEF IndInv
<1>3. Len(confs) \in Nat /\ Len(stack) \in Nat
  BY <1>2, LevelNat
<1> DEFINE new == [seen |-> <<>>, unread |-> f]
<1>4. new \in ConfFile /\ new.seen = <<>>
  <2>1. f \in Seq(Range(f))
    BY ConfParseAssumption
  <2>2. Range(f) \subseteq Inputs
    BY DEF Inputs
  <2>3. f \in Seq(Inputs)
    BY <2>1, <2>2, SeqMonotonic
  <2>4. <<>> \in Seq(Inputs)
    OBVIOUS
  <2>5. QED
    BY <2>3, <2>4 DEF ConfFile
<1>5. confs' = Append(cs, new)
  BY <1>1
<1> HIDE DEF new
<1>6. /\ confs' \in Seq(ConfFile) /\ Len(confs') = Len(confs) + 1
      /\ \A n \in 1 .. Len(confs) : confs'[n] = cs[n]
      /\ confs'[Len(confs) + 1] = new
  BY <1>4, <1>5
<1>7. /\ stack' \in Seq(Frame) /\ Len(stack') = Len(stack) + 1
      /\ \A k \in 1 .. Len(stack) : stack'[k] = stack[k]
      /\ stack'[Len(stack) + 1].type = "file"
  BY <1>1, <1>2, PushLevels
<1>8. Typed'
  <2>1. conf_file' \in Nat /\ rv' \in {"parsing", "error"}
    BY <1>1, <1>3
  <2>2. QED
    BY <2>1, <1>2, <1>6, <1>7 DEF Typed
<1>9. Chained'
  <2>1. /\ Len(confs') \in Nat /\ Len(confs) <= Len(confs')
        /\ conf_file' = Len(confs) + 1 /\ conf_file' = Len(confs')
    BY <1>1, <1>3, <1>6
  <2>2. QED
    BY <2>1, <1>1, <1>2, PushChained
<1>10. Held'
  <2>1. /\ conf_file' = Len(confs) + 1 /\ fds' = fds \cup {Len(confs) + 1}
        /\ \/ buffers' = buffers \cup {Len(confs) + 1}
           \/ rv' = "error" /\ buffers' = buffers
    BY <1>1
  <2>2. QED
    BY <2>1, <1>1, <1>2, PushFileHeld
<1>11. Begun'
  <2>1. stack' # <<>>
    <3>1. Len(<<>>) = 0
      OBVIOUS
    <3>2. QED
      BY <3>1, <1>3, <1>7
  <2>2. QED
    BY <2>1, <1>1 DEF Begun
<1>12. ASSUME rv' # "error", NEW n \in 1 .. Len(confs')
       PROVE  Matched(n)'
  <2>1. rv' = "parsing"
    BY <1>1, <1>12
  <2>2. OpenBlocks(n)' = {k \in 1 .. Len(stack) : stack[k].type = "block" /\ stack[k].prev = n}
    <3>1. OpenBlocks(n)'
            = {k \in 1 .. Len(stack') : stack'[k].type = "block" /\ stack'[k].prev = n}
      BY <2>1 DEF OpenBlocks
    <3>2. \A k : k \in 1 .. Len(stack') <=> k \in 1 .. Len(stack) \/ k = Len(stack) + 1
      BY <1>3, <1>7
    <3>3. QED
      BY <3>1, <3>2, <1>7
  <2>3. CASE n = Len(confs) + 1
    <3>1. \A k \in 1 .. Len(stack) : stack[k].prev # n
      BY <2>3, <1>2, NoBlocks
    <3>2. OpenBlocks(n)' = {}
      BY <3>1, <2>2
    <3>3. confs'[n].seen = <<>>
      BY <2>3, <1>4, <1>6
    <3>4. Parsed(n)' = 0 /\ Closed(n)' = 0
      BY <3>3, SeenNew
    <3>5. Cardinality({}) = 0 /\ 0 - 0 = 0
      BY FS_EmptySet
    <3>6. QED
      BY <3>2, <3>4, <3>5, Zenon DEF Matched
  <2>4. CASE n \in 1 .. Len(confs)
    <3>1. Parsed(n)' = Parsed(n) /\ Closed(n)' = Closed(n)
      BY <2>4, <1>6
    <3>2. OpenBlocks(n)' = OpenBlocks(n) /\ rv \in {"none", "parsing", "ok"}
      <4>1. CASE rv = "parsing"
        BY <4>1, <2>2 DEF OpenBlocks
      <4>2. CASE stack = <<>>
        <5>1. 1 .. Len(stack) = {}
          BY <4>2
        <5>2. QED
          BY <5>1, <2>2, <1>2 DEF OpenBlocks, Typed
      <4>3. QED
        BY <4>1, <4>2
    <3>3. rv # "none"
      <4>1. Len(<<>>) = 0
        OBVIOUS
      <4>2. QED
        BY <4>1, <2>4, <1>2 DEF Begun
    <3>4. Matched(n)
      BY <3>2, <3>3, <2>4, <1>2 DEF Paired, Matched
    <3>5. QED
      BY <3>1, <3>2, <3>4 DEF Matched
  <2>5. QED
    BY <2>3, <2>4, <1>3, <1>6
<1>13. Paired'
  BY <1>12 DEF Paired, Matched
<1>14. QED
  BY <1>8, <1>9, <1>10, <1>11, <1>13 DEF IndInv

\* A block is called.
LEMMA RunBlockInv ==
  ASSUME IndInv, RunBlock
  PROVE  IndInv'
<1>1. /\ Runs("block") /\ Reading /\ Parsing /\ rv = "parsing" /\ stack # <<>>
      /\ confs' = Taken /\ Call("block") /\ ctx' = Chosen(t).inside
      /\ UNCHANGED <<stage, rv, conf_file, fds, buffers>>
  BY DEF RunBlock, Runs, Directive, Reading, Parsing
<1>2. Typed /\ Chained /\ Held /\ Begun /\ Paired
  BY DEF IndInv
<1>3. ParsesBlock(t) /\ t.rc = "block" /\ Chosen(t).inside \in Contexts
  BY <1>1, <1>2, BlockDirective
<1>4. Taken \in Seq(ConfFile) /\ Len(Taken) = Len(confs) /\ conf_file \in 1 .. Len(confs)
  BY <1>1, <1>2, TakenFacts
<1>5. Len(stack) \in Nat /\ Len(confs) \in Nat
  BY <1>2, LevelNat
<1>6. /\ stack' \in Seq(Frame) /\ Len(stack') = Len(stack) + 1
      /\ \A k \in 1 .. Len(stack) : stack'[k] = stack[k]
      /\ stack'[Len(stack) + 1].type = "block" /\ stack'[Len(stack) + 1].prev = conf_file
  BY <1>1, <1>2, PushLevels
<1>7. Typed'
  BY <1>1, <1>2, <1>3, <1>4, <1>6 DEF Typed
<1>8. Chained'
  <2>1. Len(confs') \in Nat /\ Len(confs) <= Len(confs')
    BY <1>1, <1>4, <1>5
  <2>2. QED
    BY <2>1, <1>1, <1>2, PushChained
<1>9. Held'
  BY <1>1, <1>2, PushHeld
<1>10. Begun'
  <2>1. stack' # <<>>
    <3>1. Len(<<>>) = 0
      OBVIOUS
    <3>2. QED
      BY <3>1, <1>5, <1>6
  <2>2. stage' # "done"
    BY <1>1, <1>2 DEF Begun
  <2>3. QED
    BY <2>1, <2>2, <1>1 DEF Begun
<1>11. ASSUME NEW n \in 1 .. Len(confs)
       PROVE  Matched(n)'
  <2> DEFINE N == Len(stack)
  <2>1. OpenBlocks(n) = {k \in 1 .. N : stack[k].type = "block" /\ stack[k].prev = n}
    BY <1>1 DEF OpenBlocks
  <2>2. OpenBlocks(n)' = {k \in 1 .. N + 1 : stack'[k].type = "block" /\ stack'[k].prev = n}
    BY <1>1, <1>6 DEF OpenBlocks
  <2>3. \A k : k \in 1 .. N + 1 <=> k \in 1 .. N \/ k = N + 1
    BY <1>5
  <2>4. N + 1 \notin 1 .. N
    BY <1>5
  <2>5. IsFiniteSet(OpenBlocks(n)) /\ Cardinality(OpenBlocks(n)) \in Nat
    BY <1>2, BlocksFinite
  <2>6. /\ Parsed(n) \in Nat /\ Closed(n) \in Nat
        /\ Parsed(n)' = Parsed(n) + (IF n = conf_file THEN 1 ELSE 0)
        /\ Closed(n)' = Closed(n)
    BY <1>1, <1>2, <1>3, TakenSeen
  <2>7. Matched(n)
    BY <1>1, <1>2 DEF Paired, Matched
  <2> HIDE DEF N
  <2>8. CASE n = conf_file
    <3>1. OpenBlocks(n)' = OpenBlocks(n) \cup {N + 1} /\ N + 1 \notin OpenBlocks(n)
      BY <2>1, <2>2, <2>3, <2>4, <2>8, <1>6 DEF N
    <3>2. Cardinality(OpenBlocks(n) \cup {N + 1}) = Cardinality(OpenBlocks(n)) + 1
      BY <3>1, <2>5, FS_AddElement
    <3>3. Cardinality(OpenBlocks(n)') = Cardinality(OpenBlocks(n)) + 1
      BY <3>1, <3>2, Zenon
    <3>4. QED
      BY <3>3, <2>5, <2>6, <2>7, <2>8 DEF Matched
  <2>9. CASE n # conf_file
    <3>1. OpenBlocks(n)' = OpenBlocks(n)
      BY <2>1, <2>2, <2>3, <2>4, <2>9, <1>6 DEF N
    <3>2. QED
      BY <3>1, <2>6, <2>7, <2>9 DEF Matched
  <2>10. QED
    BY <2>8, <2>9
<1>12. Paired'
  BY <1>1, <1>4, <1>11 DEF Paired, Matched
<1>13. QED
  BY <1>7, <1>8, <1>9, <1>10, <1>12 DEF IndInv

\* A brace is closed.
LEMMA BlockDoneInv ==
  ASSUME IndInv, BlockDone
  PROVE  IndInv'
<1>1. /\ Reading /\ rv = "parsing" /\ stack # <<>> /\ t.rc = "block_done" /\ confs' = Taken
      /\ UNCHANGED <<stage, stack, conf_file, fds, buffers, ctx>>
      /\ rv' = IF Top.type = "block" THEN "ok" ELSE "error"
  BY DEF BlockDone, Reading, Parsing, Ends
<1>2. Typed /\ Chained /\ Held /\ Begun /\ Paired
  BY DEF IndInv
<1>3. Taken \in Seq(ConfFile) /\ Len(Taken) = Len(confs) /\ conf_file \in 1 .. Len(confs)
  BY <1>1, <1>2, TakenFacts
<1>4. ~ParsesBlock(t)
  BY <1>1 DEF ParsesBlock
<1>5. ASSUME Top.type = "block", NEW n \in 1 .. Len(confs)
      PROVE  Matched(n)'
  <2> DEFINE N == Len(stack)
  <2>1. N \in Nat /\ N \in 1 .. N /\ stack[N].type = "block" /\ stack[N].prev = conf_file
    BY <1>1, <1>2, <1>5, LevelNat, TopBlock DEF Typed, Top
  <2>2. OpenBlocks(n) = {k \in 1 .. N : stack[k].type = "block" /\ stack[k].prev = n}
    BY <1>1 DEF OpenBlocks
  <2>3. OpenBlocks(n)' = {k \in 1 .. N : /\ stack[k].type = "block" /\ stack[k].prev = n
                                         /\ k # N}
    BY <1>1, <1>5 DEF OpenBlocks
  <2>4. OpenBlocks(n)' = OpenBlocks(n) \ {N} /\ (N \in OpenBlocks(n) <=> n = conf_file)
    BY <2>1, <2>2, <2>3
  <2>5. IsFiniteSet(OpenBlocks(n)) /\ Cardinality(OpenBlocks(n)) \in Nat
    BY <1>2, BlocksFinite
  <2>6. /\ Parsed(n) \in Nat /\ Closed(n) \in Nat
        /\ Parsed(n)' = Parsed(n)
        /\ Closed(n)' = Closed(n) + (IF n = conf_file THEN 1 ELSE 0)
    BY <1>1, <1>2, <1>4, TakenSeen
  <2>7. Matched(n)
    BY <1>1, <1>2 DEF Paired, Matched
  <2> HIDE DEF N
  <2>8. CASE n = conf_file
    <3>1. Cardinality(OpenBlocks(n) \ {N}) = Cardinality(OpenBlocks(n)) - 1
      BY <2>4, <2>5, <2>8, FS_RemoveElement
    <3>2. Cardinality(OpenBlocks(n)') = Cardinality(OpenBlocks(n)) - 1
      BY <3>1, <2>4, Zenon
    <3>3. QED
      BY <3>2, <2>5, <2>6, <2>7, <2>8 DEF Matched
  <2>9. CASE n # conf_file
    <3>1. OpenBlocks(n)' = OpenBlocks(n)
      BY <2>4, <2>9
    <3>2. QED
      BY <3>1, <2>6, <2>7, <2>9 DEF Matched
  <2>10. QED
    BY <2>8, <2>9
<1>6. Paired'
  BY <1>1, <1>3, <1>5 DEF Paired, Matched
<1>7. stage' \in {"param", "file", "done"} /\ (stage' = "done" => stack = <<>>)
  BY <1>1, <1>2 DEF Typed, Begun
<1>8. QED
  BY <1>1, <1>3, <1>6, <1>7, KeepInv

\* A file comes to its end.
LEMMA FileDoneInv ==
  ASSUME IndInv, FileDone
  PROVE  IndInv'
<1>1. /\ rv = "parsing" /\ stack # <<>> /\ confs' = confs
      /\ UNCHANGED <<stage, stack, conf_file, fds, buffers, ctx>>
      /\ rv' = IF Top.type = "block" THEN "error" ELSE "ok"
  BY DEF FileDone, Parsing, Ends
<1>2. Typed /\ Chained /\ Held /\ Begun /\ Paired
  BY DEF IndInv
<1>3. ASSUME Top.type # "block", NEW n \in 1 .. Len(confs)
      PROVE  Matched(n)'
  <2>1. OpenBlocks(n)' = OpenBlocks(n)
    BY <1>1, <1>3 DEF OpenBlocks, Top
  <2>2. Parsed(n)' = Parsed(n) /\ Closed(n)' = Closed(n)
    BY <1>1, SeenNone
  <2>3. Matched(n)
    BY <1>1, <1>2 DEF Paired, Matched
  <2>4. QED
    BY <2>1, <2>2, <2>3 DEF Matched
<1>4. Paired'
  BY <1>1, <1>3 DEF Paired, Matched
<1>5. /\ stage' \in {"param", "file", "done"} /\ (stage' = "done" => stack = <<>>)
      /\ confs' \in Seq(ConfFile) /\ Len(confs') = Len(confs)
  BY <1>1, <1>2 DEF Typed, Begun
<1>6. QED
  BY <1>1, <1>4, <1>5, KeepInv

\* A call returns.
LEMMA ReturnInv ==
  ASSUME IndInv, Return
  PROVE  IndInv'
<1>1. /\ stack # <<>> /\ rv \in {"ok", "error"} /\ stack' = Front(stack)
      /\ fds' = Released(fds) /\ buffers' = Released(buffers)
      /\ conf_file' = CASE Top.type = "file"  -> Top.prev
                        [] Top.type = "param" -> 0
                        [] Top.type = "block" -> conf_file
      /\ ctx' = Top.ctx /\ UNCHANGED <<stage, confs>>
  BY DEF Return
<1>2. /\ rv' \in {"parsing", "ok", "error"} /\ (rv' # "error" => rv = "ok")
      /\ (rv' = "parsing" <=> rv' # "error" /\ Len(stack) > 1)
  BY DEF Return
<1>3. Typed /\ Chained /\ Held /\ Begun /\ Paired
  BY DEF IndInv
<1> DEFINE N == Len(stack)
<1>4. /\ stack' \in Seq(Frame) /\ N >= 1 /\ Len(stack') = N - 1
      /\ \A k \in 1 .. N - 1 : stack'[k] = stack[k]
      /\ conf_file' \in Nat
  BY <1>1, <1>3, PopLevels
<1>5. N \in Nat /\ Top \in Frame
  BY <1>3, <1>4, LevelNat DEF Top
<1>6. Typed'
  <2>1. ctx' \in Contexts
    BY <1>1, <1>5 DEF Frame
  <2>2. QED
    BY <2>1, <1>1, <1>2, <1>3, <1>4 DEF Typed
<1>7. Chained'
  BY <1>1, <1>3, PopChained
<1>8. Held'
  BY <1>1, <1>2, <1>3, PopHeld
<1>9. Begun'
  <2>1. stage # "done"
    BY <1>1, <1>3 DEF Begun
  <2>2. rv' = "parsing" => stack' # <<>>
    <3>1. Len(<<>>) = 0
      OBVIOUS
    <3>2. QED
      BY <3>1, <1>2, <1>4, <1>5
  <2>3. QED
    BY <2>1, <2>2, <1>1, <1>2 DEF Begun
<1>10. ASSUME rv' # "error", NEW n \in 1 .. Len(confs)
       PROVE  Matched(n)'
  <2>1. OpenBlocks(n) = {k \in 1 .. N : /\ stack[k].type = "block" /\ stack[k].prev = n
                                        /\ k # N}
    BY <1>2, <1>10 DEF OpenBlocks
  <2>2. rv' = "ok" => 1 .. N - 1 = {}
    BY <1>2, <1>4, <1>5, <1>10
  <2>3. OpenBlocks(n)' = {k \in 1 .. N - 1 : stack'[k].type = "block" /\ stack'[k].prev = n}
    <3>1. OpenBlocks(n)' = {k \in 1 .. N - 1 :
                              /\ stack'[k].type = "block" /\ stack'[k].prev = n
                              /\ rv' = "ok" => k # N - 1}
      BY <1>4 DEF OpenBlocks
    <3>2. QED
      BY <3>1, <2>2
  <2>4. \A k : k \in 1 .. N - 1 <=> k \in 1 .. N /\ k # N
    BY <1>5
  <2> HIDE DEF N
  <2>5. OpenBlocks(n)' = OpenBlocks(n)
    BY <2>1, <2>3, <2>4, <1>4
  <2>6. Parsed(n)' = Parsed(n) /\ Closed(n)' = Closed(n)
    BY <1>1, SeenNone
  <2>7. Matched(n)
    BY <1>2, <1>3, <1>10 DEF Paired, Matched
  <2>8. QED
    BY <2>5, <2>6, <2>7 DEF Matched
<1>11. Paired'
  BY <1>1, <1>10 DEF Paired, Matched
<1>12. QED
  BY <1>6, <1>7, <1>8, <1>9, <1>11 DEF IndInv

\* The parameter is parsed, or there is none.
LEMMA ParseParamInv ==
  ASSUME IndInv, ParseParam
  PROVE  IndInv'
<1>1. Typed /\ Chained /\ Held /\ Begun /\ Paired
  BY DEF IndInv
<1>2. /\ stage = "param" /\ rv = "none" /\ stack = <<>> /\ confs = <<>>
      /\ UNCHANGED <<stage, fds, buffers, ctx>>
  BY <1>1 DEF ParseParam, Begun
<1>3. Len(stack) = 0 /\ Len(confs) = 0
  <2>1. Len(<<>>) = 0
    OBVIOUS
  <2>2. QED
    BY <2>1, <1>2, Zenon
<1>4. PICK p \in Params :
        IF p = <<>>
          THEN rv' = "ok" /\ UNCHANGED <<stack, conf_file, confs>>
          ELSE /\ Call("param")
               /\ confs' = <<[seen |-> <<>>, unread |-> p]>>
               /\ conf_file' = 1
               /\ rv' = "parsing"
  BY DEF ParseParam
<1>5. CASE p = <<>>
  <2>1. rv' = "ok" /\ UNCHANGED <<stack, conf_file, confs>>
    BY <1>4, <1>5
  <2>2. \A n \in 1 .. Len(confs') : FALSE
    BY <2>1, <1>3
  <2>3. Paired'
    BY <2>2 DEF Paired
  <2>4. confs' \in Seq(ConfFile) /\ Len(confs') = Len(confs)
    BY <2>1, <1>1 DEF Typed
  <2>5. QED
    BY <2>1, <2>3, <2>4, <1>2, KeepInv
<1>6. CASE p # <<>>
  <2> DEFINE new == [seen |-> <<>>, unread |-> p]
  <2>1. Call("param") /\ confs' = <<new>> /\ conf_file' = 1 /\ rv' = "parsing"
    BY <1>4, <1>6
  <2>2. new \in ConfFile /\ new.seen = <<>>
    <3>1. p \in Seq(Range(p))
      BY ConfParseAssumption
    <3>2. Range(p) \subseteq Inputs
      BY DEF Inputs
    <3>3. p \in Seq(Inputs)
      BY <3>1, <3>2, SeqMonotonic
    <3>4. <<>> \in Seq(Inputs)
      OBVIOUS
    <3>5. QED
      BY <3>3, <3>4 DEF ConfFile
  <2> HIDE DEF new
  <2>3. confs' \in Seq(ConfFile) /\ Len(confs') = 1 /\ confs'[1] = new
    BY <2>1, <2>2
  <2>4. /\ stack' \in Seq(Frame) /\ Len(stack') = 1 /\ stack'[1].type = "param"
    <3>1. /\ stack' \in Seq(Frame) /\ Len(stack') = Len(stack) + 1
          /\ stack'[Len(stack) + 1].type = "param" /\ 0 + 1 = 1
      BY <2>1, <1>1, PushLevels
    <3>2. QED
      BY <3>1, <1>3, Zenon
  <2>5. Typed'
    BY <2>1, <2>3, <2>4, <1>1, <1>2 DEF Typed
  <2>6. Chained'
    <3>1. Len(confs') \in Nat /\ Len(confs) <= Len(confs')
      BY <2>3, <1>3
    <3>2. QED
      BY <3>1, <2>1, <2>3, <1>1, <1>2, PushChained
  <2>7. Held'
    BY <2>1, <1>1, <1>2, PushHeld
  <2>8. Begun'
    <3>1. stack' # <<>>
      BY <2>4
    <3>2. QED
      BY <3>1, <2>1, <1>2 DEF Begun
  <2>9. ASSUME NEW n \in 1 .. Len(confs')
        PROVE  Matched(n)'
    <3>1. n = 1 /\ confs'[n].seen = <<>>
      BY <2>2, <2>3
    <3>2. Parsed(n)' = 0 /\ Closed(n)' = 0
      BY <3>1, SeenNew
    <3>3. OpenBlocks(n)' = {}
      BY <2>4 DEF OpenBlocks
    <3>4. Cardinality({}) = 0 /\ 0 - 0 = 0
      BY FS_EmptySet
    <3>5. QED
      BY <3>2, <3>3, <3>4, Zenon DEF Matched
  <2>10. Paired'
    BY <2>9 DEF Paired, Matched
  <2>11. QED
    BY <2>5, <2>6, <2>7, <2>8, <2>10 DEF IndInv
<1>7. QED
  BY <1>5, <1>6

\* The file is opened, or cannot be.
LEMMA ParseFileInv ==
  ASSUME IndInv, ParseFile
  PROVE  IndInv'
<1>1. Typed /\ Chained /\ Held /\ Begun /\ Paired
  BY DEF IndInv
<1>2. /\ rv = "ok" /\ stack = <<>> /\ stage' = "file" /\ ctx' = ctx
      /\ confs \in Seq(ConfFile)
  BY <1>1 DEF ParseFile, Typed
<1>3. CASE OpenFile(confs)
  <2>1. ASSUME NEW n \in 1 .. Len(confs), confs'[n] = confs[n]
        PROVE  Parsed(n)' = Parsed(n) /\ Closed(n)' = Closed(n)
    BY <2>1, SeenNone
  <2>2. QED
    BY <2>1, <1>2, <1>3, OpenFileInv
<1>4. CASE OpenFails(confs)
  <2>1. confs' = confs /\ rv' = "error" /\ UNCHANGED <<stack, conf_file, fds, buffers>>
    BY <1>4 DEF OpenFails
  <2>2. QED
    BY <2>1, <1>2, ErrorBraces, KeepInv
<1>5. QED
  BY <1>3, <1>4 DEF ParseFile

\* A directive includes a file.
LEMMA RunIncludeInv ==
  ASSUME IndInv, RunInclude
  PROVE  IndInv'
<1>1. Typed /\ Chained /\ Held /\ Begun /\ Paired
  BY DEF IndInv
<1>2. /\ Runs("include") /\ Directive /\ Reading /\ rv = "parsing" /\ stack # <<>>
      /\ UNCHANGED <<stage, ctx>>
  BY DEF RunInclude, Runs, Directive, Reading, Parsing
<1>3. ~ParsesBlock(t) /\ t.rc # "block_done"
  BY <1>1, <1>2, OtherDirective
<1>4. Taken \in Seq(ConfFile) /\ Len(Taken) = Len(confs)
  BY <1>1, <1>2, TakenFacts
<1>5. stage' \in {"param", "file"}
  BY <1>1, <1>2 DEF Typed, Begun
<1>6. CASE OpenFile(Taken)
  <2>1. ASSUME NEW n \in 1 .. Len(confs), confs'[n] = Taken[n]
        PROVE  Parsed(n)' = Parsed(n) /\ Closed(n)' = Closed(n)
    BY <2>1, <1>1, <1>2, <1>3, TakenSeen
  <2>2. QED
    BY <2>1, <1>2, <1>4, <1>5, <1>6, OpenFileInv
<1>7. CASE OpenFails(Taken)
  <2>1. confs' = Taken /\ rv' = "error" /\ UNCHANGED <<stack, conf_file, fds, buffers>>
    BY <1>7 DEF OpenFails
  <2>2. QED
    BY <2>1, <1>2, <1>4, <1>5, ErrorBraces, KeepInv
<1>8. QED
  BY <1>6, <1>7 DEF RunInclude

\* A directive is run that opens nothing.
LEMMA PlainInv ==
  ASSUME IndInv, RunHandler \/ RunWorkerProcesses \/ RunHttp
  PROVE  IndInv'
<1>1. Typed /\ Chained /\ Held /\ Begun /\ Paired
  BY DEF IndInv
<1>2. /\ Directive /\ Reading /\ rv = "parsing" /\ stack # <<>>
      /\ UNCHANGED <<stage, stack, conf_file, fds, buffers, ctx>>
      /\ rv' \in {"parsing", "error"}
  <2>1. CASE RunHandler
    BY <2>1 DEF RunHandler, Directive, Reading, Parsing
  <2>2. CASE RunWorkerProcesses
    BY <2>2 DEF RunWorkerProcesses, Runs, Directive, Reading, Parsing
  <2>3. CASE RunHttp
    BY <2>3 DEF RunHttp, Runs, Directive, Reading, Parsing
  <2>4. QED
    BY <2>1, <2>2, <2>3
<1>3. /\ Taken \in Seq(ConfFile) /\ Len(Taken) = Len(confs)
      /\ Skipped \in Seq(ConfFile) /\ Len(Skipped) = Len(confs)
      /\ \A n \in 1 .. Len(confs) : Skipped[n].seen = confs[n].seen
  BY <1>1, <1>2, TakenFacts
<1>4. confs' = Taken \/ confs' = Skipped
  BY DEF RunHandler, RunWorkerProcesses, RunHttp
<1>5. ASSUME rv' = "parsing", NEW n \in 1 .. Len(confs)
      PROVE  Matched(n)'
  <2>1. OpenBlocks(n)' = OpenBlocks(n)
    BY <1>2, <1>5 DEF OpenBlocks
  <2>2. Matched(n)
    BY <1>1, <1>2 DEF Paired, Matched
  <2>3. CASE RunHandler
    <3>1. confs'[n].seen = confs[n].seen
      BY <2>3, <1>3 DEF RunHandler
    <3>2. Parsed(n)' = Parsed(n) /\ Closed(n)' = Closed(n)
      BY <3>1, SeenNone
    <3>3. QED
      BY <3>2, <2>1, <2>2 DEF Matched
  <2>4. CASE RunWorkerProcesses \/ RunHttp
    <3>1. confs' = Taken /\ (Runs("worker_processes") \/ Runs("http"))
      BY <2>4 DEF RunWorkerProcesses, RunHttp
    <3>2. ~ParsesBlock(t) /\ t.rc # "block_done"
      BY <3>1, <1>1, <1>2, OtherDirective
    <3>3. QED
      BY <3>1, <3>2, <2>1, <2>2, <1>1, <1>2, PlainMatched
  <2>5. QED
    BY <2>3, <2>4
<1>6. Len(confs') = Len(confs) /\ confs' \in Seq(ConfFile)
  BY <1>3, <1>4
<1>7. Paired'
  BY <1>2, <1>5, <1>6 DEF Paired, Matched
<1>8. stage' \in {"param", "file", "done"} /\ (stage' = "done" => stack = <<>>)
  BY <1>1, <1>2 DEF Typed, Begun
<1>9. QED
  BY <1>2, <1>6, <1>7, <1>8, KeepInv

----------------------------------------------------------------------------
(***************************************************************************)
(* The theorems.                                                           *)
(***************************************************************************)

\* Before anything was parsed.
LEMMA FreshInv == Fresh => IndInv
<1> SUFFICES ASSUME Fresh
             PROVE  IndInv
  OBVIOUS
<1>1. /\ stage = "param" /\ stack = <<>> /\ rv = "none" /\ conf_file = 0 /\ confs = <<>>
      /\ fds = {} /\ buffers = {} /\ ctx = Main
  BY DEF Fresh
<1>2. Len(stack) = 0 /\ Len(confs) = 0 /\ stack \in Seq(Frame) /\ confs \in Seq(ConfFile)
  <2>1. Len(<<>>) = 0 /\ <<>> \in Seq(Frame) /\ <<>> \in Seq(ConfFile)
    OBVIOUS
  <2>2. QED
    BY <2>1, <1>1, Zenon
<1>3. Typed
  <2>1. Main \in Contexts
    BY DEF Contexts
  <2>2. QED
    BY <2>1, <1>1, <1>2 DEF Typed
<1>4. FileCalls = {} /\ Level(0) = 0
  BY <1>1, <1>2 DEF FileCalls, Level
<1>5. Chained
  BY <1>2, <1>4 DEF Chained
<1>6. Held
  BY <1>1, <1>4 DEF Held
<1>7. Begun
  BY <1>1 DEF Begun
<1>8. Paired
  BY <1>1 DEF Paired
<1>9. QED
  BY <1>3, <1>5, <1>6, <1>7, <1>8 DEF IndInv

\* Every step keeps the invariant.
LEMMA StepInv ==
  ASSUME IndInv, Next
  PROVE  IndInv'
<1>1. Typed /\ Chained /\ Held /\ Begun /\ Paired
  BY DEF IndInv
<1>2. CASE Done
  <2>1. /\ stack = <<>> /\ stage' = "done" /\ rv \in {"ok", "error"} /\ rv' = rv
        /\ UNCHANGED <<stack, conf_file, confs, fds, buffers, ctx>>
    BY <1>2 DEF Done
  <2>2. \A n : Parsed(n)' = Parsed(n) /\ Closed(n)' = Closed(n)
    BY <2>1 DEF Parsed, Closed, ParsesBlock
  <2>3. Paired'
    BY <2>1, <2>2, <1>1 DEF Paired, OpenBlocks
  <2>4. confs' \in Seq(ConfFile) /\ Len(confs') = Len(confs)
    BY <2>1, <1>1 DEF Typed
  <2>5. QED
    BY <2>1, <2>3, <2>4, KeepInv
<1>3. CASE TokenError
  <2>1. /\ stack # <<>> /\ rv' = "error" /\ confs' = confs
        /\ UNCHANGED <<stage, stack, conf_file, fds, buffers, ctx>>
    BY <1>3 DEF TokenError, Ends, Parsing
  <2>2. /\ stage' \in {"param", "file", "done"} /\ (stage' = "done" => stack = <<>>)
        /\ confs' \in Seq(ConfFile) /\ Len(confs') = Len(confs)
    BY <2>1, <1>1 DEF Typed, Begun
  <2>3. QED
    BY <2>1, <2>2, ErrorBraces, KeepInv
<1>4. CASE Refuse
  <2>1. /\ stack # <<>> /\ rv' = "error" /\ confs' = Taken /\ Reading
        /\ UNCHANGED <<stage, stack, conf_file, fds, buffers, ctx>>
    BY <1>4 DEF Refuse, Directive, Reading, Ends, Parsing
  <2>2. /\ stage' \in {"param", "file", "done"} /\ (stage' = "done" => stack = <<>>)
        /\ confs' \in Seq(ConfFile) /\ Len(confs') = Len(confs)
    BY <2>1, <1>1, TakenFacts DEF Typed, Begun
  <2>3. QED
    BY <2>1, <2>2, ErrorBraces, KeepInv
<1>5. QED
  BY <1>2, <1>3, <1>4, ParseParamInv, ParseFileInv, BlockDoneInv, FileDoneInv, PlainInv,
     RunBlockInv, RunIncludeInv, ReturnInv DEF Next

\* And so does none.
LEMMA StutterInv ==
  ASSUME IndInv, UNCHANGED vars
  PROVE  IndInv'
<1>1. UNCHANGED <<stage, stack, rv, conf_file, confs, fds, buffers, ctx>>
  BY DEF vars
<1>2. Typed' /\ Begun'
  BY <1>1 DEF IndInv, Typed, Begun
<1>3. Chained' /\ FileCalls' = FileCalls /\ \A k : Level(k)' = Level(k)
  BY <1>1, KeepChained DEF IndInv
<1>4. Held'
  BY <1>1, <1>3, KeepHeld DEF IndInv
<1>5. \A n : Parsed(n)' = Parsed(n) /\ Closed(n)' = Closed(n)
  BY <1>1 DEF Parsed, Closed, ParsesBlock
<1>6. Paired'
  BY <1>1, <1>5 DEF IndInv, Paired, OpenBlocks
<1>7. QED
  BY <1>2, <1>3, <1>4, <1>6 DEF IndInv

\* The inductive invariant holds of cw_conf_param and cw_conf_parse, whatever
\* the commands and the files are.
THEOREM Invariance == Spec => []IndInv
<1>1. Init => IndInv
  BY FreshInv DEF Init
<1>2. IndInv /\ [Next]_vars => IndInv'
  BY StepInv, StutterInv
<1>3. QED
  BY <1>1, <1>2, PTL DEF Spec

\* cw_conf_parse closes what it opened and frees what it allocated, whatever
\* fails and however its calls are nested.
THEOREM AllClosed == Spec => []FilesClosed
<1>1. IndInv => FilesClosed
  BY HeldClosed DEF IndInv
<1>2. QED
  BY <1>1, Invariance, PTL

----------------------------------------------------------------------------
(***************************************************************************)
(* The numbers that cw_atoi reads.                                         *)
(***************************************************************************)

\* What the loop of cw_atoi has read after each character, and what the digits
\* stand for.
ReadBy(f, word) ==
  f = [n \in 0 .. Len(word) |-> IF n = 0 THEN 0 ELSE Accumulate(f[n - 1], word[n])]
ValueOf(f, word) ==
  f = [n \in 0 .. Len(word) |-> IF n = 0 THEN 0 ELSE 10 * f[n - 1] + word[n]]

\* The first turns of the loop.
ReadSteps(f, word, len) ==
  /\ f = [n \in 0 .. len |-> f[n]]
  /\ f[0] = 0
  /\ \A n \in 1 .. len : f[n] = Accumulate(f[n - 1], word[n])

\* The first digits, one by one.
ValueSteps(f, word, len) ==
  /\ f = [n \in 0 .. len |-> f[n]]
  /\ f[0] = 0
  /\ \A n \in 1 .. len : f[n] = 10 * f[n - 1] + word[n]

\* The loop can be run for as long as there are characters.
LEMMA ReadExists ==
  ASSUME NEW word, NEW len \in Nat
  PROVE  \E f : ReadSteps(f, word, len)
<1> DEFINE S == {n \in Nat : \E f : ReadSteps(f, word, n)}
<1>1. 0 \in S
  <2> DEFINE f == [n \in 0 .. 0 |-> 0]
  <2>1. f = [n \in 0 .. 0 |-> f[n]] /\ f[0] = 0 /\ 1 .. 0 = {}
    OBVIOUS
  <2> HIDE DEF f
  <2>2. ReadSteps(f, word, 0)
    BY <2>1, Zenon DEF ReadSteps
  <2>3. QED
    BY <2>1, <2>2
<1>2. ASSUME NEW n \in Nat, n \in S
      PROVE  n + 1 \in S
  <2>1. PICK f : ReadSteps(f, word, n)
    BY <1>2
  <2> DEFINE last == Accumulate(f[n], word[n + 1])
             g == [k \in 0 .. n + 1 |-> IF k = n + 1 THEN last ELSE f[k]]
  <2> HIDE DEF last
  <2>2. /\ g = [k \in 0 .. n + 1 |-> g[k]]
        /\ g[0] = f[0] /\ g[n + 1] = last /\ \A k \in 1 .. n : g[k] = f[k]
    OBVIOUS
  <2>3. \A k \in 1 .. n : g[k - 1] = f[k - 1]
    OBVIOUS
  <2>4. g[n] = f[n]
    OBVIOUS
  <2>5. ASSUME NEW k \in 1 .. n + 1
        PROVE  g[k] = Accumulate(g[k - 1], word[k])
    <3> HIDE DEF g
    <3>1. CASE k = n + 1
      <4>1. k - 1 = n
        BY <3>1
      <4>2. QED
        BY <3>1, <4>1, <2>2, <2>4, Zenon DEF last
    <3>2. CASE k # n + 1
      <4>1. k \in 1 .. n
        BY <3>2
      <4>2. f[k] = Accumulate(f[k - 1], word[k])
        BY <4>1, <2>1, Zenon DEF ReadSteps
      <4>3. QED
        BY <4>1, <4>2, <2>2, <2>3, Zenon
    <3>3. QED
      BY <3>1, <3>2
  <2> HIDE DEF g
  <2>6. ReadSteps(g, word, n + 1)
    BY <2>1, <2>2, <2>5, Zenon DEF ReadSteps
  <2>7. n + 1 \in Nat
    OBVIOUS
  <2>8. QED
    BY <2>2, <2>6, <2>7, Zenon
<1> HIDE DEF S
<1>3. \A n \in Nat : n \in S
  BY <1>1, <1>2, SetInduction, Zenon
<1>4. QED
  BY <1>3, Zenon DEF S

\* One turn: what was read stays within the limit, and is ten times as much and
\* the digit.
LEMMA AccumulateStep ==
  ASSUME NEW value \in -1 .. CW_MAX_INT_T_VALUE, NEW d
  PROVE  /\ Accumulate(value, d) \in -1 .. CW_MAX_INT_T_VALUE
         /\ Accumulate(value, d) # CW_ERROR =>
              /\ value # CW_ERROR /\ d \in 0 .. 9
              /\ Accumulate(value, d) = 10 * value + d
<1>1. CW_MAX_INT_T_VALUE \in Nat
  BY ConfParseAssumption
<1>2. PICK max \in Nat : max = CW_MAX_INT_T_VALUE
  BY <1>1
<1>3. PICK q \in Nat, r \in 0 .. 9 : q = max \div 10 /\ r = max % 10 /\ max = 10 * q + r
  OBVIOUS
<1>4. Accumulate(value, d) = IF value = -1 \/ d \notin 0 .. 9 \/ (value >= q /\ (value > q \/ d > r))
                               THEN -1 ELSE 10 * value + d
  BY <1>2, <1>3, Zenon DEF Accumulate, CW_ERROR
<1>5. CASE value = -1 \/ d \notin 0 .. 9 \/ (value >= q /\ (value > q \/ d > r))
  BY <1>1, <1>4, <1>5 DEF CW_ERROR
<1>6. CASE ~(value = -1 \/ d \notin 0 .. 9 \/ (value >= q /\ (value > q \/ d > r)))
  <2>1. Accumulate(value, d) = 10 * value + d /\ value # -1 /\ d \in 0 .. 9
    BY <1>4, <1>6, Zenon
  <2>2. value \in 0 .. max
    BY <2>1, <1>2
  <2>3. 10 * value + d <= 10 * q + r /\ 10 * value + d >= 0
    BY <2>1, <2>2, <1>3, <1>6
  <2>4. 10 * value + d \in -1 .. CW_MAX_INT_T_VALUE
    BY <2>1, <2>2, <2>3, <1>2, <1>3
  <2>5. QED
    BY <2>1, <2>4 DEF CW_ERROR
<1>7. QED
  BY <1>5, <1>6

\* What the loop reads is what cw_atoi returns.
LEMMA AtoiReads ==
  ASSUME NEW word \in Seq(Int), word # <<>>
  PROVE  \E f : ReadSteps(f, word, Len(word)) /\ cw_atoi(word) = f[Len(word)]
<1> DEFINE c == CHOOSE f : ReadBy(f, word)
           G(f, n) == IF n = 0 THEN 0 ELSE Accumulate(f[n - 1], word[n])
<1>1. Len(word) \in Nat
  OBVIOUS
<1>2. PICK f : ReadSteps(f, word, Len(word))
  BY <1>1, ReadExists, Zenon
<1>3. ReadBy(f, word)
  <2>1. ASSUME NEW n \in 0 .. Len(word)
        PROVE  f[n] = G(f, n)
    <3>1. n = 0 \/ n \in 1 .. Len(word)
      BY <1>1
    <3>2. QED
      BY <1>2, <3>1, Zenon DEF ReadSteps
  <2>2. f = [n \in 0 .. Len(word) |-> f[n]]
    BY <1>2, Zenon DEF ReadSteps
  <2>3. [n \in 0 .. Len(word) |-> f[n]] = [n \in 0 .. Len(word) |-> G(f, n)]
    <3> HIDE DEF G
    <3>1. QED
      BY <2>1, Zenon
  <2>4. QED
    BY <2>2, <2>3, Zenon DEF ReadBy
<1>4. ReadBy(c, word)
  BY <1>3, Zenon
<1>5. cw_atoi(word) = c[Len(word)]
  BY Zenon DEF cw_atoi, ReadBy
<1> HIDE DEF c
<1>6. c = [n \in 0 .. Len(word) |-> G(c, n)]
  BY <1>4, Zenon DEF ReadBy
<1>7. \A n \in 0 .. Len(word) : c[n] = G(c, n)
  <2> HIDE DEF G
  <2>1. QED
    BY <1>6, Zenon
<1>8. c = [n \in 0 .. Len(word) |-> c[n]]
  <2> HIDE DEF G
  <2>1. QED
    BY <1>6, <1>7, Zenon
<1>9. 0 \in 0 .. Len(word) /\ \A n \in 1 .. Len(word) : n \in 0 .. Len(word) /\ n # 0
  BY <1>1
<1>10. ReadSteps(c, word, Len(word))
  BY <1>7, <1>8, <1>9, Zenon DEF ReadSteps
<1>11. QED
  BY <1>5, <1>10, Zenon

\* What has been read, as far as there is no error.
ReadWell(f, word, n) ==
  /\ f[n] \in -1 .. CW_MAX_INT_T_VALUE
  /\ f[n] # CW_ERROR =>
       /\ f[n] >= 0
       /\ \A k \in 1 .. n : word[k] \in 0 .. 9 /\ f[k] = 10 * f[k - 1] + word[k]

\* The limit is not passed and no digit lost in any turn of the loop.
LEMMA LoopReads ==
  ASSUME NEW f, NEW word, NEW len \in Nat, ReadSteps(f, word, len)
  PROVE  ReadWell(f, word, len)
<1> DEFINE S == {n \in Nat : n <= len => ReadWell(f, word, n)}
<1>1. 0 \in S
  <2>1. f[0] = 0 /\ 1 .. 0 = {}
    BY DEF ReadSteps
  <2>2. 0 \in -1 .. CW_MAX_INT_T_VALUE /\ 0 >= 0
    BY ConfParseAssumption
  <2>3. ReadWell(f, word, 0)
    BY <2>1, <2>2, Zenon DEF ReadWell
  <2>4. QED
    BY <2>3
<1>2. ASSUME NEW n \in Nat, n \in S
      PROVE  n + 1 \in S
  <2>1. SUFFICES ASSUME n + 1 <= len
                 PROVE  ReadWell(f, word, n + 1)
    OBVIOUS
  <2>2. ReadWell(f, word, n) /\ n + 1 \in 1 .. len /\ (n + 1) - 1 = n
    BY <1>2, <2>1
  <2>3. f[n + 1] = Accumulate(f[n], word[n + 1])
    BY <2>2, Zenon DEF ReadSteps
  <2>4. PICK v \in -1 .. CW_MAX_INT_T_VALUE : v = f[n]
    BY <2>2, Zenon DEF ReadWell
  <2>5. PICK d : d = word[n + 1]
    OBVIOUS
  <2>6. /\ Accumulate(v, d) \in -1 .. CW_MAX_INT_T_VALUE
        /\ Accumulate(v, d) # CW_ERROR =>
             v # CW_ERROR /\ d \in 0 .. 9 /\ Accumulate(v, d) = 10 * v + d
    BY AccumulateStep, Zenon
  <2>7. f[n + 1] = Accumulate(v, d)
    BY <2>3, <2>4, <2>5, Zenon
  <2>8. ASSUME f[n + 1] # CW_ERROR
        PROVE  /\ f[n + 1] >= 0
               /\ \A k \in 1 .. n + 1 : word[k] \in 0 .. 9 /\ f[k] = 10 * f[k - 1] + word[k]
    <3>1. v # CW_ERROR /\ d \in 0 .. 9 /\ f[n + 1] = 10 * v + d
      BY <2>6, <2>7, <2>8, Zenon
    <3>2. v >= 0 /\ \A k \in 1 .. n : word[k] \in 0 .. 9 /\ f[k] = 10 * f[k - 1] + word[k]
      BY <3>1, <2>2, <2>4, Zenon DEF ReadWell
    <3>3. 10 * v + d >= 0
      BY <3>1, <3>2
    <3>4. \A k \in 1 .. n + 1 : k \in 1 .. n \/ k = n + 1
      OBVIOUS
    <3>5. word[n + 1] \in 0 .. 9 /\ f[n + 1] = 10 * f[(n + 1) - 1] + word[n + 1]
      BY <3>1, <2>2, <2>4, <2>5, Zenon
    <3>6. QED
      BY <3>1, <3>2, <3>3, <3>4, <3>5, Zenon
  <2>9. QED
    BY <2>6, <2>7, <2>8, Zenon DEF ReadWell
<1>3. \A n \in Nat : n \in S
  <2> HIDE DEF S
  <2>1. QED
    BY <1>1, <1>2, SetInduction, Zenon
<1>4. QED
  BY <1>3

\* The digits of a word stand for one number.
LEMMA ValueUnique ==
  ASSUME NEW f, NEW g, NEW word, Len(word) \in Nat, ValueOf(f, word), ValueOf(g, word)
  PROVE  f[Len(word)] = g[Len(word)]
<1> DEFINE G(h, n) == IF n = 0 THEN 0 ELSE 10 * h[n - 1] + word[n]
           S == {n \in Nat : n <= Len(word) => f[n] = g[n]}
<1>1. f = [n \in 0 .. Len(word) |-> G(f, n)] /\ g = [n \in 0 .. Len(word) |-> G(g, n)]
  BY Zenon DEF ValueOf
<1>2. \A n \in 0 .. Len(word) : f[n] = G(f, n) /\ g[n] = G(g, n)
  <2> HIDE DEF G
  <2>1. QED
    BY <1>1, Zenon
<1>3. 0 \in S
  <2>1. 0 \in 0 .. Len(word)
    OBVIOUS
  <2>2. f[0] = 0 /\ g[0] = 0
    BY <2>1, <1>2, Zenon
  <2>3. QED
    BY <2>2
<1>4. ASSUME NEW n \in Nat, n \in S
      PROVE  n + 1 \in S
  <2>1. SUFFICES ASSUME n + 1 <= Len(word)
                 PROVE  f[n + 1] = g[n + 1]
    OBVIOUS
  <2>2. f[n] = g[n] /\ n + 1 \in 0 .. Len(word) /\ (n + 1) - 1 = n /\ n + 1 # 0
    BY <1>4, <2>1
  <2>3. f[n + 1] = 10 * f[n] + word[n + 1] /\ g[n + 1] = 10 * g[n] + word[n + 1]
    BY <2>2, <1>2, Zenon
  <2>4. QED
    BY <2>2, <2>3, Zenon
<1>5. \A n \in Nat : n \in S
  <2> HIDE DEF S
  <2>1. QED
    BY <1>3, <1>4, SetInduction, Zenon
<1>6. QED
  BY <1>5

\* cw_atoi refuses a word or returns its number, which is within the limit.
LEMMA AtoiDecimal ==
  ASSUME NEW word \in Seq(Int), cw_atoi(word) # CW_ERROR
  PROVE  /\ word # <<>> /\ Range(word) \subseteq 0 .. 9
         /\ cw_atoi(word) \in 0 .. CW_MAX_INT_T_VALUE
         /\ cw_atoi(word) = Decimal(word)
<1> DEFINE c == CHOOSE f : ValueOf(f, word)
           G(f, n) == IF n = 0 THEN 0 ELSE 10 * f[n - 1] + word[n]
<1>1. word # <<>>
  BY Zenon DEF cw_atoi
<1>2. PICK f : ReadSteps(f, word, Len(word)) /\ cw_atoi(word) = f[Len(word)]
  BY <1>1, AtoiReads, Zenon
<1>3. Len(word) \in Nat
  OBVIOUS
<1>4. ReadWell(f, word, Len(word))
  BY <1>2, <1>3, LoopReads, Zenon
<1>5. /\ f[Len(word)] \in -1 .. CW_MAX_INT_T_VALUE /\ f[Len(word)] >= 0
      /\ \A k \in 1 .. Len(word) : word[k] \in 0 .. 9 /\ f[k] = 10 * f[k - 1] + word[k]
  BY <1>2, <1>4, Zenon DEF ReadWell
<1>6. cw_atoi(word) \in 0 .. CW_MAX_INT_T_VALUE
  <2>1. PICK v \in -1 .. CW_MAX_INT_T_VALUE : v = f[Len(word)]
    BY <1>5, Zenon
  <2>2. v \in 0 .. CW_MAX_INT_T_VALUE
    BY <2>1, <1>5, ConfParseAssumption
  <2>3. QED
    BY <2>1, <2>2, <1>2, Zenon
<1>7. Range(word) \subseteq 0 .. 9
  <2>1. DOMAIN word = 1 .. Len(word)
    OBVIOUS
  <2>2. QED
    BY <2>1, <1>5, Zenon DEF Range
<1>8. ValueOf(f, word)
  <2>1. ASSUME NEW n \in 0 .. Len(word)
        PROVE  f[n] = G(f, n)
    <3>1. n = 0 \/ n \in 1 .. Len(word)
      BY <1>3
    <3>2. QED
      BY <1>2, <1>5, <3>1, Zenon DEF ReadSteps
  <2>2. f = [n \in 0 .. Len(word) |-> f[n]]
    BY <1>2, Zenon DEF ReadSteps
  <2>3. [n \in 0 .. Len(word) |-> f[n]] = [n \in 0 .. Len(word) |-> G(f, n)]
    <3> HIDE DEF G
    <3>1. QED
      BY <2>1, Zenon
  <2>4. QED
    BY <2>2, <2>3, Zenon DEF ValueOf
<1>9. ValueOf(c, word)
  BY <1>8, Zenon
<1>10. Decimal(word) = c[Len(word)]
  BY Zenon DEF Decimal, ValueOf
<1> HIDE DEF c
<1>11. c[Len(word)] = f[Len(word)]
  BY <1>3, <1>8, <1>9, ValueUnique, Zenon
<1>12. QED
  BY <1>1, <1>2, <1>6, <1>7, <1>10, <1>11, Zenon

\* The digits of a word stand for a number.
LEMMA ValueExists ==
  ASSUME NEW word, NEW len \in Nat
  PROVE  \E f : ValueSteps(f, word, len)
<1> DEFINE S == {n \in Nat : \E f : ValueSteps(f, word, n)}
<1>1. 0 \in S
  <2> DEFINE f == [n \in 0 .. 0 |-> 0]
  <2>1. f = [n \in 0 .. 0 |-> f[n]] /\ f[0] = 0 /\ 1 .. 0 = {}
    OBVIOUS
  <2> HIDE DEF f
  <2>2. ValueSteps(f, word, 0)
    BY <2>1, Zenon DEF ValueSteps
  <2>3. QED
    BY <2>1, <2>2
<1>2. ASSUME NEW n \in Nat, n \in S
      PROVE  n + 1 \in S
  <2>1. PICK f : ValueSteps(f, word, n)
    BY <1>2
  <2> DEFINE last == 10 * f[n] + word[n + 1]
             g == [k \in 0 .. n + 1 |-> IF k = n + 1 THEN last ELSE f[k]]
  <2> HIDE DEF last
  <2>2. /\ g = [k \in 0 .. n + 1 |-> g[k]]
        /\ g[0] = f[0] /\ g[n + 1] = last /\ g[n] = f[n]
        /\ \A k \in 1 .. n : g[k] = f[k] /\ g[k - 1] = f[k - 1]
    OBVIOUS
  <2>3. ASSUME NEW k \in 1 .. n + 1
        PROVE  g[k] = 10 * g[k - 1] + word[k]
    <3> HIDE DEF g
    <3>1. CASE k = n + 1
      <4>1. k - 1 = n
        BY <3>1
      <4>2. QED
        BY <3>1, <4>1, <2>2, Zenon DEF last
    <3>2. CASE k # n + 1
      <4>1. k \in 1 .. n
        BY <3>2
      <4>2. f[k] = 10 * f[k - 1] + word[k]
        BY <4>1, <2>1, Zenon DEF ValueSteps
      <4>3. QED
        BY <4>1, <4>2, <2>2, Zenon
    <3>3. QED
      BY <3>1, <3>2
  <2> HIDE DEF g
  <2>4. ValueSteps(g, word, n + 1)
    BY <2>1, <2>2, <2>3, Zenon DEF ValueSteps
  <2>5. n + 1 \in Nat
    OBVIOUS
  <2>6. QED
    BY <2>4, <2>5, Zenon
<1> HIDE DEF S
<1>3. \A n \in Nat : n \in S
  BY <1>1, <1>2, SetInduction, Zenon
<1>4. QED
  BY <1>3, Zenon DEF S

\* Step by step the digits give the number that the word stands for.
LEMMA DecimalValue ==
  ASSUME NEW word \in Seq(Int)
  PROVE  \E f : ValueSteps(f, word, Len(word)) /\ Decimal(word) = f[Len(word)]
<1> DEFINE c == CHOOSE f : ValueOf(f, word)
           G(f, n) == IF n = 0 THEN 0 ELSE 10 * f[n - 1] + word[n]
<1>1. Len(word) \in Nat
  OBVIOUS
<1>2. PICK f : ValueSteps(f, word, Len(word))
  BY <1>1, ValueExists, Zenon
<1>3. ValueOf(f, word)
  <2>1. ASSUME NEW n \in 0 .. Len(word)
        PROVE  f[n] = G(f, n)
    <3>1. n = 0 \/ n \in 1 .. Len(word)
      BY <1>1
    <3>2. QED
      BY <1>2, <3>1, Zenon DEF ValueSteps
  <2>2. f = [n \in 0 .. Len(word) |-> f[n]]
    BY <1>2, Zenon DEF ValueSteps
  <2>3. [n \in 0 .. Len(word) |-> f[n]] = [n \in 0 .. Len(word) |-> G(f, n)]
    <3> HIDE DEF G
    <3>1. QED
      BY <2>1, Zenon
  <2>4. QED
    BY <2>2, <2>3, Zenon DEF ValueOf
<1>4. ValueOf(c, word)
  BY <1>3, Zenon
<1>5. Decimal(word) = c[Len(word)]
  BY Zenon DEF Decimal, ValueOf
<1> HIDE DEF c
<1>6. c[Len(word)] = f[Len(word)]
  BY <1>1, <1>3, <1>4, ValueUnique, Zenon
<1>7. QED
  BY <1>2, <1>5, <1>6, Zenon

\* A turn refuses no digit that keeps the number within the limit.
LEMMA AccumulateKeeps ==
  ASSUME NEW value \in Nat, NEW d \in 0 .. 9, 10 * value + d <= CW_MAX_INT_T_VALUE
  PROVE  Accumulate(value, d) = 10 * value + d
<1>1. PICK max \in Nat : max = CW_MAX_INT_T_VALUE
  BY ConfParseAssumption
<1>2. PICK q \in Nat, r \in 0 .. 9 : q = max \div 10 /\ r = max % 10 /\ max = 10 * q + r
  OBVIOUS
<1>3. Accumulate(value, d) = IF value = -1 \/ d \notin 0 .. 9 \/ (value >= q /\ (value > q \/ d > r))
                               THEN -1 ELSE 10 * value + d
  BY <1>1, <1>2, Zenon DEF Accumulate, CW_ERROR
<1>4. 10 * value + d <= 10 * q + r
  BY <1>1, <1>2
<1>5. ~(value = -1 \/ d \notin 0 .. 9 \/ (value >= q /\ (value > q \/ d > r)))
  BY <1>4
<1>6. QED
  BY <1>3, <1>5, Zenon

\* cw_atoi refuses no number within the limit, the limit itself included,
\* however many zeros it begins with: with AtoiDecimal, the test for overflow
\* that is made before the multiplication is exact.
THEOREM AtoiAccepts ==
  ASSUME NEW word \in Seq(0 .. 9), word # <<>>, Decimal(word) <= CW_MAX_INT_T_VALUE
  PROVE  cw_atoi(word) = Decimal(word)
<1>1. /\ word \in Seq(Int) /\ Len(word) \in Nat
      /\ \A k \in 1 .. Len(word) : word[k] \in 0 .. 9
  OBVIOUS
<1>2. PICK f : ReadSteps(f, word, Len(word)) /\ cw_atoi(word) = f[Len(word)]
  BY <1>1, AtoiReads, Zenon
<1>3. PICK g : ValueSteps(g, word, Len(word)) /\ Decimal(word) = g[Len(word)]
  BY <1>1, DecimalValue, Zenon
<1> DEFINE Agree(n) == g[n] \in Nat /\ (g[n] <= CW_MAX_INT_T_VALUE => f[n] = g[n])
           S == {n \in Nat : n <= Len(word) => Agree(n)}
<1>4. 0 \in S
  BY <1>2, <1>3 DEF ReadSteps, ValueSteps
<1>5. ASSUME NEW n \in Nat, n \in S
      PROVE  n + 1 \in S
  <2>1. SUFFICES ASSUME n + 1 <= Len(word)
                 PROVE  Agree(n + 1)
    OBVIOUS
  <2>2. Agree(n) /\ n + 1 \in 1 .. Len(word) /\ (n + 1) - 1 = n
    BY <1>1, <1>5, <2>1
  <2>3. f[n + 1] = Accumulate(f[n], word[n + 1]) /\ g[n + 1] = 10 * g[n] + word[n + 1]
    BY <1>2, <1>3, <2>2, Zenon DEF ReadSteps, ValueSteps
  <2>4. PICK v \in Nat, d \in 0 .. 9 : v = g[n] /\ d = word[n + 1]
    BY <1>1, <2>2, Zenon
  <2>5. g[n + 1] = 10 * v + d
    BY <2>3, <2>4, Zenon
  <2>6. 10 * v + d \in Nat
    OBVIOUS
  <2>7. ASSUME 10 * v + d <= CW_MAX_INT_T_VALUE
        PROVE  f[n + 1] = 10 * v + d
    <3>1. v <= CW_MAX_INT_T_VALUE
      BY <2>7, ConfParseAssumption
    <3>2. f[n] = v
      BY <3>1, <2>2, <2>4, Zenon
    <3>3. Accumulate(v, d) = 10 * v + d
      BY <2>7, AccumulateKeeps, Zenon
    <3>4. QED
      BY <3>2, <3>3, <2>3, <2>4, Zenon
  <2>8. QED
    BY <2>5, <2>6, <2>7, Zenon
<1>6. \A n \in Nat : n \in S
  <2> HIDE DEF S
  <2>1. QED
    BY <1>4, <1>5, SetInduction, Zenon
<1>7. Agree(Len(word))
  <2> HIDE DEF Agree
  <2>1. QED
    BY <1>1, <1>6
<1>8. QED
  BY <1>2, <1>3, <1>7, Zenon

----------------------------------------------------------------------------
(***************************************************************************)
(* The setting.                                                            *)
(***************************************************************************)

\* Token x is a directive worker_processes.
IsGiven(x) == x.rc # "block_done" /\ x.name = "worker_processes"

\* The directives that a file is known to have are those of before.
KeptGiven(n) ==
  /\ Given(n)' = Given(n)
  /\ \A k \in Given(n) : confs'[n].seen[k] = confs[n].seen[k]

\* No token more was seen.
LEMMA GivenNone ==
  ASSUME NEW n, confs'[n].seen = confs[n].seen
  PROVE  KeptGiven(n)
BY DEF KeptGiven, Given

\* Nothing of the file was seen.
LEMMA GivenNew ==
  ASSUME NEW n, confs'[n].seen = <<>>
  PROVE  Given(n)' = {}
<1>1. 1 .. Len(<<>>) = {}
  OBVIOUS
<1>2. QED
  BY <1>1 DEF Given

\* A token more was seen.
LEMMA GivenOne ==
  ASSUME NEW n, confs[n].seen \in Seq(Inputs), NEW x \in Inputs,
         confs'[n].seen = Append(confs[n].seen, x)
  PROVE  /\ ~IsGiven(x) => KeptGiven(n)
         /\ IsGiven(x) /\ Given(n) = {} => Given(n)' = {Len(confs[n].seen) + 1}
         /\ confs'[n].seen[Len(confs[n].seen) + 1] = x
<1>1. PICK u \in Seq(Inputs) : u = confs[n].seen
  OBVIOUS
<1>2. PICK v \in Seq(Inputs) : v = Append(u, x) /\ v = confs'[n].seen
  <2>1. Append(u, x) \in Seq(Inputs)
    BY AppendProperties
  <2>2. Append(u, x) = confs'[n].seen
    BY <1>1, Zenon
  <2>3. QED
    BY <2>1, <2>2, Zenon
<1>3. /\ Len(v) = Len(u) + 1 /\ Len(u) \in Nat /\ v[Len(u) + 1] = x
      /\ \A k \in 1 .. Len(u) : v[k] = u[k]
  <2>1. Len(u) \in Nat
    OBVIOUS
  <2>2. /\ Len(Append(u, x)) = Len(u) + 1 /\ Append(u, x)[Len(u) + 1] = x
        /\ \A k \in 1 .. Len(u) : Append(u, x)[k] = u[k]
    BY AppendProperties
  <2>3. QED
    BY <2>1, <2>2, <1>2, Zenon
<1>4. Given(n) = {k \in 1 .. Len(u) : IsGiven(u[k])}
  BY <1>1 DEF Given, IsGiven
<1>5. Given(n)' = {k \in 1 .. Len(v) : IsGiven(v[k])}
  BY <1>2 DEF Given, IsGiven
<1>6. \A k : k \in 1 .. Len(v) <=> k \in 1 .. Len(u) \/ k = Len(u) + 1
  BY <1>3
<1>7. ASSUME ~IsGiven(x)
      PROVE  KeptGiven(n)
  <2>1. Given(n)' = Given(n)
    BY <1>3, <1>4, <1>5, <1>6, <1>7, Zenon
  <2>2. QED
    BY <2>1, <1>1, <1>2, <1>3, <1>4, Zenon DEF KeptGiven
<1>8. ASSUME IsGiven(x), Given(n) = {}
      PROVE  Given(n)' = {Len(u) + 1}
  BY <1>3, <1>4, <1>5, <1>6, <1>8, Zenon
<1>9. QED
  BY <1>1, <1>2, <1>3, <1>7, <1>8, Zenon

\* Whoever sets nothing and sees no directive keeps the setting as it is.
LEMMA KeepConfigured ==
  ASSUME Configured, Len(confs) \in Nat, Len(confs') \in Nat, Len(confs) <= Len(confs'),
         \A n \in 1 .. Len(confs) : KeptGiven(n),
         \A n \in 1 .. Len(confs') : n > Len(confs) => Given(n)' = {},
         UNCHANGED <<worker_processes, cw_ncpu>>, rv' # "error" => rv # "error"
  PROVE  Configured'
<1>1. SUFFICES ASSUME rv' # "error"
               PROVE  Configured'
  BY DEF Configured
<1>2. rv # "error"
  BY <1>1
<1>3. \A n \in 1 .. Len(confs') : \A k \in Given(n)' :
        n \in 1 .. Len(confs) /\ k \in Given(n) /\ confs'[n].seen[k] = confs[n].seen[k]
  <2>1. SUFFICES ASSUME NEW n \in 1 .. Len(confs'), NEW k \in Given(n)'
                 PROVE  n \in 1 .. Len(confs) /\ k \in Given(n) /\ confs'[n].seen[k] = confs[n].seen[k]
    OBVIOUS
  <2>2. n \in 1 .. Len(confs)
    <3>1. n \in 1 .. Len(confs) \/ n > Len(confs)
      OBVIOUS
    <3>2. QED
      BY <3>1, <2>1, Zenon
  <2>3. QED
    BY <2>1, <2>2, Zenon DEF KeptGiven
<1>4. \A m, n \in 1 .. Len(confs') : \A j \in Given(m)', k \in Given(n)' : m = n /\ j = k
  BY <1>2, <1>3, Zenon DEF Configured
<1>5. (\A n \in 1 .. Len(confs') : Given(n)' = {}) => worker_processes' = CW_CONF_UNSET
  <2>1. SUFFICES ASSUME \A n \in 1 .. Len(confs') : Given(n)' = {}
                 PROVE  worker_processes' = CW_CONF_UNSET
    OBVIOUS
  <2>2. \A n \in 1 .. Len(confs) : n \in 1 .. Len(confs')
    OBVIOUS
  <2>3. \A n \in 1 .. Len(confs) : Given(n) = {}
    BY <2>1, <2>2, Zenon DEF KeptGiven
  <2>4. worker_processes = CW_CONF_UNSET
    BY <2>3, <1>2, Zenon DEF Configured
  <2>5. QED
    BY <2>4
<1>6. ASSUME NEW n \in 1 .. Len(confs'), NEW k \in Given(n)'
      PROVE  Obeyed(confs[n].seen[k].value)'
  <2>1. n \in 1 .. Len(confs) /\ k \in Given(n) /\ confs'[n].seen[k] = confs[n].seen[k]
    BY <1>3, <1>6, Zenon
  <2>2. Obeyed(confs[n].seen[k].value)
    BY <2>1, <1>2, Zenon DEF Configured
  <2>3. confs'[n].seen[k].value = confs[n].seen[k].value
    BY <2>1, Zenon
  <2>4. worker_processes' = worker_processes /\ cw_ncpu' = cw_ncpu
    OBVIOUS
  <2>5. QED
    BY <2>2, <2>3, <2>4, Zenon DEF Obeyed
<1>7. QED
  BY <1>4, <1>5, <1>6 DEF Configured

\* The setter of a directive is chosen by its name.
LEMMA ChosenName ==
  ASSUME Directive, NEW set \in {"worker_processes", "http", "block", "include"}, Runs(set)
  PROVE  IsGiven(t) <=> set = "worker_processes"
<1>1. t.rc \in {"ok", "block"} /\ Accepted(t) /\ Chosen(t).set = set
  BY DEF Directive, Runs, Refused
<1>2. Candidates(t) # {} /\ Candidates(t) \subseteq 1 .. Len(Commands)
  BY <1>1 DEF Accepted, Candidates
<1>3. Candidates(t) \subseteq Nat
  BY <1>2, ConfParseAssumption
<1>4. Min(Candidates(t)) \in Candidates(t)
  BY <1>2, <1>3, MinOf
<1> DEFINE m == Min(Candidates(t))
<1> HIDE DEF m
<1>5. m \in 1 .. Len(Commands) /\ Commands[m].name = t.name /\ Commands[m].set = set
  BY <1>1, <1>2, <1>4 DEF Candidates, Chosen, m
<1>6. Commands[m].set = "worker_processes" <=> Commands[m].name = "worker_processes"
  BY <1>5, ConfParseAssumption, Zenon
<1>7. t.rc # "block_done"
  BY <1>1
<1>8. QED
  BY <1>5, <1>6, <1>7, Zenon DEF IsGiven

\* A directive worker_processes is run: it is the first one, and gives a number.
LEMMA RunWorkerConfigured ==
  ASSUME Typed, Chained, Configured, SomeProcessor, RunWorkerProcesses
  PROVE  Configured'
<1>1. SUFFICES ASSUME rv' # "error"
               PROVE  Configured'
  BY DEF Configured
<1>2. /\ Directive /\ Reading /\ Runs("worker_processes") /\ rv = "parsing"
      /\ confs' = Taken /\ cw_ncpu' = cw_ncpu
  BY DEF RunWorkerProcesses, Runs, Directive, Reading, Parsing
<1>3. IsGiven(t)
  BY <1>2, ChosenName
<1>4. /\ conf_file \in 1 .. Len(confs) /\ t \in Inputs
      /\ confs[conf_file].seen \in Seq(Inputs) /\ Len(Taken) = Len(confs)
      /\ Taken[conf_file].seen = Append(confs[conf_file].seen, t)
      /\ \A n \in 1 .. Len(confs) : n # conf_file => Taken[n] = confs[n]
  BY <1>2, TakenFacts
<1>5. t.value \in Seq(Int)
  <2>1. PICK f \in Params \cup Files : t \in Range(f)
    BY <1>4, Zenon DEF Inputs
  <2>2. QED
    BY <2>1, ConfParseAssumption, Zenon
<1>6. PICK word \in Seq(Int) : word = t.value
  BY <1>5, Zenon
<1> DEFINE number == IF word = auto THEN cw_ncpu ELSE cw_atoi(word)
<1>7. /\ worker_processes = CW_CONF_UNSET /\ worker_processes' = number
      /\ word # auto => number # CW_ERROR
  <2>1. /\ worker_processes' = cw_set_worker_processes(word).n
        /\ cw_set_worker_processes(word).rv # "error"
    BY <1>1, <1>6, Zenon DEF RunWorkerProcesses
  <2>2. worker_processes = CW_CONF_UNSET
    BY <2>1 DEF cw_set_worker_processes
  <2>3. cw_set_worker_processes(word)
          = [rv |-> IF word # auto /\ number = CW_ERROR THEN "error" ELSE "ok", n |-> number]
    BY <2>2, Zenon DEF cw_set_worker_processes
  <2> HIDE DEF number
  <2>4. QED
    BY <2>1, <2>2, <2>3
<1>8. \A n \in 1 .. Len(confs) : Given(n) = {}
  <2>1. SUFFICES ASSUME NEW n \in 1 .. Len(confs), NEW k \in Given(n)
                 PROVE  FALSE
    OBVIOUS
  <2>2. Obeyed(confs[n].seen[k].value)
    BY <1>2, <2>1 DEF Configured
  <2>3. worker_processes \in 0 .. CW_MAX_INT_T_VALUE
    BY <2>2 DEF Obeyed
  <2>4. QED
    BY <2>3, <1>7 DEF CW_CONF_UNSET
<1>9. Obeyed(word)'
  <2>1. /\ number \in 0 .. CW_MAX_INT_T_VALUE
        /\ number = IF word = auto THEN cw_ncpu ELSE Decimal(word)
        /\ word # auto => word # <<>> /\ Range(word) \subseteq 0 .. 9
    <3>1. CASE word = auto
      <4>1. cw_ncpu \in 0 .. CW_MAX_INT_T_VALUE
        BY ConfParseAssumption DEF SomeProcessor
      <4>2. QED
        BY <3>1, <4>1, Zenon
    <3>2. CASE word # auto
      <4>1. cw_atoi(word) # CW_ERROR
        BY <3>2, <1>7, Zenon
      <4>2. /\ word # <<>> /\ Range(word) \subseteq 0 .. 9
            /\ cw_atoi(word) \in 0 .. CW_MAX_INT_T_VALUE
            /\ cw_atoi(word) = Decimal(word)
        BY <4>1, AtoiDecimal, Zenon
      <4>3. QED
        BY <3>2, <4>2, Zenon
    <3>3. QED
      BY <3>1, <3>2, Zenon
  <2> HIDE DEF number
  <2>2. QED
    BY <2>1, <1>2, <1>7, Zenon DEF Obeyed
<1> HIDE DEF number
<1>10. PICK c \in 1 .. Len(confs) : c = conf_file
  BY <1>4, Zenon
<1>11. PICK last \in Nat : last = Len(confs[c].seen) + 1
  BY <1>4, <1>10
<1>12. Given(c)' = {last} /\ confs'[c].seen[last].value = word
  <2>1. confs[c].seen \in Seq(Inputs) /\ confs'[c].seen = Append(confs[c].seen, t)
    BY <1>2, <1>4, <1>10, Zenon
  <2>2. PICK x \in Inputs : x = t
    BY <1>4, Zenon
  <2>3. IsGiven(x) /\ Given(c) = {} /\ confs'[c].seen = Append(confs[c].seen, x)
    BY <2>1, <2>2, <1>3, <1>8, Zenon
  <2>4. Given(c)' = {Len(confs[c].seen) + 1} /\ confs'[c].seen[Len(confs[c].seen) + 1] = x
    BY <2>1, <2>3, GivenOne, Zenon
  <2>5. QED
    BY <2>2, <2>4, <1>6, <1>11, Zenon
<1>13. ASSUME NEW n \in 1 .. Len(confs), n # c
       PROVE  Given(n)' = {}
  <2>1. confs'[n].seen = confs[n].seen
    BY <1>2, <1>4, <1>10, <1>13, Zenon
  <2>2. QED
    BY <2>1, <1>8, GivenNone, Zenon DEF KeptGiven
<1>14. \A n \in 1 .. Len(confs') : \A k \in Given(n)' : n = c /\ k = last
  BY <1>2, <1>4, <1>12, <1>13, Zenon
<1>15. c \in 1 .. Len(confs') /\ Given(c)' # {}
  BY <1>2, <1>4, <1>12, Zenon
<1>16. ASSUME NEW n \in 1 .. Len(confs'), NEW k \in Given(n)'
       PROVE  Obeyed(confs[n].seen[k].value)'
  <2>1. confs'[n].seen[k].value = word
    BY <1>12, <1>14, <1>16, Zenon
  <2>2. QED
    BY <2>1, <1>9, Zenon DEF Obeyed
<1>17. QED
  BY <1>14, <1>15, <1>16, Zenon DEF Configured

\* A directive is seen that sets something else.
LEMMA OtherConfigured ==
  ASSUME Typed, Chained, Configured, Reading, ~IsGiven(t), rv' # "error" => rv # "error",
         NEW cs, cs = Taken, Len(cs) <= Len(confs'), Len(confs') \in Nat,
         \A n \in 1 .. Len(cs) : confs'[n] = cs[n],
         \A n \in 1 .. Len(confs') : n > Len(cs) => confs'[n].seen = <<>>,
         UNCHANGED <<worker_processes, cw_ncpu>>
  PROVE  Configured'
<1>1. /\ conf_file \in 1 .. Len(confs) /\ t \in Inputs
      /\ confs[conf_file].seen \in Seq(Inputs) /\ Len(Taken) = Len(confs)
      /\ Taken[conf_file].seen = Append(confs[conf_file].seen, t)
      /\ \A n \in 1 .. Len(confs) : n # conf_file => Taken[n] = confs[n]
  BY TakenFacts
<1>2. PICK c \in 1 .. Len(confs) : c = conf_file
  BY <1>1, Zenon
<1>3. PICK x \in Inputs : x = t
  BY <1>1, Zenon
<1>4. ASSUME NEW n \in 1 .. Len(confs)
      PROVE  KeptGiven(n)
  <2>1. CASE n = c
    <3>1. /\ confs[n].seen \in Seq(Inputs) /\ confs'[n].seen = Append(confs[n].seen, x)
          /\ ~IsGiven(x)
      BY <2>1, <1>1, <1>2, <1>3, <1>4, Zenon
    <3>2. QED
      BY <3>1, GivenOne, Zenon
  <2>2. CASE n # c
    <3>1. confs'[n].seen = confs[n].seen
      BY <2>2, <1>1, <1>2, <1>4, Zenon
    <3>2. QED
      BY <3>1, GivenNone, Zenon
  <2>3. QED
    BY <2>1, <2>2
<1>5. ASSUME NEW n \in 1 .. Len(confs'), n > Len(confs)
      PROVE  Given(n)' = {}
  BY <1>1, <1>5, GivenNew, Zenon
<1>6. Len(confs) \in Nat /\ Len(confs) <= Len(confs')
  BY <1>1 DEF Typed
<1>7. QED
  BY <1>4, <1>5, <1>6, KeepConfigured, Zenon

\* Nothing is seen, or what is not told.
LEMMA SameConfigured ==
  ASSUME Typed, Configured, rv' # "error" => rv # "error", Len(confs) <= Len(confs'),
         Len(confs') \in Nat,
         \A n \in 1 .. Len(confs) : confs'[n].seen = confs[n].seen,
         \A n \in 1 .. Len(confs') : n > Len(confs) => confs'[n].seen = <<>>,
         UNCHANGED <<worker_processes, cw_ncpu>>
  PROVE  Configured'
<1>1. ASSUME NEW n \in 1 .. Len(confs)
      PROVE  KeptGiven(n)
  BY <1>1, GivenNone, Zenon
<1>2. ASSUME NEW n \in 1 .. Len(confs'), n > Len(confs)
      PROVE  Given(n)' = {}
  BY <1>2, GivenNew, Zenon
<1>3. Len(confs) \in Nat
  BY DEF Typed
<1>4. QED
  BY <1>1, <1>2, <1>3, KeepConfigured, Zenon

\* A file is opened behind those there are.
LEMMA OpenedSeen ==
  ASSUME NEW cs \in Seq(ConfFile), OpenFile(cs)
  PROVE  /\ Len(cs) <= Len(confs') /\ Len(confs') \in Nat
         /\ \A n \in 1 .. Len(cs) : confs'[n] = cs[n]
         /\ \A n \in 1 .. Len(confs') : n > Len(cs) => confs'[n].seen = <<>>
<1>1. PICK f \in Files : confs' = Append(cs, [seen |-> <<>>, unread |-> f])
  BY DEF OpenFile
<1> DEFINE new == [seen |-> <<>>, unread |-> f]
<1>2. new.seen = <<>>
  OBVIOUS
<1>3. new \in ConfFile
  <2>1. f \in Seq(Range(f))
    BY ConfParseAssumption
  <2>2. Range(f) \subseteq Inputs
    BY DEF Inputs
  <2>3. f \in Seq(Inputs)
    BY <2>1, <2>2, SeqMonotonic
  <2>4. QED
    BY <2>3 DEF ConfFile
<1> HIDE DEF new
<1>4. Len(cs) \in Nat
  OBVIOUS
<1>5. /\ Len(confs') = Len(cs) + 1 /\ confs'[Len(cs) + 1] = new
      /\ \A n \in 1 .. Len(cs) : confs'[n] = cs[n]
  BY <1>1, <1>3, AppendProperties DEF new
<1>6. \A n \in 1 .. Len(confs') : n > Len(cs) => n = Len(cs) + 1
  BY <1>4, <1>5
<1>7. Len(cs) <= Len(confs') /\ Len(confs') \in Nat
  BY <1>4, <1>5
<1>8. QED
  BY <1>2, <1>5, <1>6, <1>7, Zenon

\* The processors that cw_os_init counts are a number of workers.
LEMMA ProcessorsCounted == Init => SomeProcessor
<1>1. ASSUME NEW n \in Online
      PROVE  cw_os_init(n) \in 1 .. CW_MAX_INT_T_VALUE
  BY <1>1, ConfParseAssumption DEF cw_os_init
<1>2. QED
  BY <1>1, Zenon DEF Init, SomeProcessor

\* Every step keeps the setting what the directive says.
LEMMA ConfiguredStep ==
  ASSUME IndInv, Configured, SomeProcessor, Next
  PROVE  Configured'
<1>1. Typed /\ Chained /\ Begun /\ confs \in Seq(ConfFile) /\ Len(confs) \in Nat
  BY DEF IndInv, Typed
<1>2. \A n \in 1 .. Len(confs) : ~(n > Len(confs))
  BY <1>1
<1>3. ASSUME rv' # "error" => rv # "error", UNCHANGED <<confs, worker_processes, cw_ncpu>>
      PROVE  Configured'
  <2>1. Len(confs) <= Len(confs') /\ Len(confs') \in Nat
    BY <1>1, <1>3
  <2>2. /\ \A n \in 1 .. Len(confs) : confs'[n].seen = confs[n].seen
        /\ \A n \in 1 .. Len(confs') : ~(n > Len(confs))
    BY <1>2, <1>3, Zenon
  <2>3. QED
    BY <2>1, <2>2, <1>1, <1>3, SameConfigured, Zenon
<1>4. ASSUME Reading, ~IsGiven(t), rv' # "error" => rv # "error", confs' = Taken,
             UNCHANGED <<worker_processes, cw_ncpu>>
      PROVE  Configured'
  <2>1. Len(Taken) = Len(confs)
    BY <1>1, <1>4, TakenFacts
  <2>2. Len(Taken) <= Len(confs') /\ Len(confs') \in Nat
    BY <2>1, <1>1, <1>4
  <2>3. /\ \A n \in 1 .. Len(Taken) : confs'[n] = Taken[n]
        /\ \A n \in 1 .. Len(confs') : ~(n > Len(Taken))
    BY <2>1, <1>2, <1>4, Zenon
  <2>4. QED
    BY <2>2, <2>3, <1>1, <1>4, OtherConfigured, Zenon
<1>5. CASE ParseParam
  <2>1. /\ confs = <<>> /\ rv = "none" /\ UNCHANGED <<worker_processes, cw_ncpu>>
    BY <1>1, <1>5 DEF ParseParam, Begun, settings
  <2>2. PICK p \in Params : confs' = confs \/ confs' = <<[seen |-> <<>>, unread |-> p]>>
    BY <1>5 DEF ParseParam
  <2>3. CASE confs' = confs
    BY <2>1, <2>3, <1>3
  <2>4. CASE confs' = <<[seen |-> <<>>, unread |-> p]>>
    <3>1. Len(confs) = 0
      BY <2>1
    <3>2. Len(confs') = 1 /\ confs'[1].seen = <<>>
      BY <2>4
    <3>3. /\ Len(confs) <= Len(confs') /\ Len(confs') \in Nat
          /\ \A n \in 1 .. Len(confs) : confs'[n].seen = confs[n].seen
          /\ \A n \in 1 .. Len(confs') : n > Len(confs) => confs'[n].seen = <<>>
      BY <3>1, <3>2
    <3>4. QED
      BY <3>3, <2>1, <1>1, SameConfigured
  <2>5. QED
    BY <2>2, <2>3, <2>4
<1>6. CASE ParseFile
  <2>1. rv = "ok" /\ UNCHANGED <<worker_processes, cw_ncpu>>
    BY <1>6 DEF ParseFile, settings
  <2>2. CASE OpenFile(confs)
    <3>1. /\ Len(confs) <= Len(confs') /\ Len(confs') \in Nat
          /\ \A n \in 1 .. Len(confs) : confs'[n] = confs[n]
          /\ \A n \in 1 .. Len(confs') : n > Len(confs) => confs'[n].seen = <<>>
      BY <2>2, <1>1, OpenedSeen
    <3>2. \A n \in 1 .. Len(confs) : confs'[n].seen = confs[n].seen
      BY <3>1, Zenon
    <3>3. QED
      BY <3>1, <3>2, <2>1, <1>1, SameConfigured
  <2>3. CASE OpenFails(confs)
    BY <2>1, <2>3, <1>3 DEF OpenFails
  <2>4. QED
    BY <1>6, <2>2, <2>3 DEF ParseFile
<1>7. CASE Done \/ TokenError \/ FileDone \/ Return
  <2>1. UNCHANGED <<confs, worker_processes, cw_ncpu>>
    BY <1>7 DEF Done, TokenError, FileDone, Return, Ends, settings
  <2>2. rv' # "error" => rv # "error"
    BY <1>7 DEF Done, TokenError, FileDone, Return, Ends, Parsing
  <2>3. QED
    BY <2>1, <2>2, <1>3
<1>8. CASE BlockDone
  <2>1. /\ Reading /\ ~IsGiven(t) /\ rv = "parsing" /\ confs' = Taken
        /\ UNCHANGED <<worker_processes, cw_ncpu>>
    BY <1>8 DEF BlockDone, Ends, IsGiven, Reading, Parsing, settings
  <2>2. rv # "error"
    BY <2>1
  <2>3. QED
    BY <2>1, <2>2, <1>4, Zenon
<1>9. CASE Refuse
  <2>1. rv' = "error"
    BY <1>9 DEF Refuse, Ends
  <2>2. QED
    BY <2>1 DEF Configured
<1>10. CASE RunHandler
  <2>1. /\ Reading /\ rv = "parsing" /\ confs' = Skipped
        /\ UNCHANGED <<worker_processes, cw_ncpu>>
    BY <1>10 DEF RunHandler, Directive, Reading, Parsing, settings
  <2>2. Len(Skipped) = Len(confs) /\ \A n \in 1 .. Len(confs) : Skipped[n].seen = confs[n].seen
    BY <2>1, <1>1, TakenFacts
  <2>3. Len(confs) <= Len(confs') /\ Len(confs') \in Nat /\ rv # "error"
    BY <2>1, <2>2, <1>1
  <2>4. /\ \A n \in 1 .. Len(confs) : confs'[n].seen = confs[n].seen
        /\ \A n \in 1 .. Len(confs') : ~(n > Len(confs))
    BY <2>1, <2>2, <1>2, Zenon
  <2>5. QED
    BY <2>1, <2>3, <2>4, <1>1, SameConfigured, Zenon
<1>11. CASE RunWorkerProcesses
  BY <1>1, <1>11, RunWorkerConfigured
<1>12. CASE RunHttp \/ RunBlock
  <2>1. /\ Reading /\ rv = "parsing" /\ confs' = Taken /\ Directive
        /\ Runs("http") \/ Runs("block")
        /\ UNCHANGED <<worker_processes, cw_ncpu>>
    BY <1>12 DEF RunHttp, RunBlock, Runs, Directive, Reading, Parsing, settings
  <2>2. ~IsGiven(t) /\ rv # "error"
    BY <2>1, ChosenName
  <2>3. QED
    BY <2>1, <2>2, <1>4, Zenon
<1>13. CASE RunInclude
  <2>1. /\ Reading /\ rv = "parsing" /\ Directive /\ Runs("include")
        /\ UNCHANGED <<worker_processes, cw_ncpu>>
    BY <1>13 DEF RunInclude, Runs, Directive, Reading, Parsing, settings
  <2>2. ~IsGiven(t) /\ rv # "error"
    BY <2>1, ChosenName
  <2>3. CASE OpenFile(Taken)
    <3>1. Taken \in Seq(ConfFile)
      BY <2>1, <1>1, TakenFacts
    <3>2. /\ Len(Taken) <= Len(confs') /\ Len(confs') \in Nat
          /\ \A n \in 1 .. Len(Taken) : confs'[n] = Taken[n]
          /\ \A n \in 1 .. Len(confs') : n > Len(Taken) => confs'[n].seen = <<>>
      BY <3>1, <2>3, OpenedSeen
    <3>3. QED
      BY <3>2, <2>1, <2>2, <1>1, OtherConfigured, Zenon
  <2>4. CASE OpenFails(Taken)
    BY <2>1, <2>2, <2>4, <1>4 DEF OpenFails
  <2>5. QED
    BY <1>13, <2>3, <2>4 DEF RunInclude
<1>14. QED
  BY <1>5, <1>6, <1>7, <1>8, <1>9, <1>10, <1>11, <1>12, <1>13 DEF Next

\* The number of workers is what the one directive says that there was, in
\* whichever file and block, and it is the number that its digits stand for.
THEOREM WorkersConfigured == Spec => []Configured
<1>1. Init => Configured /\ SomeProcessor
  <2>1. Init => confs = <<>> /\ worker_processes = CW_CONF_UNSET
    BY DEF Init, Fresh
  <2>2. Len(<<>>) = 0 /\ 1 .. 0 = {}
    OBVIOUS
  <2>3. Init => Configured
    BY <2>1, <2>2, Zenon DEF Configured
  <2>4. QED
    BY <2>3, ProcessorsCounted
<1>2. ASSUME IndInv, Configured, SomeProcessor, [Next]_vars
      PROVE  Configured' /\ SomeProcessor'
  <2>1. CASE Next
    <3>1. cw_ncpu' = cw_ncpu
      BY <2>1 DEF Next, ParseParam, ParseFile, Done, TokenError, BlockDone, FileDone, Refuse,
         RunHandler, RunWorkerProcesses, RunHttp, RunBlock, RunInclude, Return, Ends, settings
    <3>2. QED
      BY <3>1, <2>1, <1>2, ConfiguredStep DEF SomeProcessor
  <2>2. CASE UNCHANGED vars
    <3>1. UNCHANGED <<rv, confs, worker_processes, cw_ncpu>>
      BY <2>2 DEF vars, settings
    <3>2. Typed /\ Len(confs) \in Nat
      BY <1>2 DEF IndInv, Typed
    <3>3. Len(confs) <= Len(confs') /\ Len(confs') \in Nat /\ (rv' # "error" => rv # "error")
      BY <3>1, <3>2
    <3>4. /\ \A n \in 1 .. Len(confs) : confs'[n].seen = confs[n].seen
          /\ \A n \in 1 .. Len(confs') : ~(n > Len(confs))
      BY <3>1, <3>2
    <3>5. Configured'
      BY <3>1, <3>2, <3>3, <3>4, <1>2, SameConfigured
    <3>6. QED
      BY <3>1, <3>5, <1>2 DEF SomeProcessor
  <2>3. QED
    BY <1>2, <2>1, <2>2
<1>3. QED
  BY <1>1, <1>2, Invariance, PTL DEF Spec

----------------------------------------------------------------------------
(***************************************************************************)
(* The block that is left.                                                 *)
(***************************************************************************)

\* A block that is opened without an error is left by cw_http_block, for which
\* it is the first one, or it is parsed.
LEMMA DirectiveKinds ==
  ASSUME Directive, NEW set \in {"worker_processes", "http", "block", "include"}, Runs(set)
  PROVE  /\ LeavesBlock(t) => set = "http"
         /\ t.rc = "block" => ParsesBlock(t) \/ LeavesBlock(t)
<1>1. t.rc \in {"ok", "block"} /\ Accepted(t) /\ Chosen(t).set = set
  BY DEF Directive, Runs, Refused
<1>2. Candidates(t) # {} /\ Candidates(t) \subseteq 1 .. Len(Commands)
  BY <1>1 DEF Accepted, Candidates
<1>3. Candidates(t) \subseteq Nat
  BY <1>2, ConfParseAssumption
<1>4. Min(Candidates(t)) \in Candidates(t)
  BY <1>2, <1>3, MinOf
<1>5. PICK m \in 1 .. Len(Commands) : m = Min(Candidates(t))
  BY <1>2, <1>4
<1>6. /\ Commands[m].name = t.name /\ Commands[m].set = set
      /\ Commands[m].block = (t.rc = "block")
  BY <1>1, <1>4, <1>5 DEF Candidates, Chosen, Accepted, Terminated
<1>7. ASSUME LeavesBlock(t)
      PROVE  set = "http"
  <2>1. PICK k \in 1 .. Len(Commands) : Commands[k].name = t.name /\ Commands[k].set = "http"
    BY <1>7 DEF LeavesBlock
  <2>2. Commands[k].block
    BY <2>1, ConfParseAssumption
  <2>3. QED
    BY <2>1, <2>2, <1>6, ConfParseAssumption
<1>8. ASSUME t.rc = "block"
      PROVE  ParsesBlock(t) \/ LeavesBlock(t)
  <2>1. Commands[m].set \in {"http", "block"}
    BY <1>6, <1>8, ConfParseAssumption
  <2>2. QED
    BY <2>1, <1>6, <1>8 DEF ParsesBlock, LeavesBlock
<1>9. QED
  BY <1>7, <1>8

\* What a step that is no error shows of the files: nothing, or the next token
\* of cf->conf_file.
Shows ==
  /\ rv # "error"
  /\ Len(confs) <= Len(confs') /\ Len(confs') \in Nat
  /\ \A n \in 1 .. Len(confs') : n > Len(confs) => confs'[n].seen = <<>>
  /\ \/ (http => http') /\ \A n \in 1 .. Len(confs) : confs'[n].seen = confs[n].seen
     \/ /\ conf_file \in 1 .. Len(confs) /\ t \in Inputs
        /\ confs[conf_file].seen \in Seq(Inputs)
        /\ confs'[conf_file].seen = Append(confs[conf_file].seen, t)
        /\ \A n \in 1 .. Len(confs) : n # conf_file => confs'[n].seen = confs[n].seen
        /\ t.rc = "block" => ParsesBlock(t) \/ LeavesBlock(t)
        /\ http => http'
        /\ LeavesBlock(t) => ~http /\ http'

\* Every step is one of these.
LEMMA ShowsStep ==
  ASSUME IndInv, Next, rv' # "error"
  PROVE  Shows
<1>1. Typed /\ Chained /\ Begun /\ confs \in Seq(ConfFile) /\ Len(confs) \in Nat
  BY DEF IndInv, Typed
<1>2. \A n \in 1 .. Len(confs) : ~(n > Len(confs))
  BY <1>1
<1>3. ASSUME rv # "error", confs' = confs, http' = http
      PROVE  Shows
  <2>1. Len(confs) <= Len(confs') /\ Len(confs') \in Nat
    BY <1>1, <1>3
  <2>2. QED
    BY <2>1, <1>2, <1>3, Zenon DEF Shows
<1>4. ASSUME Reading, rv # "error", Len(confs) <= Len(confs'), Len(confs') \in Nat,
             \A n \in 1 .. Len(confs) : confs'[n] = Taken[n],
             \A n \in 1 .. Len(confs') : n > Len(confs) => confs'[n].seen = <<>>,
             t.rc = "block" => ParsesBlock(t) \/ LeavesBlock(t),
             http => http', LeavesBlock(t) => ~http /\ http'
      PROVE  Shows
  <2>1. /\ conf_file \in 1 .. Len(confs) /\ t \in Inputs
        /\ confs[conf_file].seen \in Seq(Inputs)
        /\ Taken[conf_file].seen = Append(confs[conf_file].seen, t)
        /\ \A n \in 1 .. Len(confs) : n # conf_file => Taken[n] = confs[n]
    BY <1>1, <1>4, TakenFacts
  <2>2. /\ confs'[conf_file].seen = Append(confs[conf_file].seen, t)
        /\ \A n \in 1 .. Len(confs) : n # conf_file => confs'[n].seen = confs[n].seen
    BY <2>1, <1>4, Zenon
  <2>3. QED
    BY <2>1, <2>2, <1>4, Zenon DEF Shows
<1>5. ASSUME Reading, confs' = Taken
      PROVE  /\ Len(confs) <= Len(confs') /\ Len(confs') \in Nat
             /\ \A n \in 1 .. Len(confs) : confs'[n] = Taken[n]
             /\ \A n \in 1 .. Len(confs') : n > Len(confs) => confs'[n].seen = <<>>
  <2>1. Len(Taken) = Len(confs)
    BY <1>1, <1>5, TakenFacts
  <2>2. Len(confs) <= Len(confs') /\ Len(confs') \in Nat
    BY <2>1, <1>1, <1>5
  <2>3. QED
    BY <2>1, <2>2, <1>2, <1>5, Zenon
<1>6. CASE ParseParam
  <2>1. confs = <<>> /\ rv = "none" /\ http' = http
    BY <1>1, <1>6 DEF ParseParam, Begun, settings
  <2>2. PICK p \in Params : confs' = confs \/ confs' = <<[seen |-> <<>>, unread |-> p]>>
    BY <1>6 DEF ParseParam
  <2>3. CASE confs' = confs
    BY <2>1, <2>3, <1>3
  <2>4. CASE confs' = <<[seen |-> <<>>, unread |-> p]>>
    <3>1. Len(confs) = 0
      BY <2>1
    <3>2. Len(confs') = 1 /\ confs'[1].seen = <<>>
      BY <2>4
    <3>3. /\ Len(confs) <= Len(confs') /\ Len(confs') \in Nat /\ rv # "error"
          /\ \A n \in 1 .. Len(confs) : confs'[n].seen = confs[n].seen
          /\ \A n \in 1 .. Len(confs') : n > Len(confs) => confs'[n].seen = <<>>
      BY <3>1, <3>2, <2>1
    <3>4. QED
      BY <3>3, <2>1, Zenon DEF Shows
  <2>5. QED
    BY <2>2, <2>3, <2>4
<1>7. CASE ParseFile
  <2>1. rv = "ok" /\ http' = http /\ OpenFile(confs)
    BY <1>7 DEF ParseFile, OpenFails, settings
  <2>2. /\ Len(confs) <= Len(confs') /\ Len(confs') \in Nat
        /\ \A n \in 1 .. Len(confs) : confs'[n] = confs[n]
        /\ \A n \in 1 .. Len(confs') : n > Len(confs) => confs'[n].seen = <<>>
    BY <2>1, <1>1, OpenedSeen
  <2>3. rv # "error"
    BY <2>1
  <2>4. QED
    BY <2>1, <2>2, <2>3, Zenon DEF Shows
<1>8. CASE Done \/ TokenError \/ FileDone \/ Return
  <2>1. confs' = confs /\ http' = http
    BY <1>8 DEF Done, TokenError, FileDone, Return, Ends, settings
  <2>2. rv # "error"
    BY <1>8 DEF Done, TokenError, FileDone, Return, Ends, Parsing
  <2>3. QED
    BY <2>1, <2>2, <1>3
<1>9. CASE BlockDone
  <2>1. /\ Reading /\ rv # "error" /\ confs' = Taken /\ http' = http
        /\ t.rc # "block" /\ ~LeavesBlock(t)
    BY <1>9 DEF BlockDone, Ends, Reading, Parsing, settings, LeavesBlock
  <2>2. QED
    BY <2>1, <1>4, <1>5, Zenon
<1>10. CASE Refuse
  BY <1>10 DEF Refuse, Ends
<1>11. CASE RunHandler
  <2>1. Reading /\ rv # "error" /\ confs' = Skipped /\ http' = http
    BY <1>11 DEF RunHandler, Directive, Reading, Parsing, settings
  <2>2. Len(Skipped) = Len(confs) /\ \A n \in 1 .. Len(confs) : Skipped[n].seen = confs[n].seen
    BY <2>1, <1>1, TakenFacts
  <2>3. Len(confs) <= Len(confs') /\ Len(confs') \in Nat
    BY <2>1, <2>2, <1>1
  <2>4. /\ \A n \in 1 .. Len(confs) : confs'[n].seen = confs[n].seen
        /\ \A n \in 1 .. Len(confs') : ~(n > Len(confs))
    BY <2>1, <2>2, <1>2, Zenon
  <2>5. QED
    BY <2>1, <2>3, <2>4, Zenon DEF Shows
<1>12. CASE RunWorkerProcesses \/ RunBlock
  <2>1. /\ Reading /\ rv # "error" /\ confs' = Taken /\ Directive /\ http' = http
        /\ Runs("worker_processes") \/ Runs("block")
    BY <1>12 DEF RunWorkerProcesses, RunBlock, Runs, Directive, Reading, Parsing, settings
  <2>2. ~LeavesBlock(t) /\ (t.rc = "block" => ParsesBlock(t) \/ LeavesBlock(t))
    BY <2>1, DirectiveKinds
  <2>3. QED
    BY <2>1, <2>2, <1>4, <1>5, Zenon
<1>13. CASE RunHttp
  <2>1. /\ Reading /\ rv # "error" /\ confs' = Taken /\ Directive /\ Runs("http")
        /\ ~http /\ http'
    BY <1>13 DEF RunHttp, Runs, Directive, Reading, Parsing
  <2>2. t.rc = "block" => ParsesBlock(t) \/ LeavesBlock(t)
    BY <2>1, DirectiveKinds
  <2>3. QED
    BY <2>1, <2>2, <1>4, <1>5, Zenon
<1>14. CASE RunInclude
  <2>1. Reading /\ rv # "error" /\ Directive /\ Runs("include") /\ http' = http /\ OpenFile(Taken)
    BY <1>14 DEF RunInclude, OpenFails, Runs, Directive, Reading, Parsing, settings
  <2>2. ~LeavesBlock(t) /\ (t.rc = "block" => ParsesBlock(t) \/ LeavesBlock(t))
    BY <2>1, DirectiveKinds
  <2>3. Taken \in Seq(ConfFile) /\ Len(Taken) = Len(confs)
    BY <2>1, <1>1, TakenFacts
  <2>4. /\ Len(Taken) <= Len(confs') /\ Len(confs') \in Nat
        /\ \A n \in 1 .. Len(Taken) : confs'[n] = Taken[n]
        /\ \A n \in 1 .. Len(confs') : n > Len(Taken) => confs'[n].seen = <<>>
    BY <2>1, <2>3, OpenedSeen
  <2>5. QED
    BY <2>1, <2>2, <2>3, <2>4, <1>4, Zenon
<1>15. QED
  BY <1>6, <1>7, <1>8, <1>9, <1>10, <1>11, <1>12, <1>13, <1>14 DEF Next

\* Where blocks are left, when the files show nothing more or one token more.
LEMMA LeftSeen ==
  ASSUME NEW n
  PROVE  /\ confs'[n].seen = confs[n].seen => Left(n)' = Left(n)
         /\ confs'[n].seen = <<>> => Left(n)' = {}
         /\ \A x \in Inputs :
              confs[n].seen \in Seq(Inputs) /\ confs'[n].seen = Append(confs[n].seen, x) =>
                Left(n)' = Left(n) \cup (IF LeavesBlock(x) THEN {Len(confs[n].seen) + 1} ELSE {})
<1>1. confs'[n].seen = confs[n].seen => Left(n)' = Left(n)
  BY Zenon DEF Left, LeavesBlock
<1>2. confs'[n].seen = <<>> => Left(n)' = {}
  <2>1. 1 .. Len(<<>>) = {}
    OBVIOUS
  <2>2. QED
    BY <2>1, Zenon DEF Left
<1>3. ASSUME NEW x \in Inputs, confs[n].seen \in Seq(Inputs),
             confs'[n].seen = Append(confs[n].seen, x)
      PROVE  Left(n)' = Left(n) \cup (IF LeavesBlock(x) THEN {Len(confs[n].seen) + 1} ELSE {})
  <2>1. PICK s \in Seq(Inputs) : s = confs[n].seen
    BY <1>3, Zenon
  <2>2. PICK r : r = Append(s, x)
    OBVIOUS
  <2>3. /\ Len(s) \in Nat /\ Len(r) = Len(s) + 1 /\ r[Len(s) + 1] = x
        /\ \A k \in 1 .. Len(s) : r[k] = s[k]
    BY <2>2
  <2>4. \A k : k \in 1 .. Len(s) + 1 <=> k \in 1 .. Len(s) \/ k = Len(s) + 1
    BY <2>3
  <2>5. Left(n) = {k \in 1 .. Len(s) : LeavesBlock(s[k])}
    BY <2>1, Zenon DEF Left
  <2>6. Left(n)' = {k \in 1 .. Len(s) + 1 : LeavesBlock(r[k])}
    <3>1. Left(n)' = {k \in 1 .. Len(confs'[n].seen) : LeavesBlock(confs'[n].seen[k])}
      BY DEF Left, LeavesBlock
    <3>2. confs'[n].seen = r
      BY <2>1, <2>2, <1>3, Zenon
    <3>3. QED
      BY <3>1, <3>2, <2>3, Zenon
  <2>7. QED
    BY <2>1, <2>3, <2>4, <2>5, <2>6
<1>4. QED
  BY <1>1, <1>2, <1>3, Zenon

\* LeftOnce after a step, by its parts.
Told(x)  == x.rc = "block" => ParsesBlock(x) \/ LeavesBlock(x)
AllTold  == \A n \in 1 .. Len(confs) : \A k \in 1 .. Len(confs[n].seen) : Told(confs[n].seen[k])
OneLeft  == \A m, n \in 1 .. Len(confs) : \A j \in Left(m), k \in Left(n) : m = n /\ j = k
HttpLeft == \A n \in 1 .. Len(confs) : Left(n) # {} => http

LEMMA LeftOnceParts ==
  /\ LeftOnce <=> (rv # "error" => AllTold /\ OneLeft /\ HttpLeft)
  /\ LeftOnce' <=> (rv' # "error" => AllTold' /\ OneLeft' /\ HttpLeft')
BY Zenon DEF LeftOnce, AllTold, OneLeft, HttpLeft, Told, ParsesBlock, LeavesBlock

\* Every step leaves at most one block in all.
LEMMA LeftOnceStep ==
  ASSUME IndInv, LeftOnce, Next
  PROVE  LeftOnce'
<1>1. SUFFICES ASSUME rv' # "error"
               PROVE  AllTold' /\ OneLeft' /\ HttpLeft'
  BY LeftOnceParts
<1>2. Shows /\ Len(confs) \in Nat
  BY <1>1, ShowsStep DEF IndInv, Typed
<1>3. /\ Len(confs) <= Len(confs') /\ Len(confs') \in Nat /\ (http => http')
      /\ \A n \in 1 .. Len(confs') : n > Len(confs) => confs'[n].seen = <<>>
      /\ \A n \in 1 .. Len(confs) : \A k \in 1 .. Len(confs[n].seen) : Told(confs[n].seen[k])
      /\ \A m, n \in 1 .. Len(confs) : \A j \in Left(m), k \in Left(n) : m = n /\ j = k
      /\ \A n \in 1 .. Len(confs) : Left(n) # {} => http
  BY <1>2, LeftOnceParts, Zenon DEF Shows, AllTold, OneLeft, HttpLeft
<1>4. \A n \in 1 .. Len(confs') : n \in 1 .. Len(confs) \/ (confs'[n].seen = <<>> /\ n > Len(confs))
  BY <1>2, <1>3
<1>5. 1 .. Len(<<>>) = {}
  OBVIOUS
<1>6. \A n \in 1 .. Len(confs') : n \notin 1 .. Len(confs) =>
        Left(n)' = {} /\ \A k \in 1 .. Len(confs'[n].seen) : FALSE
  BY <1>4, <1>5, LeftSeen, Zenon
<1>7. CASE \A n \in 1 .. Len(confs) : confs'[n].seen = confs[n].seen
  <2>1. \A n \in 1 .. Len(confs) : Left(n)' = Left(n)
    BY <1>7, LeftSeen, Zenon
  <2>2. \A n \in 1 .. Len(confs') : \A k \in 1 .. Len(confs'[n].seen) : Told(confs'[n].seen[k])
    BY <1>3, <1>6, <1>7, Zenon
  <2>3. AllTold'
    BY <2>2, Zenon DEF AllTold, Told, ParsesBlock, LeavesBlock
  <2>4. OneLeft' /\ HttpLeft'
    <3>1. \A n \in 1 .. Len(confs') : \A k \in Left(n)' : n \in 1 .. Len(confs) /\ k \in Left(n)
      BY <2>1, <1>6, Zenon
    <3>2. OneLeft'
      BY <3>1, <1>3, Zenon DEF OneLeft
    <3>3. HttpLeft'
      BY <3>1, <1>3 DEF HttpLeft
    <3>4. QED
      BY <3>2, <3>3
  <2>5. QED
    BY <2>3, <2>4
<1>8. CASE ~\A n \in 1 .. Len(confs) : confs'[n].seen = confs[n].seen
  <2>1. /\ conf_file \in 1 .. Len(confs) /\ t \in Inputs
        /\ confs[conf_file].seen \in Seq(Inputs)
        /\ confs'[conf_file].seen = Append(confs[conf_file].seen, t)
        /\ \A n \in 1 .. Len(confs) : n # conf_file => confs'[n].seen = confs[n].seen
        /\ Told(t)
        /\ LeavesBlock(t) => ~http /\ http'
    BY <1>2, <1>8, Zenon DEF Shows, Told
  <2>2. PICK x \in Inputs : x = t
    BY <2>1, Zenon
  <2>3. PICK c \in 1 .. Len(confs) : c = conf_file
    BY <2>1, Zenon
  <2>4. PICK s \in Seq(Inputs) : s = confs[c].seen
    BY <2>1, <2>3, Zenon
  <2>5. /\ confs'[c].seen = Append(s, x) /\ Told(x) /\ (LeavesBlock(x) => ~http /\ http')
        /\ \A n \in 1 .. Len(confs) : n # c => confs'[n].seen = confs[n].seen
    BY <2>1, <2>2, <2>3, <2>4, Zenon
  <2>6. /\ Left(c)' = Left(c) \cup (IF LeavesBlock(x) THEN {Len(s) + 1} ELSE {})
        /\ \A n \in 1 .. Len(confs) : n # c => Left(n)' = Left(n)
    BY <2>4, <2>5, LeftSeen, Zenon
  <2>7. ASSUME NEW n \in 1 .. Len(confs'), NEW k \in 1 .. Len(confs'[n].seen)
        PROVE  Told(confs'[n].seen[k])
    <3>1. CASE n = c
      <4>1. Append(s, x)[k] = x \/ (k \in 1 .. Len(s) /\ Append(s, x)[k] = s[k])
        <5>1. k \in 1 .. Len(Append(s, x))
          BY <2>5, <2>7, <3>1, Zenon
        <5>2. QED
          BY <5>1
      <4>2. QED
        BY <4>1, <3>1, <2>4, <2>5, <1>3, Zenon
    <3>2. CASE n # c
      BY <3>2, <2>5, <2>7, <1>3, <1>6, Zenon
    <3>3. QED
      BY <3>1, <3>2
  <2>8. AllTold'
    BY <2>7, Zenon DEF AllTold, Told, ParsesBlock, LeavesBlock
  <2>9. CASE ~LeavesBlock(x)
    <3>1. \A n \in 1 .. Len(confs) : Left(n)' = Left(n)
      BY <2>6, <2>9, Zenon
    <3>2. OneLeft' /\ HttpLeft'
      <4>1. \A n \in 1 .. Len(confs') : \A k \in Left(n)' : n \in 1 .. Len(confs) /\ k \in Left(n)
        BY <3>1, <1>6, Zenon
      <4>2. OneLeft'
        BY <4>1, <1>3, Zenon DEF OneLeft
      <4>3. HttpLeft'
        BY <4>1, <1>3 DEF HttpLeft
      <4>4. QED
        BY <4>2, <4>3
    <3>3. QED
      BY <3>2, <2>8
  <2>10. CASE LeavesBlock(x)
    <3>1. \A n \in 1 .. Len(confs) : Left(n) = {}
      BY <2>5, <2>10, <1>3, Zenon
    <3>2. Left(c)' = {Len(s) + 1} /\ \A n \in 1 .. Len(confs) : n # c => Left(n)' = {}
      BY <3>1, <2>6, <2>10
    <3>3. \A n \in 1 .. Len(confs') : \A k \in Left(n)' : n = c /\ k = Len(s) + 1
      BY <3>2, <1>6, Zenon
    <3>4. http'
      BY <2>5, <2>10, Zenon
    <3>5. OneLeft' /\ HttpLeft'
      BY <3>3, <3>4, Zenon DEF OneLeft, HttpLeft
    <3>6. QED
      BY <3>5, <2>8
  <2>11. QED
    BY <2>9, <2>10
<1>9. QED
  BY <1>7, <1>8

\* The braces that were opened are those that are parsed and those that are left.
LEMMA OpenedParts ==
  ASSUME Typed, LeftOnce, rv # "error", NEW n \in 1 .. Len(confs)
  PROVE  /\ Opened(n) = Parsed(n) + Cardinality(Left(n))
         /\ Parsed(n) \in Nat /\ Cardinality(Left(n)) \in Nat /\ Closed(n) \in Nat
<1>1. PICK s \in Seq(Inputs) : s = confs[n].seen
  <2>1. confs[n] \in ConfFile
    BY DEF Typed
  <2>2. confs[n].seen \in Seq(Inputs)
    BY <2>1 DEF ConfFile
  <2>3. QED
    BY <2>2, Zenon
<1>2. Len(s) \in Nat /\ IsFiniteSet(1 .. Len(s))
  BY FS_Interval
<1> DEFINE P == {k \in 1 .. Len(s) : ParsesBlock(s[k])}
           L == {k \in 1 .. Len(s) : LeavesBlock(s[k])}
           B == {k \in 1 .. Len(s) : s[k].rc = "block"}
           C == {k \in 1 .. Len(s) : s[k].rc = "block_done"}
<1>3. /\ Opened(n) = Cardinality(B) /\ Parsed(n) = Cardinality(P) /\ Left(n) = L
      /\ Closed(n) = Cardinality(C)
  BY <1>1, Zenon DEF Opened, Parsed, Left, Closed
<1>4. P \subseteq 1 .. Len(s) /\ L \subseteq 1 .. Len(s) /\ C \subseteq 1 .. Len(s)
  OBVIOUS
<1>5. B = P \cup L
  <2>1. \A k \in 1 .. Len(s) : s[k].rc = "block" => ParsesBlock(s[k]) \/ LeavesBlock(s[k])
    BY <1>1, Zenon DEF LeftOnce
  <2>2. \A x : ParsesBlock(x) \/ LeavesBlock(x) => x.rc = "block"
    BY Zenon DEF ParsesBlock, LeavesBlock
  <2>3. QED
    BY <2>1, <2>2, Zenon
<1>6. P \cap L = {}
  <2>1. ASSUME NEW x, ParsesBlock(x), LeavesBlock(x)
        PROVE  FALSE
    <3>1. PICK j \in 1 .. Len(Commands) : Commands[j].name = x.name /\ Commands[j].set = "block"
      BY <2>1 DEF ParsesBlock
    <3>2. PICK k \in 1 .. Len(Commands) : Commands[k].name = x.name /\ Commands[k].set = "http"
      BY <2>1 DEF LeavesBlock
    <3>3. Commands[k].block
      BY <3>2, ConfParseAssumption
    <3>4. QED
      BY <3>1, <3>2, <3>3, ConfParseAssumption
  <2>2. QED
    BY <2>1, Zenon
<1> HIDE DEF P, L, B, C
<1>7. IsFiniteSet(P) /\ IsFiniteSet(L) /\ IsFiniteSet(C)
  BY <1>2, <1>4, FS_Subset
<1>8. Cardinality(P) \in Nat /\ Cardinality(L) \in Nat /\ Cardinality(C) \in Nat
  BY <1>7, FS_CardinalityType
<1>9. Cardinality(P \cup L) = Cardinality(P) + Cardinality(L) - Cardinality(P \cap L)
  BY <1>7, FS_Union
<1>10. Cardinality(P \cap L) = 0
  BY <1>6, FS_EmptySet
<1>11. QED
  BY <1>3, <1>5, <1>8, <1>9, <1>10

\* Together they are what is said of the braces.
LEMMA LeftMatched ==
  ASSUME IndInv, LeftOnce
  PROVE  BracesMatch
<1>1. Typed /\ Paired
  BY DEF IndInv
<1>2. SUFFICES ASSUME rv \in {"parsing", "ok"}
               PROVE  BracesMatch
  BY DEF BracesMatch
<1>3. ASSUME NEW n \in 1 .. Len(confs)
      PROVE  Opened(n) = Closed(n) + Cardinality(OpenBlocks(n)) + Cardinality(Left(n))
  <2>1. /\ Opened(n) = Parsed(n) + Cardinality(Left(n))
        /\ Parsed(n) \in Nat /\ Cardinality(Left(n)) \in Nat /\ Closed(n) \in Nat
    BY <1>1, <1>2, <1>3, OpenedParts
  <2>2. Cardinality(OpenBlocks(n)) = Parsed(n) - Closed(n)
    BY <1>1, <1>2, <1>3 DEF Paired
  <2>3. Cardinality(OpenBlocks(n)) \in Nat
    BY <1>1, BlocksFinite
  <2>4. QED
    BY <2>1, <2>2, <2>3
<1>4. QED
  BY <1>2, <1>3 DEF BracesMatch, LeftOnce

\* cw_conf_parse accepts a file only when every "{" in it has its "}" in the
\* same file, except the "{" of http, of which it accepts one.
THEOREM AllMatched == Spec => []BracesMatch
<1>1. Init => LeftOnce
  <2>1. Init => confs = <<>>
    BY DEF Init, Fresh
  <2>2. Len(<<>>) = 0 /\ 1 .. 0 = {}
    OBVIOUS
  <2>3. QED
    BY <2>1, <2>2, Zenon DEF LeftOnce
<1>2. ASSUME IndInv, LeftOnce, [Next]_vars
      PROVE  LeftOnce'
  <2>1. CASE UNCHANGED vars
    <3>1. UNCHANGED <<rv, confs, http>>
      BY <2>1 DEF vars, settings
    <3>2. \A n : Left(n)' = Left(n)
      BY <3>1, LeftSeen, Zenon
    <3>3. AllTold => AllTold'
      BY <3>1, Zenon DEF AllTold, Told, ParsesBlock, LeavesBlock
    <3>4. (OneLeft => OneLeft') /\ (HttpLeft => HttpLeft')
      <4>1. OneLeft => OneLeft'
        <5>1. \A n \in 1 .. Len(confs') : n \in 1 .. Len(confs) /\ Left(n)' = Left(n)
          BY <3>1, <3>2
        <5>2. QED
          BY <5>1 DEF OneLeft
      <4>2. HttpLeft => HttpLeft'
        BY <3>1, <3>2 DEF HttpLeft
      <4>3. QED
        BY <4>1, <4>2
    <3>5. QED
      BY <3>1, <3>3, <3>4, <1>2, LeftOnceParts
  <2>2. QED
    BY <2>1, <1>2, LeftOnceStep
<1>3. IndInv /\ LeftOnce => BracesMatch
  BY LeftMatched
<1>4. QED
  BY <1>1, <1>2, <1>3, Invariance, PTL DEF Spec

=============================================================================
