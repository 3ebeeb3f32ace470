-------------------------- MODULE GeneratorProofs --------------------------
(***************************************************************************)
(* Proofs about module Generator, for every head.h that has the shape the  *)
(* script is written for: what is written compiles and has every member.   *)
(* Both follow from the inductive invariant IndInv.                        *)
(***************************************************************************)
EXTENDS Generator, NatFacts, SequenceTheorems

----------------------------------------------------------------------------
(***************************************************************************)
(* The recursive functions.                                                *)
(***************************************************************************)

\* What the recursive function of Compiled is.
CompiledBy(f, struct, body) ==
  f = [n \in 0 .. Len(body) |->
         IF n = 0 THEN [ok |-> TRUE, blocks |-> <<{struct}>>] ELSE Compile(f[n - 1], body[n])]

\* It begins with the parameter and goes from a statement to the next.
CompiledRun(f, struct, body) ==
  /\ DOMAIN f = 0 .. Len(body)
  /\ f[0] = [ok |-> TRUE, blocks |-> <<{struct}>>]
  /\ \A n \in 1 .. Len(body) : f[n] = Compile(f[n - 1], body[n])

\* The recursive function is such a run.
LEMMA CompiledSteps ==
  ASSUME NEW f, NEW struct, NEW body, Len(body) \in Nat, CompiledBy(f, struct, body)
  PROVE  CompiledRun(f, struct, body)
<1> DEFINE G(n) == IF n = 0 THEN [ok |-> TRUE, blocks |-> <<{struct}>>]
                   ELSE Compile(f[n - 1], body[n])
<1>1. f = [n \in 0 .. Len(body) |-> G(n)]
  BY Zenon DEF CompiledBy
<1>2. \A n \in 0 .. Len(body) : f[n] = G(n)
  <2> HIDE DEF G
  <2>1. QED
    BY <1>1, Zenon
<1>3. DOMAIN f = 0 .. Len(body)
  <2> HIDE DEF G
  <2>1. QED
    BY <1>1, Zenon
<1>4. 0 \in 0 .. Len(body) /\ \A n \in 1 .. Len(body) : n \in 0 .. Len(body) /\ n # 0
  OBVIOUS
<1>5. QED
  BY <1>2, <1>3, <1>4, Zenon DEF CompiledRun

\* There is one such function for a body.
LEMMA CompiledUnique ==
  ASSUME NEW f, NEW g, NEW struct, NEW body, Len(body) \in Nat,
         CompiledBy(f, struct, body), CompiledBy(g, struct, body)
  PROVE  f = g
<1> DEFINE N == Len(body)
           S == {n \in Nat : n <= N => f[n] = g[n]}
<1>a. Len(body) \in Nat
  OBVIOUS
<1>1. /\ DOMAIN f = 0 .. N /\ f[0] = [ok |-> TRUE, blocks |-> <<{struct}>>]
      /\ \A n \in 1 .. N : f[n] = Compile(f[n - 1], body[n])
  BY <1>a, CompiledSteps DEF CompiledRun
<1>2. /\ DOMAIN g = 0 .. N /\ g[0] = [ok |-> TRUE, blocks |-> <<{struct}>>]
      /\ \A n \in 1 .. N : g[n] = Compile(g[n - 1], body[n])
  BY <1>a, CompiledSteps DEF CompiledRun
<1>3. 0 \in S
  BY <1>1, <1>2
<1>4. ASSUME NEW n \in Nat, n \in S
      PROVE  n + 1 \in S
  <2>1. SUFFICES ASSUME n + 1 <= N
                 PROVE  f[n + 1] = g[n + 1]
    OBVIOUS
  <2>2. f[n] = g[n] /\ n + 1 \in 1 .. N /\ (n + 1) - 1 = n
    BY <1>4, <2>1
  <2>3. QED
    BY <1>1, <1>2, <2>2, Zenon
<1>5. \A n \in Nat : n \in S
  <2> HIDE DEF S
  <2>1. QED
    BY <1>3, <1>4, SetInduction, Zenon
<1>6. \A n \in 0 .. N : f[n] = g[n]
  BY <1>5
<1>7. f = [n \in 0 .. N |-> f[n]] /\ g = [n \in 0 .. N |-> g[n]]
  <2>1. f = [n \in DOMAIN f |-> f[n]]
    BY Zenon DEF CompiledBy
  <2>2. g = [n \in DOMAIN g |-> g[n]]
    BY Zenon DEF CompiledBy
  <2>3. QED
    BY <2>1, <2>2, <1>1, <1>2, Zenon
<1>8. QED
  BY <1>6, <1>7, Zenon

\* A function for one statement more agrees with it up to there.
LEMMA CompiledExtends ==
  ASSUME NEW f, NEW struct, NEW T, NEW body \in Seq(T), NEW x \in T, CompiledBy(f, struct, body)
  PROVE  LET g == [n \in 0 .. Len(body) + 1 |->
                     IF n <= Len(body) THEN f[n] ELSE Compile(f[Len(body)], x)]
         IN  CompiledBy(g, struct, Append(body, x))
<1>a. Len(body) \in Nat
  OBVIOUS
<1>b. /\ DOMAIN f = 0 .. Len(body)
      /\ f[0] = [ok |-> TRUE, blocks |-> <<{struct}>>]
      /\ \A n \in 1 .. Len(body) : f[n] = Compile(f[n - 1], body[n])
  <2>1. CompiledRun(f, struct, body)
    BY <1>a, CompiledSteps, Zenon
  <2>2. QED
    BY <2>1, Zenon DEF CompiledRun
<1> DEFINE N == Len(body)
           G(n) == IF n <= N THEN f[n] ELSE Compile(f[N], x)
           g == [n \in 0 .. N + 1 |-> G(n)]
           more == Append(body, x)
           H(n) == IF n = 0 THEN [ok |-> TRUE, blocks |-> <<{struct}>>]
                   ELSE Compile(g[n - 1], more[n])
<1>1. N \in Nat /\ Len(more) = N + 1 /\ more[N + 1] = x /\ \A n \in 1 .. N : more[n] = body[n]
  BY AppendProperties
<1>2. /\ f[0] = [ok |-> TRUE, blocks |-> <<{struct}>>]
      /\ \A n \in 1 .. N : f[n] = Compile(f[n - 1], body[n])
  BY <1>b
<1>3. ASSUME NEW n \in 0 .. N + 1
      PROVE  G(n) = H(n)
  <2>1. CASE n = 0
    BY <2>1, <1>1, <1>2
  <2>2. CASE n \in 1 .. N
    <3>1. n - 1 \in 0 .. N + 1 /\ n - 1 <= N /\ n # 0 /\ n <= N
      BY <2>2, <1>1
    <3>2. g[n - 1] = f[n - 1]
      BY <3>1, Zenon
    <3>3. QED
      BY <3>1, <3>2, <1>1, <1>2, <2>2, Zenon
  <2>3. CASE n = N + 1
    <3>1. N \in 0 .. N + 1 /\ N <= N /\ n - 1 = N /\ n # 0 /\ ~(n <= N)
      BY <2>3, <1>1
    <3>2. g[N] = f[N]
      BY <3>1, Zenon
    <3>3. QED
      BY <3>1, <3>2, <1>1, <2>3, Zenon
  <2>4. QED
    BY <2>1, <2>2, <2>3, <1>1
<1>4. g = [n \in 0 .. Len(more) |-> H(n)]
  <2>1. g = [n \in 0 .. N + 1 |-> H(n)]
    <3> HIDE DEF G, H
    <3>1. QED
      BY <1>3, Zenon
  <2>2. QED
    BY <2>1, <1>1, Zenon
<1>5. QED
  BY <1>4, Zenon DEF CompiledBy

\* There is one for every body.
LEMMA CompiledExists ==
  ASSUME NEW struct, NEW T, NEW body \in Seq(T)
  PROVE  \E f : CompiledBy(f, struct, body)
<1> DEFINE S == {n \in Nat : n <= Len(body) => \E f : CompiledBy(f, struct, SubSeq(body, 1, n))}
<1>1. 0 \in S
  <2> DEFINE f == [n \in {0} |-> [ok |-> TRUE, blocks |-> <<{struct}>>]]
  <2>1. SubSeq(body, 1, 0) = <<>> /\ Len(<<>>) = 0 /\ 0 .. 0 = {0}
    OBVIOUS
  <2>2. f = [n \in {0} |-> IF n = 0 THEN [ok |-> TRUE, blocks |-> <<{struct}>>]
                           ELSE Compile(f[n - 1], <<>>[n])]
    OBVIOUS
  <2>3. CompiledBy(f, struct, <<>>)
    BY <2>1, <2>2, Zenon DEF CompiledBy
  <2>4. QED
    BY <2>1, <2>3
<1>2. ASSUME NEW n \in Nat, n \in S
      PROVE  n + 1 \in S
  <2>1. SUFFICES ASSUME n + 1 <= Len(body)
                 PROVE  \E f : CompiledBy(f, struct, SubSeq(body, 1, n + 1))
    OBVIOUS
  <2>2. PICK f : CompiledBy(f, struct, SubSeq(body, 1, n))
    BY <1>2, <2>1
  <2>3. SubSeq(body, 1, n) \in Seq(T) /\ n + 1 \in 1 .. Len(body) /\ body[n + 1] \in T
    BY <2>1
  <2>4. SubSeq(body, 1, n + 1) = Append(SubSeq(body, 1, n), body[n + 1])
    BY <2>1
  <2>5. \E g : CompiledBy(g, struct, Append(SubSeq(body, 1, n), body[n + 1]))
    BY <2>2, <2>3, CompiledExtends, Zenon
  <2>6. QED
    BY <2>4, <2>5, Zenon
<1>3. \A n \in Nat : n \in S
  <2> HIDE DEF S
  <2>1. QED
    BY <1>1, <1>2, SetInduction, Zenon
<1>4. Len(body) \in Nat /\ SubSeq(body, 1, Len(body)) = body /\ Len(body) <= Len(body)
  OBVIOUS
<1>5. QED
  BY <1>3, <1>4, Zenon

\* What is known after a body is known after its last statement.
LEMMA CompiledValue ==
  ASSUME NEW f, NEW struct, NEW T, NEW body \in Seq(T), CompiledBy(f, struct, body)
  PROVE  Compiled(struct, body) = f[Len(body)]
<1> DEFINE c == CHOOSE g : CompiledBy(g, struct, body)
<1>1. CompiledBy(c, struct, body)
  BY Zenon
<1>2. Compiled(struct, body) = c[Len(body)]
  BY Zenon DEF Compiled, CompiledBy
<1>3. Len(body) \in Nat
  OBVIOUS
<1>4. c = f
  <2> HIDE DEF c
  <2>1. QED
    BY <1>1, <1>3, CompiledUnique, Zenon
<1>5. QED
  BY <1>2, <1>4, Zenon

\* Before the first statement a compiler knows the parameter.
LEMMA CompiledEmpty ==
  ASSUME NEW struct
  PROVE  Compiled(struct, <<>>) = [ok |-> TRUE, blocks |-> <<{struct}>>]
<1>1. <<>> \in Seq({}) /\ Len(<<>>) = 0
  OBVIOUS
<1>2. PICK f : CompiledBy(f, struct, <<>>)
  BY <1>1, CompiledExists, Zenon
<1>3. f[0] = [ok |-> TRUE, blocks |-> <<{struct}>>]
  <2>1. Len(<<>>) \in Nat
    BY <1>1
  <2>2. QED
    BY <2>1, <1>2, CompiledSteps, Zenon DEF CompiledRun
<1>4. QED
  BY <1>1, <1>2, <1>3, CompiledValue, Zenon

\* A statement is compiled in what is known after those before it.
LEMMA CompiledAppend ==
  ASSUME NEW struct, NEW T, NEW body \in Seq(T), NEW x \in T
  PROVE  Compiled(struct, Append(body, x)) = Compile(Compiled(struct, body), x)
<1>1. PICK f : CompiledBy(f, struct, body)
  BY CompiledExists, Zenon
<1> DEFINE G(n) == IF n <= Len(body) THEN f[n] ELSE Compile(f[Len(body)], x)
           g == [n \in 0 .. Len(body) + 1 |-> G(n)]
<1>2. CompiledBy(g, struct, Append(body, x))
  BY <1>1, CompiledExtends, Zenon
<1>3. Append(body, x) \in Seq(T) /\ Len(Append(body, x)) = Len(body) + 1 /\ Len(body) \in Nat
  BY AppendProperties
<1>4. Compiled(struct, body) = f[Len(body)]
  BY <1>1, CompiledValue, Zenon
<1>5. Compiled(struct, Append(body, x)) = g[Len(body) + 1]
  <2> HIDE DEF g
  <2>1. QED
    BY <1>2, <1>3, CompiledValue, Zenon
<1>6. Len(body) + 1 \in 0 .. Len(body) + 1 /\ ~(Len(body) + 1 <= Len(body))
  BY <1>3
<1>7. g[Len(body) + 1] = Compile(f[Len(body)], x)
  BY <1>6, Zenon
<1>8. QED
  BY <1>4, <1>5, <1>7, Zenon

----------------------------------------------------------------------------
\* What the recursive function of Picked is.
PickedBy(f, lo, hi, chosen, value) ==
  f = [n \in lo .. hi |->
         IF n = lo THEN <<>>
         ELSE IF n \in chosen THEN Append(f[n - 1], value[n]) ELSE f[n - 1]]

\* It begins with nothing and goes from a place to the next.
PickedRun(f, lo, hi, chosen, value) ==
  /\ DOMAIN f = lo .. hi
  /\ f[lo] = <<>>
  /\ \A n \in lo + 1 .. hi :
       f[n] = IF n \in chosen THEN Append(f[n - 1], value[n]) ELSE f[n - 1]

\* The recursive function is such a run.
LEMMA PickedSteps ==
  ASSUME NEW f, NEW lo \in Nat, NEW hi \in Nat, lo <= hi, NEW chosen, NEW value,
         PickedBy(f, lo, hi, chosen, value)
  PROVE  PickedRun(f, lo, hi, chosen, value)
<1> DEFINE G(n) == IF n = lo THEN <<>>
                   ELSE IF n \in chosen THEN Append(f[n - 1], value[n]) ELSE f[n - 1]
<1>1. f = [n \in lo .. hi |-> G(n)]
  BY Zenon DEF PickedBy
<1>2. DOMAIN f = lo .. hi /\ \A n \in lo .. hi : f[n] = G(n)
  <2> HIDE DEF G
  <2>1. QED
    BY <1>1, Zenon
<1>3. lo \in lo .. hi /\ \A n \in lo + 1 .. hi : n \in lo .. hi /\ n # lo
  OBVIOUS
<1>4. QED
  BY <1>2, <1>3, Zenon DEF PickedRun

\* It depends on what is chosen and on the values there alone.
LEMMA PickedUnique ==
  ASSUME NEW f, NEW g, NEW lo \in Nat, NEW hi \in Nat, lo <= hi, NEW chosen, NEW value,
         NEW chosen2, NEW value2,
         PickedBy(f, lo, hi, chosen, value), PickedBy(g, lo, hi, chosen2, value2),
         \A n \in lo + 1 .. hi :
           (n \in chosen <=> n \in chosen2) /\ (n \in chosen => value[n] = value2[n])
  PROVE  f = g
<1> DEFINE S == {n \in Nat : lo <= n /\ n <= hi => f[n] = g[n]}
<1>1. PickedRun(f, lo, hi, chosen, value)
  BY PickedSteps, Zenon
<1>2. PickedRun(g, lo, hi, chosen2, value2)
  BY PickedSteps, Zenon
<1>3. f[lo] = g[lo]
  BY <1>1, <1>2, Zenon DEF PickedRun
<1>4. 0 \in S
  BY <1>3
<1>5. ASSUME NEW n \in Nat, n \in S
      PROVE  n + 1 \in S
  <2>1. SUFFICES ASSUME lo <= n + 1, n + 1 <= hi
                 PROVE  f[n + 1] = g[n + 1]
    OBVIOUS
  <2>2. CASE lo = n + 1
    BY <2>2, <1>3
  <2>3. CASE lo <= n
    <3>1. f[n] = g[n] /\ n + 1 \in lo + 1 .. hi /\ (n + 1) - 1 = n
      BY <1>5, <2>1, <2>3
    <3>2. f[n + 1] = IF n + 1 \in chosen THEN Append(f[n], value[n + 1]) ELSE f[n]
      BY <1>1, <3>1, Zenon DEF PickedRun
    <3>3. g[n + 1] = IF n + 1 \in chosen2 THEN Append(g[n], value2[n + 1]) ELSE g[n]
      BY <1>2, <3>1, Zenon DEF PickedRun
    <3>4. CASE n + 1 \in chosen
      <4>1. n + 1 \in chosen2 /\ value[n + 1] = value2[n + 1]
        BY <3>1, <3>4, Zenon
      <4>2. QED
        BY <3>1, <3>2, <3>3, <3>4, <4>1, Zenon
    <3>5. CASE n + 1 \notin chosen
      <4>1. n + 1 \notin chosen2
        BY <3>1, <3>5, Zenon
      <4>2. QED
        BY <3>1, <3>2, <3>3, <3>5, <4>1, Zenon
    <3>6. QED
      BY <3>4, <3>5
  <2>4. QED
    BY <2>1, <2>2, <2>3
<1>6. \A n \in Nat : n \in S
  <2> HIDE DEF S
  <2>1. QED
    BY <1>4, <1>5, SetInduction, Zenon
<1>7. \A n \in lo .. hi : f[n] = g[n]
  BY <1>6
<1>8. DOMAIN f = lo .. hi /\ DOMAIN g = lo .. hi
  BY <1>1, <1>2, Zenon DEF PickedRun
<1>9. f = [n \in DOMAIN f |-> f[n]] /\ g = [n \in DOMAIN g |-> g[n]]
  BY Zenon DEF PickedBy
<1>10. QED
  BY <1>7, <1>8, <1>9, Zenon

\* The one for a place more.
LEMMA PickedExtends ==
  ASSUME NEW f, NEW lo \in Nat, NEW hi \in Nat, lo <= hi, NEW chosen, NEW value,
         PickedBy(f, lo, hi, chosen, value),
         NEW v, v = IF hi + 1 \in chosen THEN Append(f[hi], value[hi + 1]) ELSE f[hi]
  PROVE  PickedBy([n \in lo .. hi + 1 |-> IF n <= hi THEN f[n] ELSE v], lo, hi + 1, chosen, value)
<1>a. PickedRun(f, lo, hi, chosen, value)
  BY PickedSteps, Zenon
<1> DEFINE G(n) == IF n <= hi THEN f[n] ELSE v
           g == [n \in lo .. hi + 1 |-> G(n)]
           H(n) == IF n = lo THEN <<>>
                   ELSE IF n \in chosen THEN Append(g[n - 1], value[n]) ELSE g[n - 1]
<1>1. ASSUME NEW n \in lo .. hi + 1
      PROVE  G(n) = H(n)
  <2>1. CASE n = lo
    BY <2>1, <1>a DEF PickedRun
  <2>2. CASE n \in lo + 1 .. hi
    <3>1. n - 1 \in lo .. hi + 1 /\ n - 1 <= hi /\ n # lo /\ n <= hi
      BY <2>2
    <3>2. g[n - 1] = f[n - 1]
      BY <3>1, Zenon
    <3>3. f[n] = IF n \in chosen THEN Append(f[n - 1], value[n]) ELSE f[n - 1]
      BY <2>2, <1>a, Zenon DEF PickedRun
    <3>4. QED
      BY <3>1, <3>2, <3>3, Zenon
  <2>3. CASE n = hi + 1
    <3>1. hi \in lo .. hi + 1 /\ hi <= hi /\ n - 1 = hi /\ n # lo /\ ~(n <= hi)
      BY <2>3
    <3>2. g[hi] = f[hi]
      BY <3>1, Zenon
    <3>3. QED
      BY <3>1, <3>2, <2>3, Zenon
  <2>4. QED
    BY <2>1, <2>2, <2>3
<1>2. g = [n \in lo .. hi + 1 |-> H(n)]
  <2> HIDE DEF G, H
  <2>1. QED
    BY <1>1, Zenon
<1>3. QED
  BY <1>2, Zenon DEF PickedBy

\* There is one for all bounds.
LEMMA PickedExists ==
  ASSUME NEW lo \in Nat, NEW hi \in Nat, lo <= hi, NEW chosen, NEW value
  PROVE  \E f : PickedBy(f, lo, hi, chosen, value)
<1> DEFINE S == {n \in Nat : \E f : PickedBy(f, lo, lo + n, chosen, value)}
<1>1. 0 \in S
  <2> DEFINE f == [n \in {lo} |-> <<>>]
  <2>1. lo + 0 = lo /\ lo .. lo = {lo}
    OBVIOUS
  <2>2. f = [n \in {lo} |->
               IF n = lo THEN <<>>
               ELSE IF n \in chosen THEN Append(f[n - 1], value[n]) ELSE f[n - 1]]
    OBVIOUS
  <2>3. PickedBy(f, lo, lo, chosen, value)
    BY <2>1, <2>2, Zenon DEF PickedBy
  <2>4. \E g : PickedBy(g, lo, lo + 0, chosen, value)
    BY <2>1, <2>3, Zenon
  <2>5. QED
    BY <2>4
<1>2. ASSUME NEW n \in Nat, n \in S
      PROVE  n + 1 \in S
  <2>1. PICK f : PickedBy(f, lo, lo + n, chosen, value)
    BY <1>2
  <2> DEFINE m == lo + n
             v == IF m + 1 \in chosen THEN Append(f[m], value[m + 1]) ELSE f[m]
  <2>2. m \in Nat /\ lo <= m /\ m + 1 = lo + (n + 1)
    OBVIOUS
  <2>3. PickedBy(f, lo, m, chosen, value)
    BY <2>1
  <2>4. \E g : PickedBy(g, lo, m + 1, chosen, value)
    <3> HIDE DEF m
    <3>1. QED
      BY <2>2, <2>3, PickedExtends, Zenon
  <2>5. \E g : PickedBy(g, lo, lo + (n + 1), chosen, value)
    BY <2>2, <2>4, Zenon
  <2>6. QED
    BY <2>5
<1>3. \A n \in Nat : n \in S
  <2> HIDE DEF S
  <2>1. QED
    BY <1>1, <1>2, SetInduction, Zenon
<1>4. hi - lo \in Nat /\ lo + (hi - lo) = hi
  OBVIOUS
<1>5. \E f : PickedBy(f, lo, lo + (hi - lo), chosen, value)
  BY <1>3, <1>4, Zenon
<1>6. QED
  BY <1>4, <1>5, Zenon

\* What is picked is its last value.
LEMMA PickedValue ==
  ASSUME NEW f, NEW lo \in Nat, NEW hi \in Nat, lo <= hi, NEW chosen, NEW value,
         PickedBy(f, lo, hi, chosen, value)
  PROVE  Picked(lo, hi, chosen, value) = f[hi]
<1> DEFINE c == CHOOSE g : PickedBy(g, lo, hi, chosen, value)
<1>1. PickedBy(c, lo, hi, chosen, value)
  BY Zenon
<1>2. Picked(lo, hi, chosen, value) = c[hi]
  BY Zenon DEF Picked, PickedBy
<1>3. c = f
  <2> HIDE DEF c
  <2>1. QED
    BY <1>1, PickedUnique, Zenon
<1>4. QED
  BY <1>2, <1>3, Zenon

\* Nothing is picked of no places.
LEMMA PickedFirst ==
  ASSUME NEW lo \in Nat, NEW chosen, NEW value
  PROVE  Picked(lo, lo, chosen, value) = <<>>
<1>1. lo <= lo
  OBVIOUS
<1>2. PICK f : PickedBy(f, lo, lo, chosen, value)
  BY <1>1, PickedExists, Zenon
<1>3. f[lo] = <<>>
  BY <1>1, <1>2, PickedSteps, Zenon DEF PickedRun
<1>4. QED
  BY <1>1, <1>2, <1>3, PickedValue, Zenon

\* The next place adds its value if it is chosen.
LEMMA PickedNext ==
  ASSUME NEW lo \in Nat, NEW hi \in Nat, lo <= hi, NEW chosen, NEW value
  PROVE  Picked(lo, hi + 1, chosen, value) =
           IF hi + 1 \in chosen THEN Append(Picked(lo, hi, chosen, value), value[hi + 1])
           ELSE Picked(lo, hi, chosen, value)
<1>1. PICK f : PickedBy(f, lo, hi, chosen, value)
  BY PickedExists, Zenon
<1>v. PICK v : v = IF hi + 1 \in chosen THEN Append(f[hi], value[hi + 1]) ELSE f[hi]
  OBVIOUS
<1> DEFINE g == [n \in lo .. hi + 1 |-> IF n <= hi THEN f[n] ELSE v]
<1>2. PickedBy(g, lo, hi + 1, chosen, value)
  <2>1. PickedBy([n \in lo .. hi + 1 |-> IF n <= hi THEN f[n] ELSE v], lo, hi + 1, chosen, value)
    BY <1>1, <1>v, PickedExtends
  <2>2. QED
    BY <2>1
<1>3. hi + 1 \in Nat /\ lo <= hi + 1 /\ ~(hi + 1 <= hi) /\ hi + 1 \in lo .. hi + 1
  OBVIOUS
<1>4. g[hi + 1] = v
  BY <1>3, Zenon
<1>5. Picked(lo, hi + 1, chosen, value) = g[hi + 1]
  <2> HIDE DEF g
  <2>1. QED
    BY <1>2, <1>3, PickedValue
<1>6. Picked(lo, hi, chosen, value) = f[hi]
  BY <1>1, PickedValue
<1>7. QED
  BY <1>v, <1>4, <1>5, <1>6, Zenon

\* What is picked depends on what is chosen and on the values there alone.
LEMMA PickedSame ==
  ASSUME NEW lo \in Nat, NEW hi \in Nat, lo <= hi, NEW chosen, NEW value,
         NEW chosen2, NEW value2,
         \A n \in lo + 1 .. hi :
           (n \in chosen <=> n \in chosen2) /\ (n \in chosen => value[n] = value2[n])
  PROVE  Picked(lo, hi, chosen, value) = Picked(lo, hi, chosen2, value2)
<1>1. PICK f : PickedBy(f, lo, hi, chosen, value)
  BY PickedExists, Zenon
<1>2. PICK g : PickedBy(g, lo, hi, chosen2, value2)
  BY PickedExists, Zenon
<1>3. f = g
  BY <1>1, <1>2, PickedUnique, Zenon
<1>4. Picked(lo, hi, chosen, value) = f[hi] /\ Picked(lo, hi, chosen2, value2) = g[hi]
  BY <1>1, <1>2, PickedValue
<1>5. QED
  BY <1>3, <1>4, Zenon

----------------------------------------------------------------------------
(***************************************************************************)
(* What a statement adds to a function.                                    *)
(***************************************************************************)
Chosen(body) == {n \in 1 .. Len(body) : body[n].op = "set"}
Named(body)  == [n \in 1 .. Len(body) |-> body[n].field]

\* A statement more sets its field, if it sets one.
LEMMA FieldsAppend ==
  ASSUME NEW T, NEW body \in Seq(T), NEW x \in T
  PROVE  Fields(Append(body, x)) = IF x.op = "set" THEN Append(Fields(body), x.field)
                                   ELSE Fields(body)
<1> DEFINE N    == Len(body)
           more == Append(body, x)
<1>1. N \in Nat /\ 0 <= N /\ Len(more) = N + 1 /\ more[N + 1] = x /\ \A n \in 1 .. N : more[n] = body[n]
  BY AppendProperties
<1>2. Fields(body) = Picked(0, N, Chosen(body), Named(body))
  BY Zenon DEF Fields, Chosen, Named
<1>3. Fields(more) = Picked(0, N + 1, Chosen(more), Named(more))
  BY <1>1, Zenon DEF Fields, Chosen, Named
<1>4. Picked(0, N, Chosen(more), Named(more)) = Fields(body)
  <2>1. ASSUME NEW n \in 0 + 1 .. N
        PROVE  /\ n \in Chosen(more) <=> n \in Chosen(body)
               /\ n \in Chosen(more) => Named(more)[n] = Named(body)[n]
    <3>1. n \in 1 .. N /\ n \in 1 .. Len(more)
      BY <1>1
    <3>2. QED
      BY <3>1, <1>1, Zenon DEF Chosen, Named
  <2>2. Picked(0, N, Chosen(more), Named(more)) = Picked(0, N, Chosen(body), Named(body))
    <3> HIDE DEF N, more
    <3>1. QED
      BY <1>1, <2>1, PickedSame
  <2>3. QED
    BY <1>2, <2>2, Zenon
<1>5. /\ N + 1 \in Chosen(more) <=> x.op = "set"
      /\ Named(more)[N + 1] = x.field
  <2>1. N + 1 \in 1 .. Len(more)
    BY <1>1
  <2>2. QED
    BY <2>1, <1>1, Zenon DEF Chosen, Named
<1>6. Picked(0, N + 1, Chosen(more), Named(more)) =
        IF N + 1 \in Chosen(more) THEN Append(Picked(0, N, Chosen(more), Named(more)), Named(more)[N + 1])
        ELSE Picked(0, N, Chosen(more), Named(more))
  <2> HIDE DEF N, more
  <2>1. QED
    BY <1>1, PickedNext
<1> HIDE DEF N, more
<1>7. Fields(more) = IF x.op = "set" THEN Append(Fields(body), x.field) ELSE Fields(body)
  <2>1. CASE x.op = "set"
    BY <2>1, <1>3, <1>4, <1>5, <1>6, Zenon
  <2>2. CASE x.op # "set"
    BY <2>2, <1>3, <1>4, <1>5, <1>6, Zenon
  <2>3. QED
    BY <2>1, <2>2
<1>8. QED
  BY <1>7, Zenon DEF more

\* No statement sets no field.
LEMMA FieldsEmpty == Fields(<<>>) = <<>>
<1>1. Len(<<>>) = 0 /\ 0 \in Nat
  OBVIOUS
<1>2. Fields(<<>>) = Picked(0, 0, Chosen(<<>>), Named(<<>>))
  BY <1>1, Zenon DEF Fields, Chosen, Named
<1>3. QED
  BY <1>1, <1>2, PickedFirst, Zenon

\* The statements of a body and one more.
LEMMA HasAppend ==
  ASSUME NEW T, NEW body \in Seq(T), NEW x \in T
  PROVE  /\ \A y : Has(Append(body, x), y) <=> Has(body, y) \/ x = y
         /\ Loops(Append(body, x)) <=> Loops(body) \/ (x.op = "open" /\ x.uses = {"e"})
         /\ \A v : TakenFrom(Append(body, x), v) <=>
                     TakenFrom(body, v) /\ (x.op = "set" => x.from = v)
<1> DEFINE N    == Len(body)
           more == Append(body, x)
<1>1. N \in Nat /\ Len(more) = N + 1 /\ more[N + 1] = x /\ \A n \in 1 .. N : more[n] = body[n]
  BY AppendProperties
<1>2. N + 1 \in 1 .. N + 1 /\ \A n \in 1 .. N + 1 : n \in 1 .. N \/ n = N + 1
  BY <1>1
<1>3. \A n \in 1 .. N : n \in 1 .. N + 1
  BY <1>1
<1> HIDE DEF more, N
<1>4. \A y : Has(more, y) <=> Has(body, y) \/ x = y
  BY <1>1, <1>2, <1>3, Zenon DEF Has, N
<1>5. Loops(more) <=> Loops(body) \/ (x.op = "open" /\ x.uses = {"e"})
  BY <1>1, <1>2, <1>3, Zenon DEF Loops, N
<1>6. \A v : TakenFrom(more, v) <=> TakenFrom(body, v) /\ (x.op = "set" => x.from = v)
  BY <1>1, <1>2, <1>3, Zenon DEF TakenFrom, N
<1>7. QED
  BY <1>4, <1>5, <1>6, Zenon DEF more

\* The next line adds its member, if it is one.
LEMMA MembersNext ==
  ASSUME NEW s \in Nat, NEW i \in Nat, s <= i, Len(lines) \in Nat, i + 1 <= Len(lines)
  PROVE  Members(s, i + 1) = IF IsMember(s, i + 1) THEN Append(Members(s, i), lines[i + 1].value)
                             ELSE Members(s, i)
<1> DEFINE C == {n \in 1 .. Len(lines) : IsMember(s, n)}
           V == [n \in 1 .. Len(lines) |-> lines[n].value]
<1>1. i + 1 \in 1 .. Len(lines)
  OBVIOUS
<1>2. (i + 1 \in C <=> IsMember(s, i + 1)) /\ V[i + 1] = lines[i + 1].value
  BY <1>1, Zenon
<1>3. Members(s, i) = Picked(s, i, C, V) /\ Members(s, i + 1) = Picked(s, i + 1, C, V)
  BY Zenon DEF Members
<1> HIDE DEF C, V
<1>4. Picked(s, i + 1, C, V) = IF i + 1 \in C THEN Append(Picked(s, i, C, V), V[i + 1])
                               ELSE Picked(s, i, C, V)
  BY PickedNext
<1>5. CASE IsMember(s, i + 1)
  BY <1>5, <1>2, <1>3, <1>4, Zenon
<1>6. CASE ~IsMember(s, i + 1)
  BY <1>6, <1>2, <1>3, <1>4, Zenon
<1>7. QED
  BY <1>5, <1>6

\* A structure that begins has no members yet.
LEMMA MembersFirst ==
  ASSUME NEW s \in Nat
  PROVE  Members(s, s) = <<>>
BY PickedFirst, Zenon DEF Members

----------------------------------------------------------------------------
(***************************************************************************)
(* What a compiler makes of a statement, with one or two blocks open.      *)
(***************************************************************************)
Knows(blocks) == [ok |-> TRUE, blocks |-> blocks]

\* One block less of one.
LEMMA FrontOne ==
  ASSUME NEW A
  PROVE  Front(<<A>>) = <<>>
<1>1. Len(<<A>>) - 1 = 0
  OBVIOUS
<1>2. SubSeq(<<A>>, 1, 0) = <<>>
  OBVIOUS
<1>3. QED
  BY <1>1, <1>2 DEF Front

\* One block less of two.
LEMMA FrontTwo ==
  ASSUME NEW A, NEW B
  PROVE  Front(<<A, B>>) = <<A>>
<1>1. Len(<<A, B>>) - 1 = 1
  OBVIOUS
<1> DEFINE s == <<A, B>>
           t == SubSeq(s, 1, 1)
<1>2. s[1] = A /\ <<A>> \in Seq({A}) /\ Len(<<A>>) = 1 /\ <<A>>[1] = A
  OBVIOUS
<1> HIDE DEF s
<1>3. t \in Seq({A}) /\ Len(t) = 1 /\ t[1] = A
  <2>1. \A i \in 1 .. 1 : s[i] \in {A}
    BY <1>2
  <2>2. t \in Seq({A}) /\ Len(t) = IF 1 <= 1 THEN 1 - 1 + 1 ELSE 0
    BY <2>1, SubSeqProperties
  <2>3. Len(t) = 1 /\ t[1] \in {A}
    BY <2>2
  <2>4. QED
    BY <2>2, <2>3
<1>a. SubSeq(s, 1, 1) = <<A>>
  <2> HIDE DEF t
  <2>1. \A i \in 1 .. Len(t) : t[i] = <<A>>[i]
    BY <1>2, <1>3
  <2>2. t = <<A>>
    BY <1>2, <1>3, <2>1, SeqEqual
  <2>3. QED
    BY <2>2 DEF t
<1>4. QED
  BY <1>1, <1>a, Zenon DEF Front, s

\* One block more.
LEMMA AppendOne ==
  ASSUME NEW A, NEW B
  PROVE  Append(<<A>>, B) = <<A, B>>
<1> DEFINE s == <<A>>
           t == <<A, B>>
           u == Append(s, B)
<1>1. /\ s \in Seq({A, B}) /\ Len(s) = 1 /\ s[1] = A
      /\ t \in Seq({A, B}) /\ Len(t) = 2 /\ t[1] = A /\ t[2] = B
      /\ B \in {A, B}
  OBVIOUS
<1> HIDE DEF s, t
<1>2. u \in Seq({A, B}) /\ Len(u) = 2 /\ u[1] = A /\ u[2] = B
  <2> DEFINE T == {A, B}
  <2>1. s \in Seq(T) /\ B \in T
    BY <1>1
  <2> HIDE DEF T
  <2>2. u \in Seq(T) /\ Len(u) = Len(s) + 1 /\ u[Len(s) + 1] = B /\ \A i \in 1 .. Len(s) : u[i] = s[i]
    BY <2>1, AppendProperties
  <2>3. u[1] = s[1] /\ u[2] = B /\ Len(u) = 2
    BY <2>2, <1>1
  <2>4. QED
    BY <2>2, <2>3, <1>1, Zenon DEF T
<1> HIDE DEF u
<1>3. \A i \in 1 .. Len(u) : u[i] = t[i]
  BY <1>1, <1>2
<1>4. u = t
  BY <1>1, <1>2, <1>3, SeqEqual
<1>5. QED
  BY <1>4, Zenon DEF s, t, u

\* In the block of the function.
LEMMA CompileOne ==
  ASSUME NEW A, NEW x, x.uses \subseteq A
  PROVE  /\ x.op = "declare" /\ x.declares \cap A = {} =>
              Compile(Knows(<<A>>), x) = Knows(<<A \cup x.declares>>)
         /\ x.op = "open" /\ x.declares = {} => Compile(Knows(<<A>>), x) = Knows(<<A, {}>>)
         /\ x.op = "close" /\ x.declares = {} => Compile(Knows(<<A>>), x) = Knows(<<>>)
         /\ x.op \in {"set", "return"} /\ x.declares = {} => Compile(Knows(<<A>>), x) = Knows(<<A>>)
<1> DEFINE c == Knows(<<A>>)
<1>1. /\ c.ok = TRUE /\ c.blocks = <<A>> /\ Len(c.blocks) = 1 /\ c.blocks[1] = A /\ c.blocks # <<>>
  BY DEF Knows
<1>2. Known(c) = A
  BY <1>1 DEF Known, Range
<1>3. /\ Append(<<A>>, {}) = <<A, {}>>
      /\ Front(<<A>>) = <<>>
      /\ [<<A>> EXCEPT ![1] = A \cup x.declares] = <<A \cup x.declares>>
  <2>1. Append(<<A>>, {}) = <<A, {}>>
    BY AppendOne
  <2>2. Front(<<A>>) = <<>>
    BY FrontOne
  <2>3. [<<A>> EXCEPT ![1] = A \cup x.declares] = <<A \cup x.declares>>
    OBVIOUS
  <2>4. QED
    BY <2>1, <2>2, <2>3
<1> HIDE DEF c
<1>4. ASSUME x.op = "declare", x.declares \cap A = {}
      PROVE  Compile(c, x) = Knows(<<A \cup x.declares>>)
  BY <1>1, <1>2, <1>3, <1>4 DEF Compile, Knows
<1>5. ASSUME x.op = "open", x.declares = {}
      PROVE  Compile(c, x) = Knows(<<A, {}>>)
  BY <1>1, <1>2, <1>3, <1>5 DEF Compile, Knows
<1>6. ASSUME x.op = "close", x.declares = {}
      PROVE  Compile(c, x) = Knows(<<>>)
  BY <1>1, <1>2, <1>3, <1>6 DEF Compile, Knows
<1>7. ASSUME x.op \in {"set", "return"}, x.declares = {}
      PROVE  Compile(c, x) = Knows(<<A>>)
  BY <1>1, <1>2, <1>3, <1>7 DEF Compile, Knows
<1>8. QED
  BY <1>4, <1>5, <1>6, <1>7, Zenon DEF c

\* In a block within it.
LEMMA CompileTwo ==
  ASSUME NEW A, NEW B, NEW x, x.uses \subseteq A \cup B
  PROVE  /\ x.op = "declare" /\ x.declares \cap B = {} =>
              Compile(Knows(<<A, B>>), x) = Knows(<<A, B \cup x.declares>>)
         /\ x.op = "close" /\ x.declares = {} => Compile(Knows(<<A, B>>), x) = Knows(<<A>>)
         /\ x.op \in {"set", "add", "advance"} /\ x.declares = {} =>
              Compile(Knows(<<A, B>>), x) = Knows(<<A, B>>)
<1> DEFINE c == Knows(<<A, B>>)
<1>1. /\ c.ok = TRUE /\ c.blocks = <<A, B>> /\ Len(c.blocks) = 2 /\ c.blocks[2] = B /\ c.blocks # <<>>
  BY DEF Knows
<1>2. Known(c) = A \cup B
  BY <1>1 DEF Known, Range
<1>3. /\ Front(<<A, B>>) = <<A>>
      /\ [<<A, B>> EXCEPT ![2] = B \cup x.declares] = <<A, B \cup x.declares>>
  <2>1. Front(<<A, B>>) = <<A>>
    BY FrontTwo
  <2>2. [<<A, B>> EXCEPT ![2] = B \cup x.declares] = <<A, B \cup x.declares>>
    OBVIOUS
  <2>3. QED
    BY <2>1, <2>2
<1> HIDE DEF c
<1>4. ASSUME x.op = "declare", x.declares \cap B = {}
      PROVE  Compile(c, x) = Knows(<<A, B \cup x.declares>>)
  BY <1>1, <1>2, <1>3, <1>4 DEF Compile, Knows
<1>5. ASSUME x.op = "close", x.declares = {}
      PROVE  Compile(c, x) = Knows(<<A>>)
  BY <1>1, <1>2, <1>3, <1>5 DEF Compile, Knows
<1>6. ASSUME x.op \in {"set", "add", "advance"}, x.declares = {}
      PROVE  Compile(c, x) = Knows(<<A, B>>)
  BY <1>1, <1>2, <1>3, <1>6 DEF Compile, Knows
<1>7. QED
  BY <1>4, <1>5, <1>6, Zenon DEF c

----------------------------------------------------------------------------
(***************************************************************************)
(* What toSource has added, as one statement after the other.              *)
(***************************************************************************)

\* One statement.
LEMMA EmitOne ==
  ASSUME NEW T, NEW s \in Seq(T), NEW a \in T
  PROVE  s \o <<a>> = Append(s, a)
OBVIOUS

\* Two.
LEMMA EmitTwo ==
  ASSUME NEW T, NEW s \in Seq(T), NEW a \in T, NEW b \in T
  PROVE  s \o <<a, b>> = Append(Append(s, a), b)
OBVIOUS

\* Three.
LEMMA EmitThree ==
  ASSUME NEW T, NEW s \in Seq(T), NEW a \in T, NEW b \in T, NEW c \in T
  PROVE  s \o <<a, b, c>> = Append(Append(Append(s, a), b), c)
OBVIOUS

\* Four.
LEMMA EmitFour ==
  ASSUME NEW T, NEW s \in Seq(T), NEW a \in T, NEW b \in T, NEW c \in T, NEW d \in T
  PROVE  s \o <<a, b, c, d>> = Append(Append(Append(Append(s, a), b), c), d)
OBVIOUS

\* The statements of a function.
LEMMA SixStatements ==
  ASSUME NEW T, NEW a \in T, NEW b \in T, NEW c \in T, NEW d \in T, NEW e \in T, NEW f \in T
  PROVE  <<a, b, c, d, e, f>> \in Seq(T)
OBVIOUS

\* Statements before the first member, and the member.
LEMMA EmitOpening ==
  ASSUME NEW T, NEW s \in Seq(T), NEW q \in Seq(T), NEW a \in T
  PROVE  s \o (q \o <<a>>) = Append(s \o q, a)
<1>1. <<a>> \in Seq(T) /\ s \o q \in Seq(T)
  OBVIOUS
<1>2. s \o (q \o <<a>>) = (s \o q) \o <<a>>
  BY <1>1, ConcatAssociative
<1>3. QED
  BY <1>1, <1>2, EmitOne

\* Where a body stands: what a compiler knows, which fields were set, and
\* whether there is a loop; if not, they are all read from the parameter.
Stands(body, v, blocks, fields, loops) ==
  /\ body \in Seq(Statements)
  /\ Compiled(v, body) = Knows(blocks)
  /\ Fields(body) = fields
  /\ loops \/ TakenFrom(body, v)
  /\ Loops(body) <=> loops

\* Before the first statement.
LEMMA StandsEmpty ==
  ASSUME NEW v
  PROVE  Stands(<<>>, v, <<{v}>>, <<>>, FALSE)
<1>1. <<>> \in Seq(Statements)
  OBVIOUS
<1>2. Compiled(v, <<>>) = Knows(<<{v}>>)
  BY CompiledEmpty, Zenon DEF Knows
<1>3. TakenFrom(<<>>, v) /\ ~Loops(<<>>)
  BY DEF TakenFrom, Loops
<1>4. QED
  BY <1>1, <1>2, <1>3, FieldsEmpty, Zenon DEF Stands

\* After a statement that sets no field and opens no loop.
LEMMA StandsAppend ==
  ASSUME NEW body, NEW v, NEW blocks, NEW fields, NEW loops, NEW x \in Statements, NEW more,
         Stands(body, v, blocks, fields, loops),
         Compile(Knows(blocks), x) = Knows(more),
         x.op # "set", ~(x.op = "open" /\ x.uses = {"e"})
  PROVE  Stands(Append(body, x), v, more, fields, loops)
<1>1. body \in Seq(Statements)
  BY Zenon DEF Stands
<1>2. Append(body, x) \in Seq(Statements)
  BY <1>1
<1>3. Compiled(v, Append(body, x)) = Knows(more)
  <2>1. Compiled(v, Append(body, x)) = Compile(Compiled(v, body), x)
    BY <1>1, CompiledAppend
  <2>2. QED
    BY <2>1, Zenon DEF Stands
<1>4. Fields(Append(body, x)) = fields
  BY <1>1, FieldsAppend, Zenon DEF Stands
<1>5. loops \/ TakenFrom(Append(body, x), v)
  BY <1>1, HasAppend, Zenon DEF Stands
<1>6. Loops(Append(body, x)) <=> loops
  <2>1. Loops(Append(body, x)) <=> Loops(body)
    BY <1>1, HasAppend, Zenon
  <2>2. QED
    BY <2>1, Zenon DEF Stands
<1>7. QED
  BY <1>2, <1>3, <1>4, <1>5, <1>6, Zenon DEF Stands

\* After the statement that opens the loop.
LEMMA StandsLoop ==
  ASSUME NEW body, NEW v, NEW blocks, NEW fields, NEW loops, NEW x \in Statements, NEW more,
         Stands(body, v, blocks, fields, loops),
         Compile(Knows(blocks), x) = Knows(more),
         x.op = "open" /\ x.uses = {"e"}
  PROVE  Stands(Append(body, x), v, more, fields, TRUE)
<1>1. body \in Seq(Statements)
  BY Zenon DEF Stands
<1>2. Append(body, x) \in Seq(Statements) /\ x.op # "set"
  BY <1>1
<1>3. Compiled(v, Append(body, x)) = Knows(more)
  <2>1. Compiled(v, Append(body, x)) = Compile(Compiled(v, body), x)
    BY <1>1, CompiledAppend
  <2>2. QED
    BY <2>1, Zenon DEF Stands
<1>4. Fields(Append(body, x)) = fields
  BY <1>1, <1>2, FieldsAppend, Zenon DEF Stands
<1>6. Loops(Append(body, x))
  BY <1>1, HasAppend, Zenon
<1>7. QED
  BY <1>2, <1>3, <1>4, <1>6, Zenon DEF Stands

\* After a statement that sets a field of the structure.
LEMMA StandsSet ==
  ASSUME NEW body, NEW v, NEW blocks, NEW fields, NEW loops, NEW x \in Statements,
         Stands(body, v, blocks, fields, loops),
         Compile(Knows(blocks), x) = Knows(blocks),
         x.op = "set", x.from = v
  PROVE  Stands(Append(body, x), v, blocks, Append(fields, x.field), loops)
<1>1. body \in Seq(Statements)
  BY Zenon DEF Stands
<1>2. Append(body, x) \in Seq(Statements) /\ x.op # "open"
  BY <1>1
<1>3. Compiled(v, Append(body, x)) = Knows(blocks)
  <2>1. Compiled(v, Append(body, x)) = Compile(Compiled(v, body), x)
    BY <1>1, CompiledAppend
  <2>2. QED
    BY <2>1, Zenon DEF Stands
<1>4. Fields(Append(body, x)) = Append(fields, x.field)
  BY <1>1, <1>2, FieldsAppend, Zenon DEF Stands
<1>5. loops \/ TakenFrom(Append(body, x), v)
  BY <1>1, <1>2, HasAppend, Zenon DEF Stands
<1>6. Loops(Append(body, x)) <=> loops
  <2>1. Loops(Append(body, x)) <=> Loops(body)
    BY <1>1, <1>2, HasAppend, Zenon
  <2>2. QED
    BY <2>1, Zenon DEF Stands
<1>7. QED
  BY <1>2, <1>3, <1>4, <1>5, <1>6, Zenon DEF Stands

----------------------------------------------------------------------------
(***************************************************************************)
(* The functions that are written for structures.                          *)
(***************************************************************************)

\* The statements are statements, of a member whose method is defined.
LEMMA StatementTypes ==
  ASSUME type \in Names
  PROVE  /\ {NewObj, NewArray, NewElement, If, While, AddArray, Advance, Close,
             Give("array"), Give("obj")} \subseteq Statements
         /\ \A field \in Names, method \in Callable(lines) :
              Add(field, method) \in Statements
<1>1. NewObj \in Statements
  BY DEF Statements, Statement, Names, NewObj
<1>2. NewArray \in Statements
  BY DEF Statements, Statement, Names, NewArray
<1>3. NewElement \in Statements
  BY DEF Statements, Statement, Names, NewElement
<1>4. If \in Statements
  BY DEF Statements, Statement, Names, If
<1>5. While \in Statements
  BY DEF Statements, Statement, Names, While
<1>6. AddArray \in Statements
  BY DEF Statements, Statement, Names, AddArray
<1>7. Advance \in Statements
  BY DEF Statements, Statement, Names, Advance
<1>8. Close \in Statements
  BY DEF Statements, Statement, Names, Close
<1>9. Give("array") \in Statements /\ Give("obj") \in Statements
  BY DEF Statements, Statement, Names, Give
<1>10. ASSUME NEW field \in Names, NEW method \in Callable(lines)
       PROVE  Add(field, method) \in Statements
  BY DEF Statements, Statement, Names, Add
<1>11. QED
  BY <1>1, <1>2, <1>3, <1>4, <1>5, <1>6, <1>7, <1>8, <1>9, <1>10

\* Their parts.
LEMMA StatementParts ==
  /\ NewObj.op = "declare" /\ NewObj.uses = {} /\ NewObj.declares = {"obj"}
  /\ NewArray.op = "declare" /\ NewArray.uses = {} /\ NewArray.declares = {"array"}
  /\ NewElement.op = "declare" /\ NewElement.uses = {type} /\ NewElement.declares = {"e"}
  /\ If.op = "open" /\ If.uses = {type} /\ If.declares = {}
  /\ While.op = "open" /\ While.uses = {"e"} /\ While.declares = {}
  /\ AddArray.op = "add" /\ AddArray.uses = {"array", "obj"} /\ AddArray.declares = {}
  /\ Advance.op = "advance" /\ Advance.uses = {"e"} /\ Advance.declares = {}
  /\ Close.op = "close" /\ Close.uses = {} /\ Close.declares = {}
  /\ \A v : Give(v).op = "return" /\ Give(v).uses = {v} /\ Give(v).declares = {}
  /\ \A field, method :
       /\ Add(field, method).op = "set" /\ Add(field, method).uses = {"obj", type}
       /\ Add(field, method).declares = {} /\ Add(field, method).field = field
       /\ Add(field, method).from = type
BY DEF Statement, NewObj, NewArray, NewElement, If, While, AddArray, Advance, Close, Give, Add

InIf(v)   == <<{v, "obj"}, {}>>
InLoop(v) == <<{v, "array", "e"}, {"obj"}>>
Behind(v) == <<{v, "array", "e"}>>

\* A member, in the block of the if and in the loop.
LEMMA WriteMember ==
  ASSUME NEW body, NEW fields, NEW loops, NEW blocks, NEW field \in Names,
         NEW method \in Callable(lines), type \in Names,
         blocks = InIf(type) \/ blocks = InLoop(type),
         Stands(body, type, blocks, fields, loops)
  PROVE  Stands(Append(body, Add(field, method)), type, blocks, Append(fields, field), loops)
<1> DEFINE x == Add(field, method)
<1>1. x \in Statements
  BY StatementTypes
<1>2. /\ x.op = "set" /\ x.uses = {"obj", type} /\ x.declares = {}
      /\ x.field = field /\ x.from = type
  BY StatementParts
<1> HIDE DEF x
<1>3. Compile(Knows(blocks), x) = Knows(blocks)
  <2>1. CASE blocks = InIf(type)
    <3> DEFINE none == {}
    <3>1. x.uses \subseteq {type, "obj"} \cup none /\ x.op \in {"set", "add", "advance"}
      BY <1>2
    <3>2. blocks = <<{type, "obj"}, none>>
      BY <2>1 DEF InIf
    <3> HIDE DEF none
    <3>3. QED
      BY <3>1, <3>2, <1>2, CompileTwo, Zenon
  <2>2. CASE blocks = InLoop(type)
    <3>1. x.uses \subseteq {type, "array", "e"} \cup {"obj"} /\ x.op \in {"set", "add", "advance"}
      BY <1>2
    <3>2. QED
      BY <2>2, <3>1, <1>2, CompileTwo, Zenon DEF InLoop
  <2>3. QED
    BY <2>1, <2>2
<1>4. Stands(Append(body, x), type, blocks, Append(fields, x.field), loops)
  BY <1>1, <1>2, <1>3, StandsSet, Zenon
<1>5. QED
  BY <1>2, <1>4, Zenon DEF x

\* What is written before the first member of a structure.
LEMMA WriteIf ==
  ASSUME type \in Names, type \notin {"obj", "array", "e"}
  PROVE  Stands(<<>> \o <<NewObj, If>>, type, InIf(type), <<>>, FALSE)
<1> DEFINE b1 == Append(<<>>, NewObj)
           b2 == Append(b1, If)
<1>1. NewObj \in Statements /\ If \in Statements /\ <<>> \in Seq(Statements)
  BY StatementTypes
<1>2. Stands(<<>>, type, <<{type}>>, <<>>, FALSE)
  BY StandsEmpty
<1>3. Stands(b1, type, <<{type, "obj"}>>, <<>>, FALSE)
  <2> DEFINE x == NewObj
  <2>1. x.uses \subseteq {type} /\ x.declares \cap {type} = {} /\ x.op = "declare"
        /\ {type} \cup x.declares = {type, "obj"}
    BY StatementParts
  <2>2. x \in Statements /\ x.op # "set" /\ ~(x.op = "open" /\ x.uses = {"e"})
    BY <1>1, <2>1
  <2> HIDE DEF x
  <2>3. Compile(Knows(<<{type}>>), x) = Knows(<<{type, "obj"}>>)
    <3>1. Compile(Knows(<<{type}>>), x) = Knows(<<{type} \cup x.declares>>)
      BY <2>1, CompileOne, Zenon
    <3>2. QED
      BY <2>1, <3>1, Zenon
  <2>4. Stands(Append(<<>>, x), type, <<{type, "obj"}>>, <<>>, FALSE)
    BY <1>2, <2>2, <2>3, StandsAppend, Zenon
  <2>5. QED
    BY <2>4, Zenon DEF x
<1>4. Stands(b2, type, InIf(type), <<>>, FALSE)
  <2> DEFINE x == If
  <2>1. x.uses \subseteq {type, "obj"} /\ x.declares = {} /\ x.op = "open" /\ x.uses # {"e"}
    BY StatementParts
  <2>2. x \in Statements /\ x.op # "set" /\ ~(x.op = "open" /\ x.uses = {"e"})
    BY <1>1, <2>1
  <2> HIDE DEF x, b1
  <2>3. Compile(Knows(<<{type, "obj"}>>), x) = Knows(<<{type, "obj"}, {}>>)
    BY <2>1, CompileOne, Zenon
  <2>4. Stands(Append(b1, x), type, <<{type, "obj"}, {}>>, <<>>, FALSE)
    BY <1>3, <2>2, <2>3, StandsAppend, Zenon
  <2>5. QED
    BY <2>4, Zenon DEF x, InIf
<1>5. <<>> \o <<NewObj, If>> = b2
  BY <1>1, EmitTwo
<1>6. QED
  BY <1>4, <1>5, Zenon

\* What is written before the counter of a list.
LEMMA WriteLoop ==
  ASSUME type \in Names, type \notin {"obj", "array", "e"}
  PROVE  Stands(<<>> \o <<NewArray, NewElement, While, NewObj>>, type, InLoop(type), <<>>, TRUE)
<1> DEFINE b1 == Append(<<>>, NewArray)
           b2 == Append(b1, NewElement)
           b3 == Append(b2, While)
           b4 == Append(b3, NewObj)
<1>1. /\ NewArray \in Statements /\ NewElement \in Statements /\ While \in Statements
      /\ NewObj \in Statements /\ <<>> \in Seq(Statements)
  BY StatementTypes
<1>2. Stands(<<>>, type, <<{type}>>, <<>>, FALSE)
  BY StandsEmpty
<1>3. Stands(b1, type, <<{type, "array"}>>, <<>>, FALSE)
  <2> DEFINE x == NewArray
  <2>1. x.uses \subseteq {type} /\ x.declares \cap {type} = {} /\ x.op = "declare"
        /\ {type} \cup x.declares = {type, "array"}
    BY StatementParts
  <2>2. x \in Statements /\ x.op # "set" /\ ~(x.op = "open" /\ x.uses = {"e"})
    BY <1>1, <2>1
  <2> HIDE DEF x
  <2>3. Compile(Knows(<<{type}>>), x) = Knows(<<{type, "array"}>>)
    <3>1. Compile(Knows(<<{type}>>), x) = Knows(<<{type} \cup x.declares>>)
      BY <2>1, CompileOne, Zenon
    <3>2. QED
      BY <2>1, <3>1, Zenon
  <2>4. Stands(Append(<<>>, x), type, <<{type, "array"}>>, <<>>, FALSE)
    BY <1>2, <2>2, <2>3, StandsAppend, Zenon
  <2>5. QED
    BY <2>4, Zenon DEF x
<1>4. Stands(b2, type, <<{type, "array", "e"}>>, <<>>, FALSE)
  <2> DEFINE x == NewElement
  <2>1. x.uses \subseteq {type, "array"} /\ x.declares \cap {type, "array"} = {} /\ x.op = "declare"
        /\ {type, "array"} \cup x.declares = {type, "array", "e"}
    BY StatementParts
  <2>2. x \in Statements /\ x.op # "set" /\ ~(x.op = "open" /\ x.uses = {"e"})
    BY <1>1, <2>1
  <2> HIDE DEF x, b1
  <2>3. Compile(Knows(<<{type, "array"}>>), x) = Knows(<<{type, "array", "e"}>>)
    <3>1. Compile(Knows(<<{type, "array"}>>), x) = Knows(<<{type, "array"} \cup x.declares>>)
      BY <2>1, CompileOne, Zenon
    <3>2. QED
      BY <2>1, <3>1, Zenon
  <2>4. Stands(Append(b1, x), type, <<{type, "array", "e"}>>, <<>>, FALSE)
    BY <1>3, <2>2, <2>3, StandsAppend, Zenon
  <2>5. QED
    BY <2>4, Zenon DEF x
<1>5. Stands(b3, type, <<{type, "array", "e"}, {}>>, <<>>, TRUE)
  <2> DEFINE x == While
  <2>1. x.uses \subseteq {type, "array", "e"} /\ x.declares = {} /\ x.op = "open" /\ x.uses = {"e"}
    BY StatementParts
  <2>2. x \in Statements
    BY <1>1
  <2> HIDE DEF x, b2
  <2>3. Compile(Knows(<<{type, "array", "e"}>>), x) = Knows(<<{type, "array", "e"}, {}>>)
    BY <2>1, CompileOne, Zenon
  <2>4. Stands(Append(b2, x), type, <<{type, "array", "e"}, {}>>, <<>>, TRUE)
    BY <1>4, <2>1, <2>2, <2>3, StandsLoop, Zenon
  <2>5. QED
    BY <2>4, Zenon DEF x
<1>6. Stands(b4, type, InLoop(type), <<>>, TRUE)
  <2> DEFINE x == NewObj
  <2>1. x.uses \subseteq {type, "array", "e"} \cup {} /\ x.declares \cap {} = {} /\ x.op = "declare"
        /\ {} \cup x.declares = {"obj"}
    BY StatementParts
  <2>2. x \in Statements /\ x.op # "set" /\ ~(x.op = "open" /\ x.uses = {"e"})
    BY <1>1, <2>1
  <2> HIDE DEF x, b3
  <2>3. Compile(Knows(<<{type, "array", "e"}, {}>>), x) = Knows(<<{type, "array", "e"}, {"obj"}>>)
    <3> DEFINE none  == {}
               outer == {type, "array", "e"}
    <3>1. x.uses \subseteq outer \cup none /\ x.declares \cap none = {}
          /\ x.op = "declare"
      BY <2>1
    <3>a. none \cup x.declares = {"obj"}
      BY <2>1
    <3> HIDE DEF none, outer
    <3>2. Compile(Knows(<<outer, none>>), x) = Knows(<<outer, none \cup x.declares>>)
      BY <3>1, CompileTwo, Zenon
    <3>3. QED
      BY <3>a, <3>2, Zenon DEF none, outer
  <2>4. Stands(Append(b3, x), type, <<{type, "array", "e"}, {"obj"}>>, <<>>, TRUE)
    BY <1>5, <2>2, <2>3, StandsAppend, Zenon
  <2>5. QED
    BY <2>4, Zenon DEF x, InLoop
<1>7. <<>> \o <<NewArray, NewElement, While, NewObj>> = b4
  BY <1>1, EmitFour
<1>8. QED
  BY <1>6, <1>7, Zenon

\* The pointer to the next element: the object is put in the array and the loop ends.
LEMMA WriteNext ==
  ASSUME NEW body, NEW fields, type \in Names, Stands(body, type, InLoop(type), fields, TRUE)
  PROVE  /\ Stands(body \o <<AddArray, Advance, Close>>, type, Behind(type), fields, TRUE)
         /\ Has(body \o <<AddArray, Advance, Close>>, AddArray)
<1> DEFINE b1 == Append(body, AddArray)
           b2 == Append(b1, Advance)
           b3 == Append(b2, Close)
<1>1. /\ AddArray \in Statements /\ Advance \in Statements /\ Close \in Statements
      /\ body \in Seq(Statements)
  BY StatementTypes DEF Stands
<1>2. Stands(b1, type, InLoop(type), fields, TRUE)
  <2> DEFINE x == AddArray
  <2>1. x.uses \subseteq {type, "array", "e"} \cup {"obj"} /\ x.declares = {}
        /\ x.op \in {"set", "add", "advance"}
    BY StatementParts
  <2>2. x \in Statements /\ x.op # "set" /\ ~(x.op = "open" /\ x.uses = {"e"})
    BY <1>1, StatementParts
  <2> HIDE DEF x
  <2>3. Compile(Knows(InLoop(type)), x) = Knows(InLoop(type))
    BY <2>1, CompileTwo, Zenon DEF InLoop
  <2>4. Stands(Append(body, x), type, InLoop(type), fields, TRUE)
    BY <2>2, <2>3, StandsAppend, Zenon
  <2>5. QED
    BY <2>4, Zenon DEF x
<1>3. Stands(b2, type, InLoop(type), fields, TRUE)
  <2> DEFINE x == Advance
  <2>1. x.uses \subseteq {type, "array", "e"} \cup {"obj"} /\ x.declares = {}
        /\ x.op \in {"set", "add", "advance"}
    BY StatementParts
  <2>2. x \in Statements /\ x.op # "set" /\ ~(x.op = "open" /\ x.uses = {"e"})
    BY <1>1, StatementParts
  <2> HIDE DEF x, b1
  <2>3. Compile(Knows(InLoop(type)), x) = Knows(InLoop(type))
    BY <2>1, CompileTwo, Zenon DEF InLoop
  <2>4. Stands(Append(b1, x), type, InLoop(type), fields, TRUE)
    BY <1>2, <2>2, <2>3, StandsAppend, Zenon
  <2>5. QED
    BY <2>4, Zenon DEF x
<1>4. Stands(b3, type, Behind(type), fields, TRUE)
  <2> DEFINE x == Close
  <2>1. x.uses \subseteq {type, "array", "e"} \cup {"obj"} /\ x.declares = {} /\ x.op = "close"
    BY StatementParts
  <2>2. x \in Statements /\ x.op # "set" /\ ~(x.op = "open" /\ x.uses = {"e"})
    BY <1>1, <2>1
  <2> HIDE DEF x, b2
  <2>3. Compile(Knows(InLoop(type)), x) = Knows(Behind(type))
    BY <2>1, CompileTwo, Zenon DEF InLoop, Behind
  <2>4. Stands(Append(b2, x), type, Behind(type), fields, TRUE)
    BY <1>3, <2>2, <2>3, StandsAppend, Zenon
  <2>5. QED
    BY <2>4, Zenon DEF x
<1>5. Has(b3, AddArray)
  <2>1. b1 \in Seq(Statements) /\ b2 \in Seq(Statements)
    BY <1>1
  <2>2. Has(b1, AddArray)
    BY <1>1, HasAppend, Zenon
  <2>3. Has(b2, AddArray)
    BY <1>1, <2>1, <2>2, HasAppend, Zenon
  <2>4. QED
    BY <1>1, <2>1, <2>3, HasAppend, Zenon
<1>6. body \o <<AddArray, Advance, Close>> = b3
  BY <1>1, EmitThree
<1>7. QED
  BY <1>4, <1>5, <1>6, Zenon

\* The end of a list: the array is returned.
LEMMA WriteListEnd ==
  ASSUME NEW body, NEW fields, type \in Names, Stands(body, type, Behind(type), fields, TRUE),
         Has(body, AddArray)
  PROVE  /\ Stands(body \o <<Give("array"), Close>>, type, <<>>, fields, TRUE)
         /\ Gives(body \o <<Give("array"), Close>>)
<1> DEFINE g  == Give("array")
           b1 == Append(body, g)
           b2 == Append(b1, Close)
<1>1. g \in Statements /\ Close \in Statements /\ body \in Seq(Statements)
  BY StatementTypes DEF Stands
<1>2. Stands(b1, type, Behind(type), fields, TRUE)
  <2> DEFINE x == g
  <2>1. x.uses \subseteq {type, "array", "e"} /\ x.declares = {} /\ x.op \in {"set", "return"}
    BY StatementParts
  <2>2. x \in Statements /\ x.op # "set" /\ ~(x.op = "open" /\ x.uses = {"e"})
    BY <1>1, StatementParts
  <2> HIDE DEF x
  <2>3. Compile(Knows(Behind(type)), x) = Knows(Behind(type))
    BY <2>1, CompileOne, Zenon DEF Behind
  <2>4. Stands(Append(body, x), type, Behind(type), fields, TRUE)
    BY <2>2, <2>3, StandsAppend, Zenon
  <2>5. QED
    BY <2>4, Zenon DEF x
<1>3. Stands(b2, type, <<>>, fields, TRUE)
  <2> DEFINE x == Close
  <2>1. x.uses \subseteq {type, "array", "e"} /\ x.declares = {} /\ x.op = "close"
    BY StatementParts
  <2>2. x \in Statements /\ x.op # "set" /\ ~(x.op = "open" /\ x.uses = {"e"})
    BY <1>1, <2>1
  <2> HIDE DEF x, b1
  <2>3. Compile(Knows(Behind(type)), x) = Knows(<<>>)
    BY <2>1, CompileOne, Zenon DEF Behind
  <2>4. Stands(Append(b1, x), type, <<>>, fields, TRUE)
    BY <1>2, <2>2, <2>3, StandsAppend, Zenon
  <2>5. QED
    BY <2>4, Zenon DEF x
<1>4. Has(b2, AddArray) /\ Has(b2, g)
  <2>1. b1 \in Seq(Statements)
    BY <1>1
  <2> HIDE DEF g
  <2>2. Has(b1, AddArray) /\ Has(b1, g)
    BY <1>1, HasAppend, Zenon
  <2>3. QED
    BY <1>1, <2>1, <2>2, HasAppend, Zenon
<1>5. Gives(b2)
  BY <1>3, <1>4, Zenon DEF Stands, Gives
<1>6. body \o <<g, Close>> = b2
  <2> HIDE DEF g
  <2>1. QED
    BY <1>1, EmitTwo
<1>7. QED
  BY <1>3, <1>5, <1>6, Zenon

\* The end of another structure: the object is returned.
LEMMA WritePlainEnd ==
  ASSUME NEW body, NEW fields, type \in Names, Stands(body, type, InIf(type), fields, FALSE)
  PROVE  /\ Stands(body \o <<Close, Give("obj"), Close>>, type, <<>>, fields, FALSE)
         /\ Gives(body \o <<Close, Give("obj"), Close>>)
<1> DEFINE g  == Give("obj")
           b1 == Append(body, Close)
           b2 == Append(b1, g)
           b3 == Append(b2, Close)
<1>1. g \in Statements /\ Close \in Statements /\ body \in Seq(Statements)
  BY StatementTypes DEF Stands
<1>2. Stands(b1, type, <<{type, "obj"}>>, fields, FALSE)
  <2> DEFINE x == Close
  <2>1. x.uses \subseteq {type, "obj"} \cup {} /\ x.declares = {} /\ x.op = "close"
    BY StatementParts
  <2>2. x \in Statements /\ x.op # "set" /\ ~(x.op = "open" /\ x.uses = {"e"})
    BY <1>1, <2>1
  <2> HIDE DEF x
  <2>3. Compile(Knows(InIf(type)), x) = Knows(<<{type, "obj"}>>)
    BY <2>1, CompileTwo, Zenon DEF InIf
  <2>4. Stands(Append(body, x), type, <<{type, "obj"}>>, fields, FALSE)
    BY <2>2, <2>3, StandsAppend, Zenon
  <2>5. QED
    BY <2>4, Zenon DEF x
<1>3. Stands(b2, type, <<{type, "obj"}>>, fields, FALSE)
  <2> DEFINE x == g
  <2>1. x.uses \subseteq {type, "obj"} /\ x.declares = {} /\ x.op \in {"set", "return"}
    BY StatementParts
  <2>2. x \in Statements /\ x.op # "set" /\ ~(x.op = "open" /\ x.uses = {"e"})
    BY <1>1, StatementParts
  <2> HIDE DEF x, b1
  <2>3. Compile(Knows(<<{type, "obj"}>>), x) = Knows(<<{type, "obj"}>>)
    BY <2>1, CompileOne, Zenon
  <2>4. Stands(Append(b1, x), type, <<{type, "obj"}>>, fields, FALSE)
    BY <1>2, <2>2, <2>3, StandsAppend, Zenon
  <2>5. QED
    BY <2>4, Zenon DEF x
<1>4. Stands(b3, type, <<>>, fields, FALSE)
  <2> DEFINE x == Close
  <2>1. x.uses \subseteq {type, "obj"} /\ x.declares = {} /\ x.op = "close"
    BY StatementParts
  <2>2. x \in Statements /\ x.op # "set" /\ ~(x.op = "open" /\ x.uses = {"e"})
    BY <1>1, <2>1
  <2> HIDE DEF x, b2
  <2>3. Compile(Knows(<<{type, "obj"}>>), x) = Knows(<<>>)
    BY <2>1, CompileOne, Zenon
  <2>4. Stands(Append(b2, x), type, <<>>, fields, FALSE)
    BY <1>3, <2>2, <2>3, StandsAppend, Zenon
  <2>5. QED
    BY <2>4, Zenon DEF x
<1>5. Has(b3, g)
  <2>1. b1 \in Seq(Statements)
    BY <1>1
  <2> HIDE DEF g, b1
  <2>2. Has(b2, g)
    BY <1>1, <2>1, HasAppend, Zenon
  <2>3. b2 \in Seq(Statements)
    BY <1>1, <2>1
  <2>4. QED
    BY <1>1, <2>3, <2>2, HasAppend, Zenon
<1>6. Gives(b3)
  BY <1>4, <1>5, Zenon DEF Stands, Gives
<1>7. body \o <<Close, g, Close>> = b3
  <2> HIDE DEF g
  <2>1. QED
    BY <1>1, EmitThree
<1>8. QED
  BY <1>4, <1>6, <1>7, Zenon

----------------------------------------------------------------------------
(***************************************************************************)
(* The lines, and the step from one to the next.                           *)
(***************************************************************************)

\* What is assumed of the lines.
LEMMA HeadFacts ==
  ASSUME lines \in Heads
  PROVE  /\ Len(lines) \in Nat
         /\ Relevant(lines) \subseteq 1 .. Len(lines) /\ Starts(lines) \subseteq Relevant(lines)
         /\ \A n \in 1 .. Len(lines) : lines[n].value \in Names /\ lines[n].match \in Kinds
<1>1. lines \in Seq(Line)
  BY GeneratorAssumption
<1>2. Len(lines) \in Nat /\ \A n \in 1 .. Len(lines) : lines[n] \in Line
  BY <1>1
<1>3. Relevant(lines) \subseteq 1 .. Len(lines) /\ Starts(lines) \subseteq Relevant(lines)
  BY Zenon DEF Relevant, Starts
<1>4. ASSUME NEW n \in 1 .. Len(lines)
      PROVE  lines[n].value \in Names /\ lines[n].match \in Kinds
  <2>1. lines[n].match \in Kinds
    BY <1>2 DEF Line
  <2>2. lines[n].value \in Names
    BY Zenon DEF Names
  <2>3. QED
    BY <2>1, <2>2
<1>5. QED
  BY <1>1, <1>2, <1>3, <1>4, Zenon

\* What depends on the lines alone.
LEMMA SameLines ==
  ASSUME lines' = lines
  PROVE  /\ Names' = Names /\ Statements' = Statements
         /\ Relevant(lines)' = Relevant(lines) /\ Starts(lines)' = Starts(lines)
         /\ \A s, n : /\ Members(s, n)' = Members(s, n) /\ IsMember(s, n)' = IsMember(s, n)
                      /\ Listed(lines, s)' = Listed(lines, s)
                      /\ Sized(lines, s)' = Sized(lines, s)
<1>1. Names' = Names /\ Statements' = Statements
  BY DEF Names, Statements, Callable, Relevant, Defined, getNewMethod
<1>2. Relevant(lines)' = Relevant(lines) /\ Starts(lines)' = Starts(lines)
  BY DEF Starts, Relevant
<1>3. \A s, n : IsMember(s, n)' = IsMember(s, n)
  BY DEF IsMember, Within, Relevant, Starts, IsNext
<1>4. \A s, n : Members(s, n)' = Members(s, n)
  BY DEF Members, IsMember, Within, Relevant, Starts, IsNext
<1>5. \A s : Listed(lines, s)' = Listed(lines, s)
  BY DEF Listed, Follows, Relevant, IsCounter
<1>6. \A s : Sized(lines, s)' = Sized(lines, s)
  BY DEF Sized, Silent, Within, Relevant, Starts
<1>7. QED
  BY <1>1, <1>2, <1>3, <1>4, <1>5, <1>6

\* A line is read after the latest one.
LEMMA ReadsNext ==
  ASSUME lines \in Heads, index \in 0 .. Len(lines), NEW m, Latest(m), index + 1 \in Relevant(lines)
  PROVE  Follows(lines, m, index + 1)
<1>1. Relevant(lines) \subseteq Nat
  BY HeadFacts
<1>2. index \in Nat
  OBVIOUS
<1>3. QED
  BY <1>1, <1>2 DEF Latest, Follows

\* The structure that began at s, after a line that is skipped.
LEMMA CurrentSkip ==
  ASSUME lines \in Heads, index \in 0 .. Len(lines), lines' = lines, index' = index + 1,
         index + 1 \notin Relevant(lines), NEW s \in Starts(lines), s <= index
  PROVE  (Current(s)' <=> Current(s)) /\ ~IsMember(s, index + 1)
<1>1. Relevant(lines) \subseteq Nat /\ index \in Nat /\ Starts(lines) \subseteq Nat
  BY HeadFacts
<1>2. ~IsMember(s, index + 1)
  BY Zenon DEF IsMember, Within
<1>3. Relevant(lines)' = Relevant(lines) /\ Starts(lines)' = Starts(lines)
  BY SameLines
<1>4. \A j \in Relevant(lines) : j <= index <=> j <= index'
  BY <1>1
<1>5. s <= index'
  BY <1>1
<1>6. QED
  BY <1>2, <1>3, <1>4, <1>5, Zenon DEF Current

\* And after one that is not: it goes on unless that line is its end.
LEMMA CurrentStep ==
  ASSUME lines \in Heads, index \in 0 .. Len(lines), lines' = lines, index' = index + 1,
         index + 1 \in Relevant(lines), NEW s \in Starts(lines), s <= index
  PROVE  /\ Current(s)' <=> Current(s) /\ lines[index + 1].match # "end"
         /\ IsMember(s, index + 1) <=> Current(s)' /\ ~IsNext(lines[index + 1])
<1>1. Relevant(lines) \subseteq Nat /\ index \in Nat /\ Starts(lines) \subseteq Nat
  BY HeadFacts
<1>2. Relevant(lines)' = Relevant(lines) /\ Starts(lines)' = Starts(lines)
  BY SameLines
<1>3. \A j \in Relevant(lines) : j <= index' <=> j <= index \/ j = index + 1
  BY <1>1
<1>4. s <= index' /\ s <= index + 1
  BY <1>1
<1>5. Current(s)' <=> \A j \in Relevant(lines) : s <= j /\ j <= index' => lines[j].match # "end"
  BY <1>2, <1>4, Zenon DEF Current
<1>6. Current(s) <=> \A j \in Relevant(lines) : s <= j /\ j <= index => lines[j].match # "end"
  BY Zenon DEF Current
<1>7. Current(s)' <=> Current(s) /\ lines[index + 1].match # "end"
  BY <1>3, <1>4, <1>5, <1>6, Zenon
<1>8. IsMember(s, index + 1) <=> Current(s)' /\ ~IsNext(lines[index + 1])
  BY <1>4, <1>5, Zenon DEF IsMember, Within
<1>9. QED
  BY <1>7, <1>8

\* What toSource makes of the function that is being written.
LEMMA EmitFacts ==
  ASSUME NEW R, source \in Seq([kind : {"tool", "build", "top"}, struct : R, body : Seq(Statements)]),
         Len(source) # 0, NEW body \in Seq(Statements),
         source' = [source EXCEPT ![Len(source)].body = body]
  PROVE  /\ source' \in Seq([kind : {"tool", "build", "top"}, struct : R, body : Seq(Statements)])
         /\ Len(source') = Len(source)
         /\ \A f \in 1 .. Len(source) : f # Len(source) => source'[f] = source[f]
         /\ source'[Len(source)].body = body
         /\ source'[Len(source)].kind = source[Len(source)].kind
         /\ source'[Len(source)].struct = source[Len(source)].struct
<1> DEFINE N == Len(source)
           F == [kind : {"tool", "build", "top"}, struct : R, body : Seq(Statements)]
           x == [source[N] EXCEPT !.body = body]
<1>1. N \in 1 .. N /\ N \in Nat
  OBVIOUS
<1>5. source \in Seq(F)
  OBVIOUS
<1>2. source[N] \in F
  <2> HIDE DEF F
  <2>1. QED
    BY <1>1, <1>5, ElementOfSeq
<1>3. x \in F /\ x.body = body /\ x.kind = source[N].kind /\ x.struct = source[N].struct
  BY <1>2
<1>4. source' = [source EXCEPT ![N] = x]
  OBVIOUS
<1> HIDE DEF F, x, N
<1>a. N = Len(source)
  BY DEF N
<1>6. source' \in Seq(F) /\ Len(source') = N
      /\ \A j \in 1 .. N : source'[j] = IF j = N THEN x ELSE source[j]
  <2> DEFINE t == [source EXCEPT ![N] = x]
  <2>1. t \in Seq(F) /\ Len(t) = Len(source)
        /\ \A j \in 1 .. Len(source) : t[j] = IF j = N THEN x ELSE source[j]
    BY <1>a, <1>1, <1>3, <1>5, ExceptSeq
  <2>2. source' = t
    BY <1>4
  <2> HIDE DEF t
  <2>3. QED
    BY <1>a, <2>1, <2>2, Zenon
<1>7. source'[N] = x
  BY <1>1, <1>6
<1>8. \A f \in 1 .. N : f # N => source'[f] = source[f]
  BY <1>6
<1>9. QED
  BY <1>a, <1>3, <1>6, <1>7, <1>8, Zenon DEF F

----------------------------------------------------------------------------
(***************************************************************************)
(* A line of a structure.                                                  *)
(***************************************************************************)

\* Only one structure is in the middle of being read: it has the function that
\* is being written.
LEMMA OneCurrent ==
  ASSUME Inv, Structured(lines), NEW s, Current(s)
  PROVE  /\ source # <<>> /\ Len(source) # 0 /\ stage = "lines"
         /\ Function_of(s, Len(source))
         /\ \A t \in Starts(lines) : Current(t) => t = s
         /\ \A t \in Starts(lines), f \in 1 .. Len(source) :
              t # s /\ Function_of(t, f) => f # Len(source)
<1>1. s \in Starts(lines) /\ s <= index
  BY Zenon DEF Current
<1>2. PICK f \in 1 .. Len(source) : Function_of(s, f)
  BY <1>1, Zenon DEF Inv, Structures
<1>3. f = Len(source) /\ stage = "lines" /\ type = lines[s].value /\ source[f].struct = lines[s].value
  BY <1>2, Zenon DEF Function_of
<1>4. Len(source) # 0 /\ source # <<>>
  BY <1>2
<1>6. \A t \in Starts(lines) : lines[t].value = lines[s].value => t = s
  BY <1>1, Zenon DEF Structured
<1>7. ASSUME NEW t \in Starts(lines), Current(t)
      PROVE  t = s
  <2>1. t <= index
    BY <1>7, Zenon DEF Current
  <2>2. type = lines[t].value
    BY <1>7, <2>1, Zenon DEF Inv, Structures, Function_of
  <2>3. QED
    BY <1>3, <1>6, <2>2, Zenon
<1>8. ASSUME NEW t \in Starts(lines), NEW g \in 1 .. Len(source), t # s, Function_of(t, g)
      PROVE  g # Len(source)
  <2>1. source[g].struct = lines[t].value
    BY <1>8, Zenon DEF Function_of
  <2>2. QED
    BY <1>3, <1>6, <1>8, <2>1, Zenon
<1>9. QED
  BY <1>2, <1>3, <1>4, <1>7, <1>8, Zenon

\* What must be written for line n of the structure that begins at s, with
\* the new context.last.
Fits(s, n, body, blocks, loops, next) ==
  LET x == lines[n]
  IN  \/ x.match = "end" /\ next = "end" /\ blocks = <<>> /\ Gives(body)
      \/ /\ IsNext(x) /\ next = "next" /\ Listed(lines, s) /\ loops
         /\ Has(body, AddArray) /\ blocks = Behind(type)
      \/ /\ x.match # "end" /\ ~IsNext(x) /\ next \notin {"end", "start", "next"}
         /\ Listed(lines, s) <=> loops
         /\ Listed(lines, s) => blocks = InLoop(type)
         /\ ~Listed(lines, s) => blocks = InIf(type)

\* A structure whose line was written like this is read as before.
LEMMA LineStep ==
  ASSUME Inv, Structured(lines), NEW s, Current(s), index < Len(lines), NEW n, n = index + 1, NEW N, N = Len(source),
         n \in Relevant(lines), lines[n].match # "typedef",
         index' = n, UNCHANGED <<stage, lines, type, header>>,
         NEW body, source' = [source EXCEPT ![N].body = body],
         NEW blocks, NEW loops \in BOOLEAN, NEW fields,
         Stands(body, type, blocks, fields, loops), Sized(lines, s) => fields = Members(s, n),
         Fits(s, n, body, blocks, loops, last')
  PROVE  Inv'
<1>1. /\ lines \in Heads /\ index \in 0 .. Len(lines) /\ stage \in {"lines", "done"} /\ type \in Names
      /\ source \in Seq([kind : {"tool", "build", "top"}, struct : Names, body : Seq(Statements)])
      /\ header = {lines[k].value : k \in {t \in Starts(lines) : t <= index}}
  BY Zenon DEF Inv, TypeOK
<1>2. /\ Len(lines) \in Nat /\ Relevant(lines) \subseteq 1 .. Len(lines)
      /\ Starts(lines) \subseteq Relevant(lines)
  BY <1>1, HeadFacts
<1>3. n \in 1 .. Len(lines) /\ index \in Nat /\ n \in Nat
  BY <1>1, <1>2
<1>4. lines' = lines /\ stage' = stage /\ type' = type /\ header' = header /\ index' = n
  OBVIOUS
<1>5. /\ Names' = Names /\ Statements' = Statements
      /\ Relevant(lines)' = Relevant(lines) /\ Starts(lines)' = Starts(lines)
      /\ \A k, t : Members(k, t)' = Members(k, t) /\ Listed(lines, k)' = Listed(lines, k)
      /\ \A k : Sized(lines, k)' = Sized(lines, k)
  BY <1>4, SameLines
<1>6. /\ N # 0 /\ stage = "lines" /\ Function_of(s, N)
      /\ \A t \in Starts(lines) : Current(t) => t = s
      /\ \A t \in Starts(lines), f \in 1 .. N : t # s /\ Function_of(t, f) => f # N
  BY OneCurrent
<1>7. body \in Seq(Statements)
  BY Zenon DEF Stands
<1>8. /\ source' \in Seq([kind : {"tool", "build", "top"}, struct : Names, body : Seq(Statements)])
      /\ Len(source') = N
      /\ \A f \in 1 .. N : f # N => source'[f] = source[f]
      /\ source'[N].body = body
      /\ source'[N].kind = source[N].kind
      /\ source'[N].struct = source[N].struct
  BY <1>1, <1>6, <1>7, EmitFacts
<1>9. s \in Starts(lines) /\ s <= index /\ n \notin Starts(lines)
  BY Zenon DEF Current, Starts
<1>10. \A t \in Starts(lines) : t <= n <=> t <= index
  BY <1>2, <1>3, <1>9
<1>11. Current(s)' <=> lines[n].match # "end"
  BY <1>1, <1>4, <1>9, CurrentStep
<1>12. TypeOK'
  <2>1. index' \in 0 .. Len(lines)
    BY <1>3, <1>4
  <2>2. {t \in Starts(lines) : t <= index} = {t \in Starts(lines) : t <= n}
    BY <1>10
  <2>3. header' = {lines[k].value : k \in {t \in Starts(lines) : t <= n}}
    BY <1>1, <1>4, <2>2, Zenon
  <2>4. stage' = "lines" /\ stage' # "done"
    BY <1>4, <1>6
  <2>5. stage' \in {"lines", "done"} /\ lines' \in Heads /\ index' \in 0 .. Len(lines') /\ type' \in Names'
    BY <1>1, <1>4, <1>5, <2>1, Zenon
  <2>6. source' \in Seq([kind : {"tool", "build", "top"}, struct : Names', body : Seq(Statements')])
    BY <1>5, <1>8, Zenon
  <2>7. header' = {lines'[k].value : k \in {t \in Starts(lines)' : t <= index'}}
    BY <1>4, <1>5, <2>3, Zenon
  <2>8. QED
    BY <2>4, <2>5, <2>6, <2>7, Zenon DEF TypeOK
<1>13. Context'
  <2>1. Latest(n)'
    <3>1. n <= n /\ \A j \in Relevant(lines) : j <= n \/ n < j
      BY <1>2, <1>3
    <3>2. QED
      BY <1>4, <1>5, <3>1, Zenon DEF Latest
  <2>2. /\ last' = "next" <=> IsNext(lines[n])
        /\ last' = "end" <=> lines[n].match = "end"
        /\ last' # "start" /\ lines[n].match # "typedef"
    BY DEF Fits, IsNext
  <2>3. last' # "end" => Current(s)'
    BY <1>11, <2>2, Zenon
  <2> DEFINE P(m) == /\ Latest(m)
                     /\ last = "next" <=> IsNext(lines[m])
                     /\ last = "end" <=> lines[m].match = "end"
                     /\ last = "start" <=> lines[m].match = "typedef"
                     /\ last = "start" => Current(m)
                     /\ last # "end" => \E t \in Starts(lines) : Current(t)
  <2>4. P(n)'
    <3>1. last' # "end" => \E t \in Starts(lines)' : Current(t)'
      BY <1>5, <1>9, <2>3, Zenon
    <3>2. IsNext(lines'[n]) <=> IsNext(lines[n])
      BY <1>4 DEF IsNext
    <3>3. QED
      BY <1>4, <2>1, <2>2, <3>1, <3>2, Zenon DEF IsNext
  <2>5. \E m \in Relevant(lines)' : P(m)'
    BY <1>5, <2>4, Zenon
  <2>6. QED
    BY <2>5, Zenon DEF Context
<1>14. Function_of(s, N)'
  <2>1. /\ source'[N].kind = "build" /\ source'[N].struct = lines[s].value /\ type = lines[s].value
    BY <1>6, <1>8, <1>9, Zenon DEF Function_of
  <2>2. /\ Sized(lines, s) => Fields(source'[N].body) = Members(s, n)
        /\ Loops(source'[N].body) \/ TakenFrom(source'[N].body, lines[s].value)
        /\ Compiled(type, body) = Knows(blocks)
        /\ Loops(body) <=> loops
    BY <1>8, <2>1, Zenon DEF Stands
  <2>3. ASSUME Current(s)'
        PROVE  Written(s, N)'
    <3>1. lines[n].match # "end"
      BY <1>11, <2>3
    <3>2. CASE IsNext(lines[n])
      <4>1. /\ last' = "next" /\ Listed(lines, s) /\ Loops(body) /\ Has(body, AddArray)
            /\ Compiled(type, body) = [ok |-> TRUE, blocks |-> <<{type, "array", "e"}>>]
        BY <2>2, <3>1, <3>2, Zenon DEF Fits, Knows, Behind
      <4>2. Listed(lines, s)'
        BY <1>5, <4>1, Zenon
      <4>3. last' # "start"
        BY <4>1
      <4>4. QED
        BY <1>4, <1>8, <2>1, <4>1, <4>2, <4>3, Zenon DEF Written
    <3>3. CASE ~IsNext(lines[n]) /\ Listed(lines, s)
      <4>1. /\ last' \notin {"start", "next"} /\ Loops(body)
            /\ Compiled(type, body) = [ok |-> TRUE, blocks |-> <<{type, "array", "e"}, {"obj"}>>]
        BY <2>2, <3>1, <3>3, Zenon DEF Fits, Knows, InLoop
      <4>2. Listed(lines, s)' /\ last' # "start" /\ last' # "next"
        BY <1>5, <3>3, <4>1, Zenon
      <4>3. QED
        BY <1>4, <1>8, <2>1, <4>1, <4>2, Zenon DEF Written
    <3>4. CASE ~IsNext(lines[n]) /\ ~Listed(lines, s)
      <4>1. /\ last' \notin {"start", "next"} /\ ~Loops(body)
            /\ Compiled(type, body) = [ok |-> TRUE, blocks |-> <<{type, "obj"}, {}>>]
        <5>1. last' \notin {"start", "next"} /\ ~loops /\ blocks = InIf(type)
          BY <3>1, <3>4, Zenon DEF Fits
        <5>2. ~Loops(body)
          BY <2>2, <5>1, Zenon
        <5>3. Compiled(type, body) = [ok |-> TRUE, blocks |-> <<{type, "obj"}, {}>>]
          BY <2>2, <5>1, Zenon DEF Knows, InIf
        <5>4. QED
          BY <5>1, <5>2, <5>3, Zenon
      <4>2. ~Listed(lines, s)' /\ last' # "start" /\ last' # "next"
        BY <1>5, <3>4, <4>1, Zenon
      <4>3. QED
        BY <1>4, <1>8, <2>1, <4>1, <4>2, Zenon DEF Written
    <3>5. QED
      BY <3>2, <3>3, <3>4
  <2>4. ASSUME ~Current(s)'
        PROVE  Gives(source'[N].body)
    <3>1. lines[n].match = "end"
      BY <1>11, <2>4
    <3>2. Gives(body)
      BY <3>1 DEF Fits, IsNext
    <3>3. QED
      BY <1>8, <3>2, Zenon
  <2>5. Members(s, index)' = Members(s, n)
    BY <1>4, SameLines DEF Members, IsMember, Within, Relevant, Starts, IsNext
  <2>6. QED
    BY <1>4, <1>5, <1>6, <1>8, <2>1, <2>2, <2>3, <2>4, <2>5, Zenon DEF Function_of
<1>15. Structures'
  <2>1. SUFFICES ASSUME NEW t \in Starts(lines), t <= n
                 PROVE  \E f \in 1 .. N : Function_of(t, f)'
    BY <1>4, <1>5, <1>8, Zenon DEF Structures
  <2>2. t <= index
    BY <1>10, <2>1
  <2>3. CASE t = s
    <3>1. N \in 1 .. N
      BY <1>1, <1>6
    <3>2. QED
      BY <1>14, <2>3, <3>1, Zenon
  <2>4. CASE t # s
    <3>1. PICK f \in 1 .. N : Function_of(t, f)
      BY <2>2, Zenon DEF Inv, Structures
    <3>2. f # N /\ source'[f] = source[f] /\ ~Current(t)
      BY <1>6, <1>8, <2>4, <3>1, Zenon
    <3>3. ~Current(t)' /\ ~IsMember(t, n)
      BY <1>1, <1>4, <2>2, <3>2, CurrentStep
    <3>4. Members(t, n) = Members(t, index)
      <4>1. t \in Nat /\ n <= Len(lines)
        BY <1>2, <1>3
      <4>2. QED
        BY <1>2, <1>3, <2>2, <3>3, <4>1, MembersNext, Zenon
    <3>5. Members(t, index)' = Members(t, index)
      <4>1. Members(t, index)' = Members(t, n)
        BY <1>4, SameLines DEF Members, IsMember, Within, Relevant, Starts, IsNext
      <4>2. QED
        BY <3>4, <4>1, Zenon
    <3>6. Function_of(t, f)'
      <4>1. /\ source[f].kind = "build" /\ source[f].struct = lines[t].value
            /\ Sized(lines, t) => Fields(source[f].body) = Members(t, index)
            /\ Loops(source[f].body) \/ TakenFrom(source[f].body, lines[t].value)
            /\ Gives(source[f].body)
        BY <3>1, <3>2, Zenon DEF Function_of
      <4>2. QED
        BY <1>4, <1>5, <3>2, <3>3, <3>5, <4>1, Zenon DEF Function_of
    <3>7. QED
      BY <3>6, Zenon
  <2>5. QED
    BY <2>3, <2>4
<1>16. Functions'
  <2>1. SUFFICES ASSUME NEW f \in 1 .. N
                 PROVE  \/ Compiled(source'[f].struct, source'[f].body) = Done
                        \/ stage' = "lines" /\ f = Len(source') /\ \E t \in Starts(lines)' : Current(t)'
    BY <1>8, Zenon DEF Functions
  <2>2. CASE f # N
    <3>1. Compiled(source[f].struct, source[f].body) = Done
      BY <2>2, Zenon DEF Inv, Functions
    <3>2. QED
      BY <1>8, <2>2, <3>1, Zenon
  <2>3. CASE f = N /\ lines[n].match # "end"
    BY <1>4, <1>5, <1>6, <1>8, <1>9, <1>11, <2>3, Zenon
  <2>4. CASE f = N /\ lines[n].match = "end"
    <3>1. blocks = <<>>
      BY <2>4 DEF Fits, IsNext
    <3>2. Compiled(type, body) = Done
      BY <3>1, Zenon DEF Stands, Knows, Done
    <3>3. source'[f].struct = type /\ source'[f].body = body
      BY <1>6, <1>8, <2>4, Zenon DEF Function_of
    <3>4. QED
      BY <3>2, <3>3, Zenon
  <2>5. QED
    BY <2>2, <2>3, <2>4, Zenon
<1>17. QED
  BY <1>12, <1>13, <1>15, <1>16, Zenon DEF Inv

\* Where the function of the structure that is being read stands.
LEMMA StandsNow ==
  ASSUME Inv, Structured(lines), NEW s, Current(s)
  PROVE  /\ Sized(lines, s) => Fields(source[Len(source)].body) = Members(s, index)
         /\ type \in Names /\ type \notin {"obj", "array", "e"}
         /\ source[Len(source)].body \in Seq(Statements)
         /\ last = "start" => source[Len(source)].body = <<>>
         /\ last = "next" =>
              /\ Stands(source[Len(source)].body, type, Behind(type), Fields(source[Len(source)].body), TRUE)
              /\ Has(source[Len(source)].body, AddArray) /\ Listed(lines, s)
         /\ last \notin {"start", "next"} /\ Listed(lines, s) =>
              Stands(source[Len(source)].body, type, InLoop(type), Fields(source[Len(source)].body), TRUE)
         /\ last \notin {"start", "next"} /\ ~Listed(lines, s) =>
              Stands(source[Len(source)].body, type, InIf(type), Fields(source[Len(source)].body), FALSE)
<1> DEFINE N == Len(source)
           body == source[N].body
<1>1. Len(source) # 0 /\ Function_of(s, N)
  BY OneCurrent
<1>2. /\ lines \in Heads /\ type \in Names
      /\ source \in Seq([kind : {"tool", "build", "top"}, struct : Names, body : Seq(Statements)])
  BY Zenon DEF Inv, TypeOK
<1>3. body \in Seq(Statements)
  <2>1. N \in 1 .. N
    BY <1>1, <1>2
  <2>2. source[N] \in [kind : {"tool", "build", "top"}, struct : Names, body : Seq(Statements)]
    BY <1>2, <2>1, ElementOfSeq
  <2>3. QED
    BY <2>2
<1>4. /\ Sized(lines, s) => Fields(body) = Members(s, index)
      /\ type = lines[s].value /\ (Loops(body) \/ TakenFrom(body, type)) /\ Written(s, N)
  BY <1>1, Zenon DEF Function_of
<1>5. type \notin {"obj", "array", "e"}
  BY <1>4, Zenon DEF Structured, Current
<1>6. ASSUME last = "start"
      PROVE  body = <<>>
  BY <1>4, <1>6, Zenon DEF Written
<1>7. ASSUME last = "next"
      PROVE  /\ Stands(body, type, Behind(type), Fields(body), TRUE)
             /\ Has(body, AddArray) /\ Listed(lines, s)
  <2>1. last # "start"
    BY <1>7
  <2>2. /\ Listed(lines, s) /\ Loops(body) /\ Has(body, AddArray)
        /\ Compiled(type, body) = [ok |-> TRUE, blocks |-> <<{type, "array", "e"}>>]
    BY <1>4, <1>7, <2>1 DEF Written
  <2>3. QED
    BY <1>3, <1>4, <2>2, Zenon DEF Stands, Knows, Behind
<1>8. ASSUME last \notin {"start", "next"}, Listed(lines, s)
      PROVE  Stands(body, type, InLoop(type), Fields(body), TRUE)
  <2>1. /\ Loops(body)
        /\ Compiled(type, body) = [ok |-> TRUE, blocks |-> <<{type, "array", "e"}, {"obj"}>>]
    BY <1>4, <1>8 DEF Written
  <2>2. QED
    BY <1>3, <1>4, <2>1, Zenon DEF Stands, Knows, InLoop
<1>9. ASSUME last \notin {"start", "next"}, ~Listed(lines, s)
      PROVE  Stands(body, type, InIf(type), Fields(body), FALSE)
  <2>1. /\ ~Loops(body)
        /\ Compiled(type, body) = [ok |-> TRUE, blocks |-> <<{type, "obj"}, {}>>]
    BY <1>4, <1>9 DEF Written
  <2>2. QED
    BY <1>3, <1>4, <2>1, Zenon DEF Stands, Knows, InIf
<1>10. QED
  BY <1>2, <1>3, <1>4, <1>5, <1>6, <1>7, <1>8, <1>9, Zenon

\* Line n is in the structure that begins at s, and is one that may come here.
InStructure(s, n) ==
  /\ Current(s) /\ last # "end"
  /\ last = "next" => lines[n].match = "end"
  /\ last = "start" => /\ Opens(lines[n])
                       /\ Listed(lines, s) <=> lines[n].match = "value" /\ IsCounter(lines[n])
  /\ IsNext(lines[n]) => Listed(lines, s)
  /\ lines[n].match = "end" /\ Listed(lines, s) => last = "next"

\* A line that does not begin a structure is in one.
LEMMA ReadsMember ==
  ASSUME Inv, Structured(lines), index < Len(lines), NEW n, n = index + 1, n \in Relevant(lines),
         lines[n].match # "typedef"
  PROVE  \E s : InStructure(s, n)
<1>1. lines \in Heads /\ index \in 0 .. Len(lines)
  BY Zenon DEF Inv, TypeOK
<1>2. /\ Len(lines) \in Nat
      /\ Relevant(lines) \subseteq 1 .. Len(lines) /\ Starts(lines) \subseteq Relevant(lines)
  BY <1>1, HeadFacts
<1>3. index \in Nat /\ Relevant(lines) \subseteq Nat
  BY <1>1, <1>2
<1>4. ~ \A j \in Relevant(lines) : index < j
  <2>1. SUFFICES ASSUME \A j \in Relevant(lines) : index < j
                 PROVE  FALSE
    OBVIOUS
  <2>2. \A j \in Relevant(lines) : n <= j
    BY <1>3, <2>1
  <2>3. QED
    BY <1>2, <2>2, Zenon DEF Structured
<1>5. PICK m \in Relevant(lines) :
        /\ Latest(m)
        /\ last = "next" <=> IsNext(lines[m])
        /\ last = "end" <=> lines[m].match = "end"
        /\ last = "start" <=> lines[m].match = "typedef"
        /\ last = "start" => Current(m)
        /\ last # "end" => \E s \in Starts(lines) : Current(s)
  BY <1>4, Zenon DEF Inv, Context
<1>6. Follows(lines, m, n)
  BY <1>1, <1>5, ReadsNext
<1>7. /\ lines[n].match = "typedef" <=> lines[m].match = "end"
      /\ lines[m].match = "typedef" => Opens(lines[n])
      /\ IsNext(lines[m]) => lines[n].match = "end"
      /\ lines[n].match = "end" =>
           \A t \in Starts(lines) : Within(lines, t, m) /\ Listed(lines, t) => IsNext(lines[m])
  BY <1>2, <1>5, <1>6, Zenon DEF Structured
<1>8. PICK s \in Starts(lines) : Current(s)
  BY <1>5, <1>7, Zenon
<1>9. ASSUME last = "start"
      PROVE  Listed(lines, s) <=> lines[n].match = "value" /\ IsCounter(lines[n])
  <2>1. m = s
    <3>1. m \in Starts(lines) /\ Current(m)
      BY <1>5, <1>9, Zenon DEF Current
    <3>2. QED
      BY <1>8, <3>1, OneCurrent, Zenon
  <2>2. ASSUME NEW k \in Relevant(lines), Follows(lines, s, k)
        PROVE  k = n
    BY <1>3, <1>6, <2>1, <2>2 DEF Follows
  <2>3. QED
    BY <1>6, <2>1, <2>2, Zenon DEF Listed
<1>10. ASSUME IsNext(lines[n])
       PROVE  Listed(lines, s)
  <2>1. lines[n].match # "end"
    BY <1>10 DEF IsNext
  <2>2. s <= n /\ \A j \in Relevant(lines) : s <= j /\ j <= n => j <= index \/ j = n
    BY <1>2, <1>3, <1>8 DEF Current
  <2>3. Within(lines, s, n)
    BY <1>8, <2>1, <2>2, Zenon DEF Within, Current
  <2>4. QED
    BY <1>2, <1>10, <2>3, Zenon DEF Structured
<1>11. ASSUME lines[n].match = "end", Listed(lines, s)
       PROVE  last = "next"
  <2>1. s <= m /\ \A j \in Relevant(lines) : s <= j /\ j <= m => j <= index
    BY <1>2, <1>3, <1>5, <1>8 DEF Latest, Current
  <2>2. Within(lines, s, m)
    BY <1>8, <2>1, Zenon DEF Within, Current
  <2>3. QED
    BY <1>5, <1>7, <1>11, <2>2, Zenon
<1>12. QED
  BY <1>5, <1>7, <1>8, <1>9, <1>10, <1>11, Zenon DEF InStructure

\* What Emit does to the last function.
Emitted(N, stmts) == source' = [source EXCEPT ![N].body = source[N].body \o stmts]

\* A member that is added, opening the function if it is the first.
LEMMA MemberStep ==
  ASSUME Inv, Structured(lines), index < Len(lines), NEW n, n = index + 1, NEW N, N = Len(source),
         n \in Relevant(lines), NEW s, InStructure(s, n),
         lines[n].match \notin {"typedef", "end"}, ~IsNext(lines[n]),
         index' = n, UNCHANGED <<stage, lines, type, header>>,
         NEW method \in Callable(lines), NEW stmts,
         last # "start" => stmts = <<Add(lines[n].value, method)>>,
         last = "start" /\ Listed(lines, s) =>
           stmts = <<NewArray, NewElement, While, NewObj>> \o <<Add(lines[n].value, method)>>,
         last = "start" /\ ~Listed(lines, s) =>
           stmts = <<NewObj, If>> \o <<Add(lines[n].value, method)>>,
         Emitted(N, stmts), last' \notin {"end", "start", "next"}
  PROVE  Inv'
<1> DEFINE body == source[N].body
           add  == Add(lines[n].value, method)
           v    == lines[n].value
<1>1. Current(s) /\ last # "next"
  BY DEF InStructure
<1>2. /\ Sized(lines, s) => Fields(body) = Members(s, index)
      /\ type \in Names /\ type \notin {"obj", "array", "e"} /\ body \in Seq(Statements)
      /\ last = "start" => body = <<>>
      /\ last \notin {"start", "next"} /\ Listed(lines, s) =>
           Stands(body, type, InLoop(type), Fields(body), TRUE)
      /\ last \notin {"start", "next"} /\ ~Listed(lines, s) =>
           Stands(body, type, InIf(type), Fields(body), FALSE)
  BY <1>1, StandsNow, Zenon
<1>3. /\ lines \in Heads /\ index \in 0 .. Len(lines) /\ Len(lines) \in Nat
      /\ Relevant(lines) \subseteq 1 .. Len(lines) /\ Starts(lines) \subseteq Relevant(lines)
  <2>1. lines \in Heads /\ index \in 0 .. Len(lines)
    BY Zenon DEF Inv, TypeOK
  <2>2. QED
    BY <2>1, HeadFacts, Zenon
<1>4. v \in Names
  BY <1>3, HeadFacts, Zenon
<1>5. add \in Statements /\ {NewObj, NewArray, NewElement, If, While} \subseteq Statements
  BY <1>2, <1>4, StatementTypes
<1>6. Sized(lines, s) => Append(Fields(body), v) = Members(s, n)
  <2>1. s \in Starts(lines) /\ s <= index
    BY <1>1, Zenon DEF Current
  <2>2. IsMember(s, index + 1)
    BY <1>1, <1>3, <2>1, CurrentStep
  <2>3. s \in Nat /\ index \in Nat /\ index + 1 <= Len(lines)
    BY <1>3, <2>1
  <2>4. Members(s, index + 1) = Append(Members(s, index), lines[index + 1].value)
    BY <1>3, <2>1, <2>2, <2>3, MembersNext, Zenon
  <2>5. QED
    BY <1>2, <2>4, Zenon
<1>7. CASE Listed(lines, s)
  <2>1. Stands(body \o stmts, type, InLoop(type), Append(Fields(body), v), TRUE)
    <3>1. CASE last = "start"
      <4> DEFINE q == <<NewArray, NewElement, While, NewObj>>
      <4>1. body = <<>> /\ stmts = q \o <<add>>
        BY <1>2, <1>7, <3>1, Zenon
      <4>2. Stands(<<>> \o q, type, InLoop(type), <<>>, TRUE)
        BY <1>2, WriteLoop, Zenon
      <4>3. q \in Seq(Statements) /\ <<>> \in Seq(Statements)
        BY <1>5
      <4> HIDE DEF q
      <4>4. Stands(Append(<<>> \o q, add), type, InLoop(type), Append(<<>>, v), TRUE)
        BY <1>2, <1>4, <4>2, WriteMember, Zenon
      <4>5. <<>> \o (q \o <<add>>) = Append(<<>> \o q, add)
        <5> HIDE DEF add
        <5>1. QED
          BY <1>5, <4>3, EmitOpening
      <4>6. QED
        BY <4>1, <4>4, <4>5, FieldsEmpty, Zenon
    <3>2. CASE last # "start"
      <4>1. Stands(body, type, InLoop(type), Fields(body), TRUE) /\ stmts = <<add>>
        BY <1>1, <1>2, <1>7, <3>2
      <4>2. Stands(Append(body, add), type, InLoop(type), Append(Fields(body), v), TRUE)
        BY <1>2, <1>4, <4>1, WriteMember, Zenon
      <4>3. body \o <<add>> = Append(body, add)
        <5> HIDE DEF add, body
        <5>1. QED
          BY <1>2, <1>5, EmitOne, Zenon
      <4>4. QED
        BY <4>1, <4>2, <4>3, Zenon
    <3>3. QED
      BY <3>1, <3>2
  <2>2. Fits(s, n, body \o stmts, InLoop(type), TRUE, last')
    BY <1>7, Zenon DEF Fits
  <2>3. QED
    BY <1>1, <1>6, <2>1, <2>2, LineStep, Zenon DEF Emitted
<1>8. CASE ~Listed(lines, s)
  <2>1. Stands(body \o stmts, type, InIf(type), Append(Fields(body), v), FALSE)
    <3>1. CASE last = "start"
      <4> DEFINE q == <<NewObj, If>>
      <4>1. body = <<>> /\ stmts = q \o <<add>>
        BY <1>2, <1>8, <3>1, Zenon
      <4>2. Stands(<<>> \o q, type, InIf(type), <<>>, FALSE)
        BY <1>2, WriteIf, Zenon
      <4>3. q \in Seq(Statements) /\ <<>> \in Seq(Statements)
        BY <1>5
      <4> HIDE DEF q
      <4>4. Stands(Append(<<>> \o q, add), type, InIf(type), Append(<<>>, v), FALSE)
        BY <1>2, <1>4, <4>2, WriteMember, Zenon
      <4>5. <<>> \o (q \o <<add>>) = Append(<<>> \o q, add)
        <5> HIDE DEF add
        <5>1. QED
          BY <1>5, <4>3, EmitOpening
      <4>6. QED
        BY <4>1, <4>4, <4>5, FieldsEmpty, Zenon
    <3>2. CASE last # "start"
      <4>1. Stands(body, type, InIf(type), Fields(body), FALSE) /\ stmts = <<add>>
        BY <1>1, <1>2, <1>8, <3>2
      <4>2. Stands(Append(body, add), type, InIf(type), Append(Fields(body), v), FALSE)
        BY <1>2, <1>4, <4>1, WriteMember, Zenon
      <4>3. body \o <<add>> = Append(body, add)
        <5> HIDE DEF add, body
        <5>1. QED
          BY <1>2, <1>5, EmitOne, Zenon
      <4>4. QED
        BY <4>1, <4>2, <4>3, Zenon
    <3>3. QED
      BY <3>1, <3>2
  <2>2. Fits(s, n, body \o stmts, InIf(type), FALSE, last')
    BY <1>8, Zenon DEF Fits
  <2>3. QED
    BY <1>1, <1>6, <2>1, <2>2, LineStep, Zenon DEF Emitted
<1>9. QED
  BY <1>7, <1>8

\* An array that nothing is written for.
LEMMA SilentStep ==
  ASSUME Inv, Structured(lines), index < Len(lines), NEW n, n = index + 1, NEW N, N = Len(source),
         n \in Relevant(lines), NEW s, InStructure(s, n), Silent(lines[n]),
         index' = n, UNCHANGED <<stage, lines, type, header>>,
         Emitted(N, <<>>), last' \notin {"end", "start", "next"}
  PROVE  Inv'
<1> DEFINE body == source[N].body
<1>1. /\ Current(s) /\ last \notin {"start", "next"}
      /\ lines[n].match \notin {"end", "typedef"} /\ ~IsNext(lines[n])
  BY DEF InStructure, Silent, Opens, IsNext
<1>2. /\ body \in Seq(Statements)
      /\ Listed(lines, s) => Stands(body, type, InLoop(type), Fields(body), TRUE)
      /\ ~Listed(lines, s) => Stands(body, type, InIf(type), Fields(body), FALSE)
  BY <1>1, StandsNow, Zenon
<1>3. /\ lines \in Heads /\ index \in 0 .. Len(lines) /\ s \in Starts(lines) /\ s <= index
  BY <1>1, Zenon DEF Inv, TypeOK, Current
<1>4. IsMember(s, n)
  BY <1>1, <1>3, CurrentStep
<1>5. ~Sized(lines, s)
  BY <1>4, Zenon DEF Sized, IsMember
<1>6. source' = [source EXCEPT ![N].body = body]
  <2>1. body \o <<>> = body
    BY <1>2, ConcatEmptySeq
  <2>2. QED
    BY <2>1, Zenon DEF Emitted
<1>7. CASE Listed(lines, s)
  <2>1. Fits(s, n, body, InLoop(type), TRUE, last')
    BY <1>1, <1>7, Zenon DEF Fits
  <2>2. QED
    BY <1>1, <1>2, <1>5, <1>6, <1>7, <2>1, LineStep, Zenon
<1>8. CASE ~Listed(lines, s)
  <2>1. Fits(s, n, body, InIf(type), FALSE, last')
    BY <1>1, <1>8, Zenon DEF Fits
  <2>2. QED
    BY <1>1, <1>2, <1>5, <1>6, <1>8, <2>1, LineStep, Zenon
<1>9. QED
  BY <1>7, <1>8

\* The pointer to the next element.
LEMMA NextStep ==
  ASSUME Inv, Structured(lines), index < Len(lines), NEW n, n = index + 1, NEW N, N = Len(source),
         n \in Relevant(lines), NEW s, InStructure(s, n), IsNext(lines[n]),
         index' = n, UNCHANGED <<stage, lines, type, header>>,
         Emitted(N, <<AddArray, Advance, Close>>), last' = "next"
  PROVE  Inv'
<1> DEFINE body == source[N].body
           more == body \o <<AddArray, Advance, Close>>
<1>1. Current(s) /\ last \notin {"start", "next"} /\ Listed(lines, s)
      /\ lines[n].match \notin {"end", "typedef"}
  BY DEF InStructure, IsNext, Opens
<1>2. /\ type \in Names /\ (Sized(lines, s) => Fields(body) = Members(s, index))
      /\ Stands(body, type, InLoop(type), Fields(body), TRUE)
  BY <1>1, StandsNow, Zenon
<1>3. /\ lines \in Heads /\ index \in 0 .. Len(lines) /\ Len(lines) \in Nat
      /\ Relevant(lines) \subseteq 1 .. Len(lines) /\ Starts(lines) \subseteq Relevant(lines)
  <2>1. lines \in Heads /\ index \in 0 .. Len(lines)
    BY Zenon DEF Inv, TypeOK
  <2>2. QED
    BY <2>1, HeadFacts, Zenon
<1>4. Sized(lines, s) => Fields(body) = Members(s, n)
  <2>1. s \in Starts(lines) /\ s <= index
    BY <1>1, Zenon DEF Current
  <2>2. ~IsMember(s, index + 1)
    BY <1>1, <1>3, <2>1, CurrentStep
  <2>3. s \in Nat /\ index \in Nat /\ index + 1 <= Len(lines)
    BY <1>3, <2>1
  <2>4. Members(s, index + 1) = Members(s, index)
    BY <1>3, <2>1, <2>2, <2>3, MembersNext, Zenon
  <2>5. QED
    BY <1>2, <2>4, Zenon
<1>5. Stands(more, type, Behind(type), Fields(body), TRUE) /\ Has(more, AddArray)
  BY <1>2, WriteNext, Zenon
<1>6. Fits(s, n, more, Behind(type), TRUE, last')
  BY <1>1, <1>5, Zenon DEF Fits
<1>7. QED
  BY <1>1, <1>4, <1>5, <1>6, LineStep, Zenon DEF Emitted

\* The end of a structure.
LEMMA EndStep ==
  ASSUME Inv, Structured(lines), index < Len(lines), NEW n, n = index + 1, NEW N, N = Len(source),
         n \in Relevant(lines), NEW s, InStructure(s, n), lines[n].match = "end",
         index' = n, UNCHANGED <<stage, lines, type, header>>,
         Emitted(N, IF last = "next" THEN <<Give("array"), Close>> ELSE <<Close, Give("obj"), Close>>),
         last' = "end"
  PROVE  Inv'
<1> DEFINE body == source[N].body
<1>1. Current(s) /\ last # "start" /\ lines[n].match # "typedef" /\ (Listed(lines, s) => last = "next")
  BY DEF InStructure, Opens
<1>2. /\ type \in Names /\ (Sized(lines, s) => Fields(body) = Members(s, index))
      /\ last = "next" => Stands(body, type, Behind(type), Fields(body), TRUE) /\ Has(body, AddArray)
      /\ last # "next" => Stands(body, type, InIf(type), Fields(body), FALSE)
  BY <1>1, StandsNow
<1>3. /\ lines \in Heads /\ index \in 0 .. Len(lines) /\ Len(lines) \in Nat
      /\ Relevant(lines) \subseteq 1 .. Len(lines) /\ Starts(lines) \subseteq Relevant(lines)
  <2>1. lines \in Heads /\ index \in 0 .. Len(lines)
    BY Zenon DEF Inv, TypeOK
  <2>2. QED
    BY <2>1, HeadFacts, Zenon
<1>4. Sized(lines, s) => Fields(body) = Members(s, n)
  <2>1. s \in Starts(lines) /\ s <= index
    BY <1>1, Zenon DEF Current
  <2>2. ~IsMember(s, index + 1)
    BY <1>1, <1>3, <2>1, CurrentStep
  <2>3. s \in Nat /\ index \in Nat /\ index + 1 <= Len(lines)
    BY <1>3, <2>1
  <2>4. Members(s, index + 1) = Members(s, index)
    BY <1>3, <2>1, <2>2, <2>3, MembersNext, Zenon
  <2>5. QED
    BY <1>2, <2>4, Zenon
<1>5. CASE last = "next"
  <2> DEFINE more == body \o <<Give("array"), Close>>
  <2>1. Stands(more, type, <<>>, Fields(body), TRUE) /\ Gives(more)
    BY <1>2, <1>5, WriteListEnd, Zenon
  <2>2. Fits(s, n, more, <<>>, TRUE, last')
    BY <2>1, Zenon DEF Fits
  <2>3. source' = [source EXCEPT ![N].body = more]
    BY <1>5, Zenon DEF Emitted
  <2> HIDE DEF more
  <2>4. QED
    BY <1>1, <1>4, <2>1, <2>2, <2>3, LineStep, Zenon
<1>6. CASE last # "next"
  <2> DEFINE more == body \o <<Close, Give("obj"), Close>>
  <2>1. Stands(more, type, <<>>, Fields(body), FALSE) /\ Gives(more)
    BY <1>2, <1>6, WritePlainEnd, Zenon
  <2>2. Fits(s, n, more, <<>>, FALSE, last')
    BY <2>1, Zenon DEF Fits
  <2>3. source' = [source EXCEPT ![N].body = more]
    BY <1>6, Zenon DEF Emitted
  <2> HIDE DEF more
  <2>4. QED
    BY <1>1, <1>4, <2>1, <2>2, <2>3, LineStep, Zenon
<1>7. QED
  BY <1>5, <1>6

----------------------------------------------------------------------------
(***************************************************************************)
(* The actions.                                                            *)
(***************************************************************************)

\* What a line that matches means.
LEMMA Reads ==
  ASSUME NEW kind, kind # "none", Inv, Matches(kind)
  PROVE  /\ stage = "lines" /\ index < Len(lines) /\ index' = index + 1
         /\ index + 1 \in Relevant(lines) /\ lines[index + 1].match = kind
<1>1. stage = "lines" /\ index < Len(lines) /\ index' = index + 1
      /\ ~lines[index + 1].comment /\ lines[index + 1].match = kind
  BY Zenon DEF Matches, Parsing, line
<1>2. index + 1 \in 1 .. Len(lines)
  <2>1. lines \in Heads /\ index \in 0 .. Len(lines)
    BY Zenon DEF Inv, TypeOK
  <2>2. Len(lines) \in Nat
    BY <2>1, HeadFacts, Zenon
  <2>3. QED
    BY <1>1, <2>1, <2>2
<1>3. QED
  BY <1>1, <1>2, Zenon DEF Relevant

\* After the end of a structure there is none that is being read.
LEMMA NoneCurrent ==
  ASSUME Inv, NEW m, Latest(m), lines[m].match = "end"
  PROVE  \A t : ~Current(t)
<1>1. lines \in Heads /\ index \in 0 .. Len(lines)
  BY Zenon DEF Inv, TypeOK
<1>2. Relevant(lines) \subseteq 1 .. Len(lines) /\ Starts(lines) \subseteq Relevant(lines)
  BY <1>1, HeadFacts, Zenon
<1>3. SUFFICES ASSUME NEW t, Current(t)
               PROVE  FALSE
  OBVIOUS
<1>4. t \in Relevant(lines) /\ t <= index
  BY <1>2, <1>3, Zenon DEF Current
<1>5. m \in Relevant(lines) /\ m <= index /\ (t <= m \/ index < t)
  BY <1>4, Zenon DEF Latest
<1>6. t <= m
  BY <1>1, <1>2, <1>4, <1>5
<1>7. QED
  BY <1>3, <1>5, <1>6, Zenon DEF Current

\* A line that is skipped.
LEMMA SkipInv ==
  ASSUME Inv, Skip
  PROVE  Inv'
<1>1. /\ lines \in Heads /\ index \in 0 .. Len(lines) /\ type \in Names
      /\ source \in Seq([kind : {"tool", "build", "top"}, struct : Names, body : Seq(Statements)])
      /\ header = {lines[k].value : k \in {t \in Starts(lines) : t <= index}}
  BY Zenon DEF Inv, TypeOK
<1>2. /\ Len(lines) \in Nat /\ Relevant(lines) \subseteq 1 .. Len(lines)
      /\ Starts(lines) \subseteq Relevant(lines)
  BY <1>1, HeadFacts
<1>3. /\ stage = "lines" /\ stage' = stage /\ lines' = lines /\ type' = type /\ last' = last
      /\ source' = source /\ header' = header /\ index < Len(lines) /\ index' = index + 1
      /\ lines[index + 1].comment \/ lines[index + 1].match = "none"
  BY Zenon DEF Skip, Parsing, line
<1>4. index + 1 \notin Relevant(lines)
  BY <1>3, Zenon DEF Relevant
<1>5. /\ Names' = Names /\ Statements' = Statements
      /\ Relevant(lines)' = Relevant(lines) /\ Starts(lines)' = Starts(lines)
      /\ \A k, t : Members(k, t)' = Members(k, t) /\ Listed(lines, k)' = Listed(lines, k)
      /\ \A k : Sized(lines, k)' = Sized(lines, k)
  BY <1>3, SameLines
<1>6. \A j \in Relevant(lines) : (j <= index <=> j <= index') /\ (index < j <=> index' < j)
  BY <1>1, <1>2, <1>3, <1>4
<1>7. \A t \in Starts(lines) : Current(t)' <=> Current(t)
  BY <1>2, <1>3, <1>5, <1>6, Zenon DEF Current
<1>8. TypeOK'
  <2>1. index' \in 0 .. Len(lines')
    BY <1>1, <1>2, <1>3
  <2>2. {t \in Starts(lines) : t <= index} = {t \in Starts(lines) : t <= index'}
    BY <1>2, <1>6
  <2>3. header' = {lines'[k].value : k \in {t \in Starts(lines)' : t <= index'}}
    BY <1>1, <1>3, <1>5, <2>2, Zenon
  <2>4. source' \in Seq([kind : {"tool", "build", "top"}, struct : Names', body : Seq(Statements')])
    BY <1>1, <1>3, <1>5, Zenon
  <2>5. stage' = "lines" /\ stage' # "done" /\ lines' \in Heads /\ type' \in Names'
    BY <1>1, <1>3, <1>5
  <2>6. QED
    BY <2>1, <2>3, <2>4, <2>5 DEF TypeOK
<1>9. Context'
  <2>1. CASE \A j \in Relevant(lines) : index < j
    BY <1>5, <1>6, <2>1, Zenon DEF Context
  <2>2. CASE ~ \A j \in Relevant(lines) : index < j
    <3>1. PICK m \in Relevant(lines) :
            /\ Latest(m)
            /\ last = "next" <=> IsNext(lines[m])
            /\ last = "end" <=> lines[m].match = "end"
            /\ last = "start" <=> lines[m].match = "typedef"
            /\ last = "start" => Current(m)
            /\ last # "end" => \E t \in Starts(lines) : Current(t)
      BY <2>2, Zenon DEF Inv, Context
    <3>2. Latest(m)'
      BY <1>3, <1>5, <1>6, <3>1, Zenon DEF Latest
    <3>3. last = "start" => Current(m)'
      BY <1>7, <3>1, Zenon DEF Current
    <3>4. last # "end" => \E t \in Starts(lines)' : Current(t)'
      BY <1>5, <1>7, <3>1, Zenon
    <3>5. IsNext(lines'[m]) <=> IsNext(lines[m])
      BY <1>3, Zenon
    <3> DEFINE P(k) == /\ Latest(k)
                       /\ last = "next" <=> IsNext(lines[k])
                       /\ last = "end" <=> lines[k].match = "end"
                       /\ last = "start" <=> lines[k].match = "typedef"
                       /\ last = "start" => Current(k)
                       /\ last # "end" => \E t \in Starts(lines) : Current(t)
    <3>6. P(m)'
      BY <1>3, <3>1, <3>2, <3>3, <3>4, <3>5, Zenon
    <3>7. \E k \in Relevant(lines)' : P(k)'
      BY <1>5, <3>6, Zenon
    <3>8. QED
      BY <3>7, Zenon DEF Context
  <2>3. QED
    BY <2>1, <2>2
<1>10. Structures'
  <2>1. SUFFICES ASSUME NEW t \in Starts(lines), t <= index'
                 PROVE  \E f \in 1 .. Len(source) : Function_of(t, f)'
    BY <1>3, <1>5, Zenon DEF Structures
  <2>2. t <= index
    BY <1>2, <1>6, <2>1, Zenon
  <2>3. PICK f \in 1 .. Len(source) : Function_of(t, f)
    BY <2>2, Zenon DEF Inv, Structures
  <2>4. ~IsMember(t, index + 1)
    BY <1>4, Zenon DEF IsMember, Within
  <2>5. Members(t, index + 1) = Members(t, index)
    <3>1. t \in Nat /\ index \in Nat /\ index + 1 <= Len(lines)
      BY <1>1, <1>2, <1>3
    <3>2. QED
      BY <1>2, <2>2, <2>4, <3>1, MembersNext, Zenon
  <2>6. Members(t, index)' = Members(t, index)
    <3>1. Members(t, index)' = Members(t, index + 1)
      BY <1>3, SameLines DEF Members, IsMember, Within, Relevant, Starts, IsNext
    <3>2. QED
      BY <2>5, <3>1, Zenon
  <2>7. Written(t, f)' <=> Written(t, f)
    BY <1>3, <1>5 DEF Written
  <2>8. Function_of(t, f)'
    BY <1>3, <1>5, <1>7, <2>3, <2>6, <2>7, Zenon DEF Function_of
  <2>9. QED
    BY <2>8, Zenon
<1>11. Functions'
  <2>1. (\E t \in Starts(lines)' : Current(t)') <=> \E t \in Starts(lines) : Current(t)
    BY <1>5, <1>7, Zenon
  <2>2. QED
    BY <1>3, <2>1 DEF Inv, Functions
<1>12. QED
  BY <1>8, <1>9, <1>10, <1>11, Zenon DEF Inv

\* A line that adds a member.
LEMMA AddInv ==
  ASSUME Inv, Structured(lines), NEW kind \in Kinds \ {"none", "typedef", "end"}, Member(kind), ~IsNext(line),
         NEW method \in Callable(lines), NEW stmts, Emit(stmts),
         last # "start" => stmts = <<Add(line.value, method)>>,
         last = "start" /\ Opens(line) /\ kind = "value" /\ IsCounter(line) =>
           stmts = <<NewArray, NewElement, While, NewObj>> \o <<Add(line.value, method)>>,
         last = "start" /\ Opens(line) /\ ~(kind = "value" /\ IsCounter(line)) =>
           stmts = <<NewObj, If>> \o <<Add(line.value, method)>>,
         last' \notin {"end", "start", "next"}
  PROVE  Inv'
<1>1. kind # "none" /\ kind \notin {"typedef", "end"}
  OBVIOUS
<1>2. PICK n : n = index + 1
  OBVIOUS
<1>3. PICK N : N = Len(source)
  OBVIOUS
<1>4. Matches(kind) /\ UNCHANGED <<stage, lines, type, header>>
  BY DEF Member
<1>5. /\ stage = "lines" /\ index < Len(lines) /\ index' = n
      /\ n \in Relevant(lines) /\ lines[n].match = kind
  BY <1>1, <1>2, <1>4, Reads, Zenon
<1>6. line = lines[n]
  BY <1>2, Zenon DEF line
<1>7. PICK s : InStructure(s, n)
  BY <1>1, <1>2, <1>5, ReadsMember
<1>8. Emitted(N, stmts)
  BY <1>3 DEF Emit, Emitted
<1>9. last = "start" => Opens(line) /\ (Listed(lines, s) <=> kind = "value" /\ IsCounter(line))
  BY <1>5, <1>6, <1>7, Zenon DEF InStructure
<1>10. /\ last # "start" => stmts = <<Add(lines[n].value, method)>>
       /\ last = "start" /\ Listed(lines, s) =>
            stmts = <<NewArray, NewElement, While, NewObj>> \o <<Add(lines[n].value, method)>>
       /\ last = "start" /\ ~Listed(lines, s) =>
            stmts = <<NewObj, If>> \o <<Add(lines[n].value, method)>>
  BY <1>6, <1>9, Zenon
<1>11. lines[n].match \notin {"typedef", "end"} /\ ~IsNext(lines[n])
  BY <1>1, <1>5, <1>6, Zenon
<1>12. QED
  BY <1>2, <1>3, <1>4, <1>5, <1>7, <1>8, <1>10, <1>11, MemberStep, Zenon

\* What is called for a type.
LEMMA MethodDefined ==
  ASSUME Inv, NEW kind \in {"value", "pointer"}, Matches(kind)
  PROVE  getNewMethod(line.key) \in Callable(lines)
<1>1. kind # "none"
  OBVIOUS
<1>2. index + 1 \in Relevant(lines) /\ lines[index + 1].match \in {"value", "pointer"}
  BY <1>1, Reads, Zenon
<1>3. QED
  BY <1>2, Zenon DEF Callable, line

\* An address whose length is another member: it never comes first.
LEMMA MacAddrInv ==
  ASSUME Inv, Structured(lines), MacAddr
  PROVE  Inv'
<1> DEFINE stmts == <<Add(line.value, "buildArray")>>
<1>1. Member("macLen") /\ Emit(stmts) /\ last' = "attribute"
  BY Zenon DEF MacAddr
<1>2. line.match = "macLen"
  BY <1>1, Zenon DEF Member, Matches
<1>3. ~IsNext(line) /\ ~Opens(line)
  BY <1>2 DEF IsNext, Opens
<1>4. "buildArray" \in Callable(lines) /\ "macLen" \in Kinds \ {"none", "typedef", "end"}
      /\ last' \notin {"end", "start", "next"}
  BY <1>1 DEF Callable, Defined, Kinds
<1> HIDE DEF stmts
<1>5. stmts = <<Add(line.value, "buildArray")>>
  BY DEF stmts
<1>6. QED
  BY <1>1, <1>3, <1>4, <1>5, AddInv, Zenon

\* Neither does a key.
LEMMA KeyInv ==
  ASSUME Inv, Structured(lines), Key
  PROVE  Inv'
<1> DEFINE stmts == <<Add(line.value, "buildArray")>>
<1>1. Member("kLen") /\ Emit(stmts) /\ last' = "attribute"
  BY Zenon DEF Key
<1>2. line.match = "kLen"
  BY <1>1, Zenon DEF Member, Matches
<1>3. ~IsNext(line) /\ ~Opens(line)
  BY <1>2 DEF IsNext, Opens
<1>4. "buildArray" \in Callable(lines) /\ "kLen" \in Kinds \ {"none", "typedef", "end"}
      /\ last' \notin {"end", "start", "next"}
  BY <1>1 DEF Callable, Defined, Kinds
<1> HIDE DEF stmts
<1>5. stmts = <<Add(line.value, "buildArray")>>
  BY DEF stmts
<1>6. QED
  BY <1>1, <1>3, <1>4, <1>5, AddInv, Zenon

\* Nor any other array, and some are not written.
LEMMA ArrayInv ==
  ASSUME Inv, Structured(lines), Array
  PROVE  Inv'
<1> DEFINE stmts ==
      CASE line.len = 0 /\ line.value \in {"rates", "ie", "key"} ->
                 <<Add(line.value, "buildArray")>>
        [] line.len = 0 /\ line.value \notin {"rates", "ie", "key"} -> <<>>
        [] line.len # 0 /\ line.value = "sn" -> <<Add(line.value, "json_object_new_string")>>
        [] line.len # 0 /\ line.value # "sn" -> <<Add(line.value, "buildArray")>>
<1>1. Member("array") /\ Emit(stmts) /\ last' = "attribute"
  BY Zenon DEF Array
<1>2. line.match = "array"
  BY <1>1, Zenon DEF Member, Matches
<1>3. ~IsNext(line) /\ ~Opens(line)
  BY <1>2 DEF IsNext, Opens
<1>4. /\ "buildArray" \in Callable(lines) /\ "json_object_new_string" \in Callable(lines)
      /\ "array" \in Kinds \ {"none", "typedef", "end"} /\ last' \notin {"end", "start", "next"}
  BY <1>1 DEF Callable, Defined, Kinds
<1>5. ~Silent(line) => \E method \in Callable(lines) : stmts = <<Add(line.value, method)>>
  <2>1. CASE line.len = 0 /\ line.value \in {"rates", "ie", "key"}
    BY <1>4, <2>1
  <2>2. CASE line.len # 0 /\ line.value = "sn"
    BY <1>4, <2>2
  <2>3. CASE line.len # 0 /\ line.value # "sn"
    BY <1>4, <2>3
  <2>4. QED
    BY <1>2, <2>1, <2>2, <2>3, Zenon DEF Silent
<1>6. Silent(line) => stmts = <<>>
  BY DEF Silent
<1> HIDE DEF stmts
<1>7. CASE ~Silent(line)
  BY <1>1, <1>3, <1>4, <1>5, <1>7, AddInv, Zenon
<1>8. CASE Silent(line)
  <2>1. PICK n : n = index + 1
    OBVIOUS
  <2>2. PICK N : N = Len(source)
    OBVIOUS
  <2>3. Matches("array") /\ "array" # "none" /\ UNCHANGED <<stage, lines, type, header>>
    BY <1>1 DEF Member
  <2>4. /\ stage = "lines" /\ index < Len(lines) /\ index' = n
        /\ n \in Relevant(lines) /\ lines[n].match = "array"
    BY <2>1, <2>3, Reads, Zenon
  <2>5. lines[n].match # "typedef" /\ Silent(lines[n])
    BY <1>8, <2>1, <2>4 DEF line
  <2>6. PICK s : InStructure(s, n)
    BY <2>1, <2>4, <2>5, ReadsMember
  <2>7. Emitted(N, <<>>)
    BY <1>1, <1>6, <1>8, <2>2 DEF Emit, Emitted
  <2>8. QED
    BY <1>4, <2>1, <2>2, <2>3, <2>4, <2>5, <2>6, <2>7, SilentStep, Zenon
<1>9. QED
  BY <1>7, <1>8

\* An address of six bytes opens the function when it comes first.
LEMMA EthAddrInv ==
  ASSUME Inv, Structured(lines), EthAddr
  PROVE  Inv'
<1> DEFINE add   == <<Add(line.value, "buildArray")>>
           stmts == Opening \o add
<1>1. Member("ETH_ALEN") /\ Emit(stmts) /\ last' = "attribute"
  BY Zenon DEF EthAddr
<1>2. line.match = "ETH_ALEN"
  BY <1>1, Zenon DEF Member, Matches
<1>3. ~IsNext(line)
  BY <1>2 DEF IsNext
<1>4. "buildArray" \in Callable(lines) /\ "ETH_ALEN" \in Kinds \ {"none", "typedef", "end"}
      /\ last' \notin {"end", "start", "next"} /\ "ETH_ALEN" # "value"
  BY <1>1 DEF Callable, Defined, Kinds
<1>5. /\ last # "start" => stmts = add
      /\ last = "start" => stmts = <<NewObj, If>> \o add
  <2>1. <<>> \o add = add
    OBVIOUS
  <2> HIDE DEF add
  <2>2. QED
    BY <2>1, Zenon DEF Opening
<1> HIDE DEF stmts
<1>6. QED
  BY <1>1, <1>3, <1>4, <1>5, AddInv, Zenon

\* So does a bit field.
LEMMA BitsetInv ==
  ASSUME Inv, Structured(lines), Bitset
  PROVE  Inv'
<1> DEFINE add   == <<Add(line.value, "json_object_new_int")>>
           stmts == Opening \o add
<1>1. Member("bitset") /\ Emit(stmts) /\ last' = "bitset"
  BY Zenon DEF Bitset
<1>2. line.match = "bitset"
  BY <1>1, Zenon DEF Member, Matches
<1>3. ~IsNext(line)
  BY <1>2 DEF IsNext
<1>4. "json_object_new_int" \in Callable(lines) /\ "bitset" \in Kinds \ {"none", "typedef", "end"}
      /\ last' \notin {"end", "start", "next"} /\ "bitset" # "value"
  BY <1>1 DEF Callable, Defined, Kinds
<1>5. /\ last # "start" => stmts = add
      /\ last = "start" => stmts = <<NewObj, If>> \o add
  <2>1. <<>> \o add = add
    OBVIOUS
  <2> HIDE DEF add
  <2>2. QED
    BY <2>1, Zenon DEF Opening
<1> HIDE DEF stmts
<1>6. QED
  BY <1>1, <1>3, <1>4, <1>5, AddInv, Zenon

\* A value too, and the counter of a list opens the loop.
LEMMA ValueInv ==
  ASSUME Inv, Structured(lines), Value
  PROVE  Inv'
<1> DEFINE add   == <<Add(line.value, getNewMethod(line.key))>>
           stmts == (IF Counter THEN <<NewArray, NewElement, While, NewObj>> ELSE Opening) \o add
<1>1. Member("value") /\ Emit(stmts) /\ last' = "attribute"
  BY Zenon DEF Value
<1>2. line.match = "value" /\ Matches("value")
  BY <1>1, Zenon DEF Member, Matches
<1>3. ~IsNext(line)
  BY <1>2 DEF IsNext
<1>4. getNewMethod(line.key) \in Callable(lines)
  BY <1>2, MethodDefined
<1>a. "value" \in Kinds \ {"none", "typedef", "end"} /\ last' \notin {"end", "start", "next"}
  BY <1>1 DEF Kinds
<1>5. /\ last # "start" => stmts = add
      /\ last = "start" /\ IsCounter(line) =>
           stmts = <<NewArray, NewElement, While, NewObj>> \o add
      /\ last = "start" /\ ~IsCounter(line) => stmts = <<NewObj, If>> \o add
  <2>1. <<>> \o add = add
    OBVIOUS
  <2> HIDE DEF add
  <2>2. Counter <=> last = "start" /\ IsCounter(line)
    BY Zenon DEF Counter, IsCounter
  <2>3. QED
    BY <2>1, <2>2, Zenon DEF Opening
<1> HIDE DEF stmts
<1>6. QED
  BY <1>1, <1>3, <1>4, <1>a, <1>5, AddInv, Zenon

\* A pointer too, but next, which ends the loop.
LEMMA PointerInv ==
  ASSUME Inv, Structured(lines), Pointer
  PROVE  Inv'
<1> DEFINE add   == <<Add(line.value, getNewMethod(line.key))>>
           stmts ==
             CASE last # "start" /\ line.value = "next" -> <<AddArray, Advance, Close>>
               [] Counter -> <<NewArray, NewElement, While, Add(line.value, getNewMethod(line.key))>>
               [] OTHER -> Opening \o add
<1>1. Member("pointer") /\ Emit(stmts) /\ last' = IF line.value = "next" THEN "next" ELSE "pointer"
  BY Zenon DEF Pointer
<1>2. line.match = "pointer" /\ Matches("pointer") /\ "pointer" # "none"
  BY <1>1, Zenon DEF Member, Matches
<1>3. IsNext(line) <=> line.value = "next"
  BY <1>2, Zenon DEF IsNext
<1>4. getNewMethod(line.key) \in Callable(lines)
  BY <1>2, MethodDefined
<1>5. "pointer" \in Kinds \ {"none", "typedef", "end"} /\ "pointer" # "value"
  BY DEF Kinds
<1>6. CASE ~IsNext(line)
  <2>1. last' \notin {"end", "start", "next"}
    BY <1>1, <1>3, <1>6
  <2>2. /\ last # "start" => stmts = add
        /\ last = "start" /\ Opens(line) => stmts = <<NewObj, If>> \o add
    <3>1. <<>> \o add = add
      OBVIOUS
    <3>2. Counter => last = "start" /\ ~Opens(line)
      BY <1>2, Zenon DEF Counter, Opens, IsCounter
    <3>3. ~(last # "start" /\ line.value = "next")
      BY <1>3, <1>6
    <3>4. ~Counter => stmts = Opening \o add
      <4> HIDE DEF add
      <4>1. QED
        BY <3>3
    <3> HIDE DEF add, stmts
    <3>5. QED
      BY <3>1, <3>2, <3>4, Zenon DEF Opening
  <2> HIDE DEF stmts
  <2>3. QED
    BY <1>1, <1>4, <1>5, <1>6, <2>1, <2>2, AddInv, Zenon
<1>7. CASE IsNext(line)
  <2>1. PICK n : n = index + 1
    OBVIOUS
  <2>2. PICK N : N = Len(source)
    OBVIOUS
  <2>3. /\ stage = "lines" /\ index < Len(lines) /\ index' = n
        /\ n \in Relevant(lines) /\ lines[n].match = "pointer"
    BY <1>2, <2>1, Reads, Zenon
  <2>4. line = lines[n]
    BY <2>1, Zenon DEF line
  <2>5. lines[n].match # "typedef"
    BY <2>3
  <2>6. PICK s : InStructure(s, n)
    BY <2>1, <2>3, <2>5, ReadsMember
  <2>7. last # "start"
    BY <1>7, <2>4, <2>6, Zenon DEF InStructure, Opens
  <2>8. stmts = <<AddArray, Advance, Close>> /\ last' = "next"
    <3>1. line.value = "next" /\ last # "start" /\ ~Counter
      BY <1>3, <1>7, <2>7, Zenon DEF Counter
    <3>2. last' = "next"
      BY <1>1, <3>1, Zenon
    <3>3. stmts = <<AddArray, Advance, Close>>
      BY <3>1, Zenon
    <3>4. QED
      BY <3>2, <3>3
  <2>9. Emitted(N, <<AddArray, Advance, Close>>)
    <3>1. Emit(<<AddArray, Advance, Close>>)
      <4> HIDE DEF stmts
      <4>1. QED
        BY <1>1, <2>8, Zenon
    <3>2. QED
      BY <2>2, <3>1 DEF Emit, Emitted
  <2>10. UNCHANGED <<stage, lines, type, header>> /\ IsNext(lines[n])
    BY <1>1, <1>7, <2>4, Zenon DEF Member
  <2>11. QED
    BY <2>1, <2>2, <2>3, <2>6, <2>8, <2>9, <2>10, NextStep, Zenon
<1>8. QED
  BY <1>6, <1>7

\* The end of a structure.
LEMMA EndlineInv ==
  ASSUME Inv, Structured(lines), Endline
  PROVE  Inv'
<1> DEFINE stmts == IF last = "next" THEN <<Give("array"), Close>> ELSE <<Close, Give("obj"), Close>>
<1>1. Member("end") /\ Emit(stmts) /\ last' = "end"
  BY Zenon DEF Endline
<1>2. Matches("end") /\ "end" # "none" /\ UNCHANGED <<stage, lines, type, header>>
  BY <1>1 DEF Member
<1>3. PICK n : n = index + 1
  OBVIOUS
<1>4. PICK N : N = Len(source)
  OBVIOUS
<1>5. /\ stage = "lines" /\ index < Len(lines) /\ index' = n
      /\ n \in Relevant(lines) /\ lines[n].match = "end"
  BY <1>2, <1>3, Reads, Zenon
<1>6. lines[n].match # "typedef"
  BY <1>5
<1>7. PICK s : InStructure(s, n)
  BY <1>3, <1>5, <1>6, ReadsMember
<1>8. Emitted(N, stmts)
  BY <1>1, <1>4 DEF Emit, Emitted
<1>9. QED
  BY <1>1, <1>2, <1>3, <1>4, <1>5, <1>7, <1>8, EndStep, Zenon

\* A structure begins: the one before it has ended.
LEMMA TypedefInv ==
  ASSUME Inv, Structured(lines), Typedef
  PROVE  Inv'
<1> DEFINE F == [kind : {"tool", "build", "top"}, struct : Names, body : Seq(Statements)]
<1>1. /\ lines \in Heads /\ index \in 0 .. Len(lines) /\ type \in Names /\ source \in Seq(F)
      /\ header = {lines[k].value : k \in {t \in Starts(lines) : t <= index}}
  BY Zenon DEF Inv, TypeOK
<1>2. /\ Len(lines) \in Nat /\ Relevant(lines) \subseteq 1 .. Len(lines)
      /\ Starts(lines) \subseteq Relevant(lines)
  BY <1>1, HeadFacts
<1>3. PICK n : n = index + 1
  OBVIOUS
<1>4. PICK v : v = lines[n].value
  OBVIOUS
<1>5. PICK N : N = Len(source)
  OBVIOUS
<1>6. PICK x : x = Function("build", v, <<>>)
  OBVIOUS
<1>7. /\ Matches("typedef") /\ "typedef" # "none" /\ type' = v /\ last' = "start"
      /\ source' = Append(source, x) /\ header' = header \cup {v}
      /\ stage' = stage /\ lines' = lines
  BY <1>3, <1>4, <1>6 DEF Typedef, line
<1>8. /\ stage = "lines" /\ index < Len(lines) /\ index' = n
      /\ n \in Relevant(lines) /\ lines[n].match = "typedef"
  BY <1>3, <1>7, Reads, Zenon
<1>9. n \in Starts(lines) /\ n \in 1 .. Len(lines) /\ n \in Nat /\ index \in Nat /\ ~(n <= index)
  BY <1>1, <1>2, <1>3, <1>8 DEF Starts
<1>10. v \in Names
  BY <1>1, <1>4, <1>9, HeadFacts, Zenon
<1>11. /\ Names' = Names /\ Statements' = Statements
       /\ Relevant(lines)' = Relevant(lines) /\ Starts(lines)' = Starts(lines)
       /\ \A k, t : Members(k, t)' = Members(k, t) /\ Listed(lines, k)' = Listed(lines, k)
       /\ \A k : Sized(lines, k)' = Sized(lines, k)
  BY <1>7, SameLines
<1>12. x \in F /\ x.kind = "build" /\ x.struct = v /\ x.body = <<>>
  BY <1>6, <1>10 DEF Function
<1>13. /\ source' \in Seq(F) /\ Len(source') = N + 1 /\ source'[N + 1] = x /\ N \in Nat
       /\ \A f \in 1 .. N : source'[f] = source[f]
  <2> HIDE DEF F
  <2>1. QED
    BY <1>1, <1>5, <1>7, <1>12, AppendProperties
<1>14. /\ \A f \in 1 .. N : Compiled(source[f].struct, source[f].body) = Done
       /\ \A t \in Starts(lines) : ~Current(t)
  <2>1. CASE \A j \in Relevant(lines) : index < j
    <3>1. \A t \in Starts(lines) : ~(t <= index)
      BY <1>2, <1>9, <2>1
    <3>2. \A t : ~Current(t)
      BY <3>1, Zenon DEF Current
    <3>3. QED
      BY <1>5, <3>2, Zenon DEF Inv, Functions
  <2>2. CASE ~ \A j \in Relevant(lines) : index < j
    <3>1. PICK m \in Relevant(lines) : Latest(m)
      BY <2>2, Zenon DEF Inv, Context
    <3>2. Follows(lines, m, n)
      BY <1>1, <1>3, <1>8, <3>1, ReadsNext
    <3>3. lines[m].match = "end"
      BY <1>2, <1>8, <3>1, <3>2, Zenon DEF Structured
    <3>4. \A t : ~Current(t)
      BY <3>1, <3>3, NoneCurrent, Zenon
    <3>5. QED
      BY <1>5, <3>4, Zenon DEF Inv, Functions
  <2>3. QED
    BY <2>1, <2>2
<1>15. Current(n)'
  <2>1. n <= n /\ \A j \in Relevant(lines) : n <= j /\ j <= n => j = n
    BY <1>2, <1>9
  <2>2. lines[n].match # "end"
    BY <1>8
  <2>3. QED
    BY <1>7, <1>8, <1>9, <1>11, <2>1, <2>2, Zenon DEF Current
<1>16. TypeOK'
  <2>1. index' \in 0 .. Len(lines')
    BY <1>7, <1>8, <1>9, <1>2
  <2>2. header' = {lines[k].value : k \in {t \in Starts(lines) : t <= n}}
    <3>1. \A t \in Starts(lines) : t <= n <=> t <= index \/ t = n
      BY <1>2, <1>3, <1>9
    <3>2. {t \in Starts(lines) : t <= n} = {t \in Starts(lines) : t <= index} \cup {n}
      BY <1>9, <3>1
    <3> DEFINE A == {t \in Starts(lines) : t <= index}
    <3>3. header = {lines[k].value : k \in A}
      BY <1>1, Zenon
    <3> HIDE DEF A
    <3>4. header \cup {v} = {lines[k].value : k \in A \cup {n}}
      BY <1>4, <3>3
    <3>5. QED
      BY <1>7, <3>2, <3>4, Zenon DEF A
  <2>3. header' = {lines'[k].value : k \in {t \in Starts(lines)' : t <= index'}}
    BY <1>7, <1>8, <1>11, <2>2, Zenon
  <2>4. source' \in Seq([kind : {"tool", "build", "top"}, struct : Names', body : Seq(Statements')])
    BY <1>11, <1>13, Zenon
  <2>5. stage' = "lines" /\ stage' # "done" /\ lines' \in Heads /\ type' \in Names'
    BY <1>1, <1>7, <1>8, <1>10, <1>11
  <2>6. QED
    BY <2>1, <2>3, <2>4, <2>5 DEF TypeOK
<1>17. Context'
  <2>1. Latest(n)'
    <3>1. n <= n /\ \A j \in Relevant(lines) : j <= n \/ n < j
      BY <1>2, <1>9
    <3>2. QED
      BY <1>7, <1>8, <1>11, <3>1, Zenon DEF Latest
  <2>2. ~IsNext(lines[n]) /\ lines[n].match # "end" /\ last' # "next" /\ last' # "end"
    BY <1>7, <1>8 DEF IsNext
  <2> DEFINE P(m) == /\ Latest(m)
                     /\ last = "next" <=> IsNext(lines[m])
                     /\ last = "end" <=> lines[m].match = "end"
                     /\ last = "start" <=> lines[m].match = "typedef"
                     /\ last = "start" => Current(m)
                     /\ last # "end" => \E t \in Starts(lines) : Current(t)
  <2>3. P(n)'
    <3>1. \E t \in Starts(lines)' : Current(t)'
      BY <1>9, <1>11, <1>15, Zenon
    <3>2. QED
      BY <1>7, <1>8, <1>15, <2>1, <2>2, <3>1, Zenon
  <2>4. \E m \in Relevant(lines)' : P(m)'
    BY <1>8, <1>11, <2>3, Zenon
  <2>5. QED
    BY <2>4, Zenon DEF Context
<1>18. Structures'
  <2>1. SUFFICES ASSUME NEW t \in Starts(lines), t <= n
                 PROVE  \E f \in 1 .. N + 1 : Function_of(t, f)'
    BY <1>7, <1>8, <1>11, <1>13, Zenon DEF Structures
  <2>2. CASE t = n
    <3>1. N + 1 \in 1 .. N + 1
      BY <1>13
    <3>2. Members(n, index)' = <<>>
      <4>1. Members(n, index)' = Members(n, n)
        BY <1>7, <1>8, SameLines DEF Members, IsMember, Within, Relevant, Starts, IsNext
      <4>2. QED
        BY <1>9, <4>1, MembersFirst, Zenon
    <3>3. TakenFrom(<<>>, v)
      BY DEF TakenFrom
    <3>4. Written(n, N + 1)'
      <4>1. source'[N + 1].body = <<>>
        BY <1>12, <1>13, Zenon
      <4>2. QED
        BY <1>7, <4>1 DEF Written
    <3>5. Function_of(n, N + 1)'
      BY <1>4, <1>7, <1>8, <1>11, <1>12, <1>13, <1>15, <3>2, <3>3, <3>4, FieldsEmpty, Zenon DEF Function_of
    <3>6. QED
      BY <2>2, <3>1, <3>5, Zenon
  <2>3. CASE t # n
    <3>1. t <= index /\ t \in Nat
      BY <1>2, <1>3, <1>9, <2>1, <2>3
    <3>2. PICK f \in 1 .. N : Function_of(t, f)
      BY <1>5, <3>1, Zenon DEF Inv, Structures
    <3>3. f \in 1 .. N + 1 /\ source'[f] = source[f] /\ ~Current(t)
      BY <1>13, <1>14
    <3>4. ~Current(t)' /\ ~IsMember(t, n)
      BY <1>1, <1>3, <1>7, <1>8, <3>1, <3>3, CurrentStep
    <3>5. Members(t, index)' = Members(t, index)
      <4>1. Members(t, index)' = Members(t, n)
        BY <1>7, <1>8, SameLines DEF Members, IsMember, Within, Relevant, Starts, IsNext
      <4>2. index + 1 <= Len(lines) /\ ~IsMember(t, index + 1)
        BY <1>2, <1>3, <1>8, <1>9, <3>4
      <4>3. Members(t, index + 1) = Members(t, index)
        BY <1>2, <1>9, <3>1, <4>2, MembersNext, Zenon
      <4>4. QED
        BY <1>3, <4>1, <4>3, Zenon
    <3>6. Function_of(t, f)'
      <4>1. /\ source[f].kind = "build" /\ source[f].struct = lines[t].value
            /\ Sized(lines, t) => Fields(source[f].body) = Members(t, index)
            /\ Loops(source[f].body) \/ TakenFrom(source[f].body, lines[t].value)
            /\ Gives(source[f].body)
        BY <3>2, <3>3, Zenon DEF Function_of
      <4>2. QED
        BY <1>7, <1>11, <3>3, <3>4, <3>5, <4>1, Zenon DEF Function_of
    <3>7. QED
      BY <3>3, <3>6, Zenon
  <2>4. QED
    BY <2>2, <2>3
<1>19. Functions'
  <2>1. SUFFICES ASSUME NEW f \in 1 .. N + 1
                 PROVE  \/ Compiled(source'[f].struct, source'[f].body) = Done
                        \/ stage' = "lines" /\ f = Len(source') /\ \E t \in Starts(lines)' : Current(t)'
    BY <1>13, Zenon DEF Functions
  <2>2. CASE f = N + 1
    BY <1>7, <1>8, <1>9, <1>11, <1>13, <1>15, <2>2, Zenon
  <2>3. CASE f # N + 1
    <3>1. f \in 1 .. N
      BY <1>13, <2>3
    <3>2. QED
      BY <1>13, <1>14, <3>1, Zenon
  <2>4. QED
    BY <2>2, <2>3
<1>20. QED
  BY <1>16, <1>17, <1>18, <1>19, Zenon DEF Inv

\* The context before the first structure.
Unset(t) == t = ""

\* The function that addToolInterface writes is C.
LEMMA ToolCompiles == Compiled(Tool.struct, Tool.body) = Done
<1> DEFINE x1 == NewArray
           x2 == Statement("open", {"macAddr"}, {}, "", "", {})
           x3 == Statement("add", {"array", "macAddr"}, {}, "", "", {"json_object_new_int"})
           x4 == Close
           x5 == Give("array")
           v  == "macAddr"
           K1 == Knows(<<{v}>>)
           K2 == Knows(<<{v, "array"}>>)
           K3 == Knows(<<{v, "array"}, {}>>)
<1>1. Tool.struct = v /\ Tool.body = <<x1, x2, x3, x4, x5, x4>>
  BY DEF Tool, Function
<1>2. Compile(K1, x1) = K2
  <2>1. x1.op = "declare" /\ x1.uses \subseteq {v} /\ x1.declares \cap {v} = {}
        /\ {v} \cup x1.declares = {v, "array"}
    BY StatementParts
  <2> HIDE DEF x1
  <2>2. Compile(K1, x1) = Knows(<<{v} \cup x1.declares>>)
    BY <2>1, CompileOne, Zenon
  <2>3. QED
    BY <2>1, <2>2, Zenon
<1>3. Compile(K2, x2) = K3
  <2>1. x2.op = "open" /\ x2.uses \subseteq {v, "array"} /\ x2.declares = {}
    BY DEF Statement
  <2> HIDE DEF x2
  <2>2. QED
    BY <2>1, CompileOne, Zenon
<1>4. Compile(K3, x3) = K3
  <2> DEFINE none == {}
  <2>1. x3.op \in {"set", "add", "advance"} /\ x3.uses \subseteq {v, "array"} \cup none
        /\ x3.declares = {}
    BY DEF Statement
  <2> HIDE DEF x3, none
  <2>2. Compile(Knows(<<{v, "array"}, none>>), x3) = Knows(<<{v, "array"}, none>>)
    BY <2>1, CompileTwo, Zenon
  <2>3. QED
    BY <2>2, Zenon DEF none
<1>5. Compile(K3, x4) = K2
  <2> DEFINE none == {}
  <2>1. x4.op = "close" /\ x4.uses \subseteq {v, "array"} \cup none /\ x4.declares = {}
    BY StatementParts
  <2> HIDE DEF x4, none
  <2>2. Compile(Knows(<<{v, "array"}, none>>), x4) = K2
    BY <2>1, CompileTwo, Zenon
  <2>3. QED
    BY <2>2, Zenon DEF none
<1>6. Compile(K2, x5) = K2
  <2>1. x5.op \in {"set", "return"} /\ x5.uses \subseteq {v, "array"} /\ x5.declares = {}
    BY StatementParts
  <2> HIDE DEF x5
  <2>2. QED
    BY <2>1, CompileOne, Zenon
<1>7. Compile(K2, x4) = Done
  <2>1. x4.op = "close" /\ x4.uses \subseteq {v, "array"} /\ x4.declares = {}
    BY StatementParts
  <2> HIDE DEF x4
  <2>2. Compile(K2, x4) = Knows(<<>>)
    BY <2>1, CompileOne, Zenon
  <2>3. QED
    BY <2>2, Zenon DEF Knows, Done
<1>8. Compiled(v, <<>>) = K1
  BY CompiledEmpty, Zenon DEF Knows
<1> HIDE DEF x1, x2, x3, x4, x5, v, K1, K2, K3
<1> DEFINE T  == {x1, x2, x3, x4, x5}
           b0 == <<>>
           b1 == Append(b0, x1)
           b2 == Append(b1, x2)
           b3 == Append(b2, x3)
           b4 == Append(b3, x4)
           b5 == Append(b4, x5)
           b6 == Append(b5, x4)
<1>9. /\ x1 \in T /\ x2 \in T /\ x3 \in T /\ x4 \in T /\ x5 \in T /\ b0 \in Seq(T)
      /\ <<x1, x2, x3, x4, x5, x4>> = b6
  OBVIOUS
<1> HIDE DEF T
<1>10. b1 \in Seq(T) /\ b2 \in Seq(T) /\ b3 \in Seq(T) /\ b4 \in Seq(T) /\ b5 \in Seq(T)
  BY <1>9
<1> HIDE DEF b0, b1, b2, b3, b4, b5, b6
<1>11. Compiled(v, b1) = K2
  BY <1>2, <1>8, <1>9, CompiledAppend, Zenon DEF b0, b1
<1>12. Compiled(v, b2) = K3
  BY <1>3, <1>9, <1>10, <1>11, CompiledAppend, Zenon DEF b2
<1>13. Compiled(v, b3) = K3
  BY <1>4, <1>9, <1>10, <1>12, CompiledAppend, Zenon DEF b3
<1>14. Compiled(v, b4) = K2
  BY <1>5, <1>9, <1>10, <1>13, CompiledAppend, Zenon DEF b4
<1>15. Compiled(v, b5) = K2
  BY <1>6, <1>9, <1>10, <1>14, CompiledAppend, Zenon DEF b5
<1>16. Compiled(v, b6) = Done
  BY <1>7, <1>9, <1>10, <1>15, CompiledAppend, Zenon DEF b6
<1>17. QED
  BY <1>1, <1>9, <1>16, Zenon

\* Its parts are names and statements, whichever names there are.
LEMMA ToolTypes ==
  ASSUME NEW names, NEW calls, {"", "array", "macAddr"} \subseteq names, "json_object_new_int" \in calls
  PROVE  Tool \in
           [kind : {"tool", "build", "top"}, struct : names,
            body : Seq([op : {"declare", "open", "add", "advance", "close", "return", "set"},
                        uses : SUBSET names, declares : SUBSET names, field : names, from : names,
                        calls : SUBSET calls])]
<1> DEFINE S  == [op : {"declare", "open", "add", "advance", "close", "return", "set"},
                  uses : SUBSET names, declares : SUBSET names, field : names, from : names,
                  calls : SUBSET calls]
           x1 == NewArray
           x2 == Statement("open", {"macAddr"}, {}, "", "", {})
           x3 == Statement("add", {"array", "macAddr"}, {}, "", "", {"json_object_new_int"})
           x4 == Close
           x5 == Give("array")
<1>1. x1 \in S
  BY DEF Statement, NewArray
<1>2. x2 \in S
  BY DEF Statement
<1>3. x3 \in S
  BY DEF Statement
<1>4. x4 \in S
  BY DEF Statement, Close
<1>5. x5 \in S
  BY DEF Statement, Give
<1>6. Tool = [kind |-> "tool", struct |-> "macAddr", body |-> <<x1, x2, x3, x4, x5, x4>>]
  BY DEF Tool, Function
<1> HIDE DEF S, x1, x2, x3, x4, x5
<1>7. <<x1, x2, x3, x4, x5, x4>> \in Seq(S)
  BY <1>1, <1>2, <1>3, <1>4, <1>5, SixStatements, Zenon
<1>8. Tool \in [kind : {"tool", "build", "top"}, struct : names, body : Seq(S)]
  BY <1>6, <1>7
<1>9. QED
  BY <1>8, Zenon DEF S

\* The callback begins with the function for arrays.
LEMMA BeginInv ==
  ASSUME Unset(type), Begin
  PROVE  Inv'
<1>1. /\ stage' = "lines" /\ lines' \in Heads /\ index' = 0 /\ source' = <<Tool>> /\ header' = {}
      /\ type' = type
  BY DEF Begin
<1>h. PICK h \in Heads : h = lines'
  BY <1>1
<1>2. Len(h) \in Nat /\ Relevant(h) \subseteq 1 .. Len(h) /\ Starts(h) \subseteq Relevant(h)
  <2>1. h \in Seq(Line)
    BY GeneratorAssumption
  <2>2. Len(h) \in Nat
    BY <2>1
  <2>3. QED
    BY <2>2, Zenon DEF Relevant, Starts
<1>a. Relevant(lines)' = Relevant(h) /\ Starts(lines)' = Starts(h) /\ Len(lines') = Len(h)
  BY <1>h DEF Relevant, Starts
<1>b. \A j \in Relevant(h) : 0 < j /\ ~(j <= 0)
  BY <1>2
<1>3. \A j \in Relevant(lines)' : index' < j /\ ~(j <= index')
  BY <1>1, <1>a, <1>b, Zenon
<1>4. TypeOK'
  <2>1. {t \in Starts(lines)' : t <= index'} = {}
    BY <1>2, <1>a, <1>3
  <2>2. header' = {lines'[k].value : k \in {t \in Starts(lines)' : t <= index'}}
    BY <1>1, <2>1
  <2>3. type' \in Names'
    BY <1>1, Zenon DEF Names, Unset
  <2>4. index' \in 0 .. Len(lines')
    BY <1>1, <1>2, <1>a
  <2>5. source' \in Seq([kind : {"tool", "build", "top"}, struct : Names', body : Seq(Statements')])
    <3>a. {"", "array", "macAddr"} \subseteq Names' /\ "json_object_new_int" \in Callable(lines)'
      BY DEF Names, Callable, Defined
    <3>1. Tool \in [kind : {"tool", "build", "top"}, struct : Names', body : Seq(Statements')]
      BY <3>a, ToolTypes, Zenon DEF Statements
    <3>2. QED
      BY <1>1, <3>1
  <2>6. stage' \in {"lines", "done"} /\ stage' # "done"
    BY <1>1
  <2>7. QED
    BY <1>1, <2>2, <2>3, <2>4, <2>5, <2>6, Zenon DEF TypeOK
<1>5. Context'
  BY <1>3, Zenon DEF Context
<1>6. Structures'
  BY <1>2, <1>a, <1>3, Zenon DEF Structures
<1>7. Functions'
  <2>1. \A f \in 1 .. Len(source') : source'[f] = Tool
    BY <1>1
  <2>2. QED
    BY <2>1, ToolCompiles, Zenon DEF Functions
<1>8. QED
  BY <1>4, <1>5, <1>6, <1>7, Zenon DEF Inv

\* The function that addTopInterface writes for a structure.
Top(intf) == Function("top", intf, <<Statement("set", {intf}, {}, "key", intf, {intf}), Close>>)

\* It compiles.
LEMMA TopCompiles ==
  ASSUME NEW v \in Range(TopInterface)
  PROVE  /\ Top(v) \in [kind : {"tool", "build", "top"}, struct : Names, body : Seq(Statements)]
         /\ Compiled(Top(v).struct, Top(v).body) = Done
<1> DEFINE x  == Statement("set", {v}, {}, "key", v, {v})
           b1 == Append(<<>>, x)
           b2 == Append(b1, Close)
<1>1. x \in Statements /\ Close \in Statements /\ <<>> \in Seq(Statements)
  <2>1. x \in Statements
    <3>1. "key" \in Names /\ "" \in Names /\ v \in Names /\ v \in Callable(lines)
      BY DEF Names, Callable
    <3>2. QED
      BY <3>1 DEF Statements, Statement
  <2>2. Close \in Statements
    BY DEF Statements, Statement, Close, Names
  <2>3. QED
    BY <2>1, <2>2, EmptySeq
<1>2. x.op = "set" /\ x.uses = {v} /\ x.declares = {} /\ x.from = v
  BY DEF Statement
<1>3. <<x, Close>> \in Seq(Statements) /\ <<x, Close>> = <<>> \o <<x, Close>>
  <2> HIDE DEF x
  <2>1. <<x, Close>> \in Seq(Statements)
    BY <1>1
  <2>2. QED
    BY <2>1, ConcatEmptySeq
<1>4. <<>> \o <<x, Close>> = b2
  <2> HIDE DEF x
  <2>1. QED
    BY <1>1, EmitTwo
<1>5. Top(v) = [kind |-> "top", struct |-> v, body |-> <<x, Close>>]
  BY DEF Top, Function
<1> HIDE DEF x
<1>6. Stands(<<>>, v, <<{v}>>, <<>>, FALSE)
  BY StandsEmpty
<1>7. Stands(b1, v, <<{v}>>, Append(<<>>, x.field), FALSE)
  <2>1. x.uses \subseteq {v} /\ x.op \in {"set", "return"}
    BY <1>2
  <2>2. Compile(Knows(<<{v}>>), x) = Knows(<<{v}>>)
    BY <1>2, <2>1, CompileOne, Zenon
  <2>3. QED
    BY <1>1, <1>2, <1>6, <2>2, StandsSet, Zenon
<1>8. Stands(b2, v, <<>>, Append(<<>>, x.field), FALSE)
  <2> DEFINE c == Close
  <2>1. c.uses \subseteq {v} /\ c.declares = {} /\ c.op = "close"
    BY StatementParts
  <2>2. c \in Statements /\ c.op # "set" /\ ~(c.op = "open" /\ c.uses = {"e"})
    BY <1>1, <2>1
  <2> HIDE DEF c, b1
  <2>3. Compile(Knows(<<{v}>>), c) = Knows(<<>>)
    BY <2>1, CompileOne, Zenon
  <2>4. Stands(Append(b1, c), v, <<>>, Append(<<>>, x.field), FALSE)
    BY <1>7, <2>2, <2>3, StandsAppend, Zenon
  <2>5. QED
    BY <2>4, Zenon DEF c
<1>9. Compiled(v, <<x, Close>>) = Done
  BY <1>3, <1>4, <1>8, Zenon DEF Stands, Knows, Done
<1>10. QED
  <2> DEFINE b == <<x, Close>>
  <2> HIDE DEF b
  <2>1. b \in Seq(Statements) /\ Top(v) = [kind |-> "top", struct |-> v, body |-> b]
        /\ Compiled(v, b) = Done
    BY <1>3, <1>5, <1>9, Zenon DEF b
  <2>2. v \in Names
    BY DEF Names
  <2>3. QED
    BY <2>1, <2>2

\* The end of the file: every structure has ended.
LEMMA addTopInterfaceInv ==
  ASSUME Inv, Structured(lines), addTopInterface
  PROVE  Inv'
<1> DEFINE F    == [kind : {"tool", "build", "top"}, struct : Names, body : Seq(Statements)]
           tops == [n \in DOMAIN TopInterface |-> Top(TopInterface[n])]
<1>1. /\ lines \in Heads /\ index \in 0 .. Len(lines) /\ type \in Names /\ source \in Seq(F)
      /\ header = {lines[k].value : k \in {t \in Starts(lines) : t <= index}}
  BY Zenon DEF Inv, TypeOK
<1>2. /\ Len(lines) \in Nat /\ Relevant(lines) \subseteq 1 .. Len(lines)
      /\ Starts(lines) \subseteq Relevant(lines)
  BY <1>1, HeadFacts
<1>3. /\ stage = "lines" /\ index = Len(lines) /\ stage' = "done" /\ source' = source \o tops
      /\ lines' = lines /\ index' = index /\ type' = type /\ last' = last /\ header' = header
  BY DEF addTopInterface, Top
<1>4. PICK N : N = Len(source)
  OBVIOUS
<1>5. PICK M : M = Len(TopInterface)
  OBVIOUS
<1>6. M \in Nat /\ DOMAIN TopInterface = 1 .. M /\ \A n \in 1 .. M : TopInterface[n] \in Range(TopInterface)
  BY <1>5, GeneratorAssumption DEF Range
<1>7. /\ Names' = Names /\ Statements' = Statements
      /\ Relevant(lines)' = Relevant(lines) /\ Starts(lines)' = Starts(lines)
      /\ \A k, t : Members(k, t)' = Members(k, t) /\ Listed(lines, k)' = Listed(lines, k)
      /\ \A k : Sized(lines, k)' = Sized(lines, k)
  BY <1>3, SameLines
<1>8. \A n \in 1 .. M : /\ tops[n] = Top(TopInterface[n]) /\ tops[n] \in F
                        /\ Compiled(tops[n].struct, tops[n].body) = Done
  <2>1. ASSUME NEW n \in 1 .. M
        PROVE  tops[n] = Top(TopInterface[n]) /\ tops[n] \in F
               /\ Compiled(tops[n].struct, tops[n].body) = Done
    <3>1. TopInterface[n] \in Range(TopInterface)
      BY <1>6
    <3>2. tops[n] = Top(TopInterface[n])
      BY <1>6, Zenon
    <3>3. QED
      BY <3>1, <3>2, TopCompiles, Zenon
  <2>2. QED
    BY <2>1, Zenon
<1>9. tops \in Seq(F) /\ Len(tops) = M
  <2>1. tops \in [1 .. M -> F]
    <3>1. tops = [n \in 1 .. M |-> tops[n]]
      BY <1>6, Zenon
    <3> HIDE DEF tops, F
    <3>2. QED
      BY <1>8, <3>1, Zenon
  <2> HIDE DEF tops, F
  <2>2. QED
    BY <1>6, <2>1
<1>10. /\ source' \in Seq(F) /\ Len(source') = N + M /\ N \in Nat
       /\ \A f \in 1 .. N : source'[f] = source[f]
       /\ \A f \in 1 .. N + M : f \notin 1 .. N => f - N \in 1 .. M /\ source'[f] = tops[f - N]
  <2> HIDE DEF tops, F
  <2>1. source \o tops \in Seq(F) /\ Len(source \o tops) = Len(source) + Len(tops)
        /\ \A i \in 1 .. Len(source) + Len(tops) : (source \o tops)[i] =
             IF i <= Len(source) THEN source[i] ELSE tops[i - Len(source)]
    BY <1>1, <1>9, ConcatProperties
  <2>2. N \in Nat
    BY <1>1, <1>4
  <2>3. QED
    BY <1>3, <1>4, <1>6, <1>9, <2>1, <2>2
<1>11. /\ \A f \in 1 .. N : Compiled(source[f].struct, source[f].body) = Done
       /\ \A t \in Starts(lines) : ~Current(t)
  <2>1. CASE \A j \in Relevant(lines) : index < j
    <3>1. \A t \in Starts(lines) : ~(t <= index)
      BY <1>1, <1>2, <2>1
    <3>2. \A t : ~Current(t)
      BY <3>1, Zenon DEF Current
    <3>3. QED
      BY <1>4, <3>2, Zenon DEF Inv, Functions
  <2>2. CASE ~ \A j \in Relevant(lines) : index < j
    <3>1. PICK m \in Relevant(lines) : Latest(m)
      BY <2>2, Zenon DEF Inv, Context
    <3>2. \A j \in Relevant(lines) : j <= m
      BY <1>2, <1>3, <3>1 DEF Latest
    <3>3. lines[m].match = "end"
      BY <1>2, <3>2, Zenon DEF Structured
    <3>4. \A t : ~Current(t)
      BY <3>1, <3>3, NoneCurrent, Zenon
    <3>5. QED
      BY <1>4, <3>4, Zenon DEF Inv, Functions
  <2>3. QED
    BY <2>1, <2>2
<1>12. \A t : Current(t)' <=> Current(t)
  BY <1>3, <1>7, Zenon DEF Current
<1>13. TypeOK'
  <2>1. header' = {lines'[k].value : k \in {t \in Starts(lines)' : t <= index'}}
    BY <1>1, <1>3, <1>7, Zenon
  <2>2. source' \in Seq([kind : {"tool", "build", "top"}, struct : Names', body : Seq(Statements')])
    BY <1>7, <1>10, Zenon
  <2>3. stage' \in {"lines", "done"} /\ lines' \in Heads /\ type' \in Names'
        /\ index' \in 0 .. Len(lines') /\ index' = Len(lines')
    BY <1>1, <1>3, <1>7
  <2>4. QED
    BY <2>1, <2>2, <2>3, Zenon DEF TypeOK
<1>14. Context'
  <2>1. CASE \A j \in Relevant(lines) : index < j
    BY <1>3, <1>7, <2>1, Zenon DEF Context
  <2>2. CASE ~ \A j \in Relevant(lines) : index < j
    <3> DEFINE P(k) == /\ Latest(k)
                       /\ last = "next" <=> IsNext(lines[k])
                       /\ last = "end" <=> lines[k].match = "end"
                       /\ last = "start" <=> lines[k].match = "typedef"
                       /\ last = "start" => Current(k)
                       /\ last # "end" => \E t \in Starts(lines) : Current(t)
    <3>1. PICK m \in Relevant(lines) : P(m)
      BY <2>2, Zenon DEF Inv, Context
    <3>2. Latest(m)'
      BY <1>3, <1>7, <3>1, Zenon DEF Latest
    <3>3. P(m)'
      BY <1>3, <1>7, <1>12, <3>1, <3>2, Zenon
    <3>4. \E k \in Relevant(lines)' : P(k)'
      BY <1>7, <3>3, Zenon
    <3>5. QED
      BY <3>4, Zenon DEF Context
  <2>3. QED
    BY <2>1, <2>2
<1>15. Structures'
  <2>1. SUFFICES ASSUME NEW t \in Starts(lines), t <= index
                 PROVE  \E f \in 1 .. N + M : Function_of(t, f)'
    BY <1>3, <1>7, <1>10, Zenon DEF Structures
  <2>2. PICK f \in 1 .. N : Function_of(t, f)
    BY <1>4, <2>1, Zenon DEF Inv, Structures
  <2>3. f \in 1 .. N + M /\ source'[f] = source[f] /\ ~Current(t)
    BY <1>6, <1>10, <1>11
  <2>4. Members(t, index)' = Members(t, index)
    BY <1>3, SameLines DEF Members, IsMember, Within, Relevant, Starts, IsNext
  <2>5. /\ source[f].kind = "build" /\ source[f].struct = lines[t].value
        /\ Sized(lines, t) => Fields(source[f].body) = Members(t, index)
        /\ Loops(source[f].body) \/ TakenFrom(source[f].body, lines[t].value)
        /\ Gives(source[f].body)
    BY <2>2, <2>3, Zenon DEF Function_of
  <2>6. Function_of(t, f)'
    BY <1>3, <1>7, <1>12, <2>3, <2>4, <2>5, Zenon DEF Function_of
  <2>7. QED
    BY <2>3, <2>6, Zenon
<1>16. Functions'
  <2>1. SUFFICES ASSUME NEW f \in 1 .. N + M
                 PROVE  Compiled(source'[f].struct, source'[f].body) = Done
    BY <1>10, Zenon DEF Functions
  <2> HIDE DEF tops, F
  <2>2. QED
    BY <1>8, <1>10, <1>11, Zenon
<1>17. QED
  BY <1>13, <1>14, <1>15, <1>16, Zenon DEF Inv

----------------------------------------------------------------------------
(***************************************************************************)
(* The invariants.                                                         *)
(***************************************************************************)

\* Every step keeps the invariant.
LEMMA IndInvStep ==
  ASSUME IndInv, [Next]_vars
  PROVE  IndInv'
<1>1. CASE stage = "start"
  <2>1. type = ""
    BY <1>1, Zenon DEF IndInv
  <2>2. CASE Begin
    <3>1. Inv' /\ stage' # "start"
      BY <2>1, <2>2, BeginInv DEF Begin, Unset
    <3>2. QED
      BY <3>1, Zenon DEF IndInv
  <2>3. CASE UNCHANGED vars
    BY <1>1, <2>1, <2>3 DEF vars, IndInv
  <2>4. QED
    BY <1>1, <2>2, <2>3 DEF Next, addTopInterface, Skip, Typedef, MacAddr, EthAddr, Key, Array,
       Value, Pointer, Bitset, Endline, Member, Matches, Parsing
<1>2. CASE stage # "start"
  <2>1. lines' = lines /\ stage' # "start"
    <3>1. CASE UNCHANGED vars
      BY <1>2, <3>1 DEF vars
    <3>2. CASE Next
      BY <1>2, <3>2 DEF Next, Begin, addTopInterface, Skip, Typedef, MacAddr, EthAddr, Key, Array,
         Value, Pointer, Bitset, Endline, Member, Matches, Parsing
    <3>3. QED
      BY <3>1, <3>2
  <2>2. CASE ~Structured(lines)
    <3>1. ~Structured(lines')
      BY <2>1, <2>2, Zenon
    <3>2. QED
      BY <2>1, <3>1, Zenon DEF IndInv
  <2>3. CASE Structured(lines)
    <3>1. Inv
      BY <1>2, <2>3, Zenon DEF IndInv
    <3>2. CASE UNCHANGED vars
      <4>1. /\ stage' = stage /\ index' = index /\ type' = type /\ last' = last
            /\ source' = source /\ header' = header
        BY <3>2 DEF vars
      <4>2. /\ Names' = Names /\ Statements' = Statements
            /\ Relevant(lines)' = Relevant(lines) /\ Starts(lines)' = Starts(lines)
        BY <2>1, SameLines, Zenon
      <4>3. TypeOK'
        BY <2>1, <3>1, <4>1, <4>2, Zenon DEF Inv, TypeOK
      <4>4. Context'
        BY <2>1, <3>1, <4>1, <4>2 DEF Inv, Context, Latest, Current
      <4>5. Structures'
        <5>1. \A s, f : Function_of(s, f)' <=> Function_of(s, f)
          BY <2>1, <4>1 DEF Function_of, Current, Written, Members, IsMember
        <5>2. QED
          BY <2>1, <3>1, <4>1, <4>2, <5>1, Zenon DEF Inv, Structures
      <4>6. Functions'
        BY <2>1, <3>1, <4>1 DEF Inv, Functions, Current
      <4>7. QED
        BY <2>1, <4>3, <4>4, <4>5, <4>6, Zenon DEF IndInv, Inv
    <3>3. CASE Next
      <4>1. ~Begin
        BY <1>2 DEF Begin
      <4>2. Inv'
        BY <2>3, <3>1, <3>3, <4>1, addTopInterfaceInv, SkipInv, TypedefInv, MacAddrInv, EthAddrInv,
           KeyInv, ArrayInv, ValueInv, PointerInv, BitsetInv, EndlineInv, Zenon DEF Next
      <4>3. QED
        BY <2>1, <4>2, Zenon DEF IndInv
    <3>4. QED
      BY <3>2, <3>3
  <2>4. QED
    BY <2>2, <2>3
<1>3. QED
  BY <1>1, <1>2

\* The inductive invariant: context.last says what the last line was, and every
\* function is complete but the one that is being written.
THEOREM GeneratorIndInv == Spec => []IndInv
<1>1. Init => IndInv
  BY DEF Init, IndInv
<1>2. IndInv /\ [Next]_vars => IndInv'
  BY IndInvStep
<1>3. QED
  BY <1>1, <1>2, PTL DEF Spec

\* For every head.h, of what is Structured the script writes C, whatever the
\* members and however many structures there are; and what is called in it is
\* declared when the types of the members are.
THEOREM GeneratorCompiles == Spec => []Compiles
<1>1. IndInv => Compiles
  <2>1. SUFFICES ASSUME Inv, stage = "done", NEW f \in 1 .. Len(source)
                 PROVE  /\ Compiled(source[f].struct, source[f].body) = Done
                        /\ Declared(lines) =>
                             \A x \in 1 .. Len(source[f].body) :
                               source[f].body[x].calls \subseteq Defined \cup header
    BY DEF IndInv, Compiles
  <2>2. Compiled(source[f].struct, source[f].body) = Done
    <3>1. stage # "lines"
      BY <2>1
    <3>2. QED
      BY <2>1, <3>1, Zenon DEF Inv, Functions
  <2>3. header = Structs(lines)
    <3>1. lines \in Heads /\ index = Len(lines)
          /\ header = {lines[k].value : k \in {t \in Starts(lines) : t <= index}}
      BY <2>1, Zenon DEF Inv, TypeOK
    <3>2. Starts(lines) \subseteq 1 .. Len(lines) /\ Len(lines) \in Nat
      BY <3>1, HeadFacts, Zenon
    <3>3. {t \in Starts(lines) : t <= index} = Starts(lines)
      BY <3>1, <3>2
    <3>4. QED
      BY <3>1, <3>3, Zenon DEF Structs
  <2>4. ASSUME Declared(lines), NEW x \in 1 .. Len(source[f].body)
        PROVE  source[f].body[x].calls \subseteq Defined \cup header
    <3>1. source[f] \in [kind : {"tool", "build", "top"}, struct : Names, body : Seq(Statements)]
      <4>1. source \in Seq([kind : {"tool", "build", "top"}, struct : Names, body : Seq(Statements)])
        BY <2>1, Zenon DEF Inv, TypeOK
      <4>2. QED
        BY <4>1, ElementOfSeq
    <3>2. source[f].body \in Seq(Statements)
      BY <3>1
    <3>3. source[f].body[x] \in Statements
      BY <3>2, ElementOfSeq
    <3>4. QED
      BY <2>3, <2>4, <3>3 DEF Statements, Declared
  <2>5. QED
    BY <2>2, <2>4
<1>2. QED
  BY <1>1, GeneratorIndInv, PTL

\* For every head.h that is Structured every structure has a function that returns
\* the object built of it, or the array with it, and the object has every member.
THEOREM GeneratorFieldsBuilt == Spec => []FieldsBuilt
<1>1. IndInv => FieldsBuilt
  <2>1. SUFFICES ASSUME Inv, stage = "done", NEW s \in Starts(lines)
                 PROVE  \E f \in 1 .. Len(source) :
                          /\ source[f].kind = "build" /\ source[f].struct = lines[s].value
                          /\ Sized(lines, s) => Fields(source[f].body) = Members(s, Len(lines))
                          /\ Loops(source[f].body) \/ TakenFrom(source[f].body, lines[s].value)
                          /\ Gives(source[f].body)
    BY DEF IndInv, FieldsBuilt
  <2>2. lines \in Heads /\ index = Len(lines) /\ stage # "lines"
    BY <2>1 DEF Inv, TypeOK
  <2>3. s <= index
    <3>1. Starts(lines) \subseteq 1 .. Len(lines) /\ Len(lines) \in Nat
      BY <2>2, HeadFacts, Zenon
    <3>2. QED
      BY <2>2, <3>1
  <2>4. PICK f \in 1 .. Len(source) : Function_of(s, f)
    BY <2>1, <2>3, Zenon DEF Inv, Structures
  <2>5. QED
    BY <2>2, <2>4, Zenon DEF Function_of
<1>2. QED
  BY <1>1, GeneratorIndInv, PTL

=============================================================================
