-------------------------- MODULE ConfTokenProofs --------------------------
(***************************************************************************)
(* Proofs about module ConfToken, for every file, every size of the buffer *)
(* and whether fstat fails or not: the invariants, from the inductive      *)
(* invariant IndInv; where fstat does not fail, that the buffer cannot be  *)
(* noticed (AsIfUnbuffered) and, from the inductive invariant Understood,  *)
(* that every document of module Document is read as what it says.         *)
(***************************************************************************)
EXTENDS ConfToken, NatFacts, FiniteSetTheorems, SequenceTheorems

----------------------------------------------------------------------------
(***************************************************************************)
(* The word that is copied.                                                *)
(***************************************************************************)

\* What stands behind a backslash stands for a character.
LEMMA EscapeChar == \A x \in DOMAIN Escape : Escape[x] \in Char
<1>1. DOMAIN Escape = {"dq", "sq", "bs", "t", "n"}
  BY DEF Escape
<1>2. /\ Escape["dq"] = "dq" /\ Escape["sq"] = "sq" /\ Escape["bs"] = "bs"
      /\ Escape["t"] = "sp" /\ Escape["n"] = "lf"
  BY DEF Escape
<1>3. QED
  BY <1>1, <1>2 DEF Char

\* f has what is copied from every place in s on.
CopiedFrom(s, f, k) ==
  /\ f[k] \in Seq(Char)
  /\ f[k] = IF k > Len(s) - 1 THEN <<>>
            ELSE IF s[k] = "bs" /\ s[k + 1] \in DOMAIN Escape
              THEN <<Escape[s[k + 1]]>> \o f[k + 2]
              ELSE <<s[k]>> \o f[k + 1]

\* The recursive function of Unescaped is defined, and what it copies are
\* characters.
LEMMA UnescapedCopies ==
  ASSUME NEW s \in Seq(Char), s # <<>>
  PROVE  \E f : Unescaped(s) = f[1] /\ \A k \in 1 .. Len(s) + 1 : CopiedFrom(s, f, k)
<1> DEFINE n == Len(s) - 1
           D == 1 .. n + 2
           Body(f, k) ==
             IF k > n THEN <<>>
             ELSE IF s[k] = "bs" /\ s[k + 1] \in DOMAIN Escape
               THEN <<Escape[s[k + 1]]>> \o f[k + 2]
               ELSE <<s[k]>> \o f[k + 1]
           Copies(f) == f = [k \in D |-> Body(f, k)]
           copy == CHOOSE f : Copies(f)
<1>1. n \in Nat
  OBVIOUS
<1>2. ASSUME NEW f, NEW k \in D, k <= n => f[k + 1] \in Seq(Char) /\ f[k + 2] \in Seq(Char)
      PROVE  Body(f, k) \in Seq(Char)
  <2>1. CASE k > n
    BY <2>1, <1>1
  <2>2. CASE k <= n
    <3>1. k \in 1 .. Len(s) /\ k + 1 \in 1 .. Len(s)
      BY <2>2, <1>1
    <3>2. s[k] \in Char /\ s[k + 1] \in Char
      BY <3>1
    <3>3. <<s[k]>> \o f[k + 1] \in Seq(Char)
      BY <3>2, <2>2, <1>2
    <3>4. ASSUME s[k + 1] \in DOMAIN Escape
          PROVE  <<Escape[s[k + 1]]>> \o f[k + 2] \in Seq(Char)
      <4>1. Escape[s[k + 1]] \in Char
        BY <3>4, EscapeChar, Zenon
      <4> HIDE DEF n, D
      <4>2. QED
        BY <4>1, <2>2, <1>2
    <3>5. QED
      BY <2>2, <3>3, <3>4, <1>1
  <2>3. QED
    BY <2>1, <2>2, <1>1
<1>3. \E f : Copies(f)
  <2> DEFINE Good(g, m) == /\ g \in [D -> Seq(Char)]
                           /\ \A k \in D : k > n - m => g[k] = Body(g, k)
             S == {m \in Nat : \E g : Good(g, m)}
  <2>1. 0 \in S
    <3>1. Good([k \in D |-> <<>>], 0)
      <4>1. [k \in D |-> <<>>] \in [D -> Seq(Char)]
        OBVIOUS
      <4>2. QED
        BY <4>1, <1>1
    <3>2. QED
      BY <3>1
  <2>2. ASSUME NEW m \in Nat, m \in S
        PROVE  m + 1 \in S
    <3>1. PICK g : Good(g, m)
      BY <2>2
    <3> DEFINE j == n - m
               h == [g EXCEPT ![j] = Body(g, j)]
    <3>2. CASE j \notin D
      <4>1. Good(g, m + 1)
        BY <3>1, <3>2, <1>1
      <4> HIDE DEF Good
      <4>2. QED
        BY <4>1
    <3>3. CASE j \in D
      <4>1. j + 1 \in D /\ j + 2 \in D /\ j <= n
        BY <3>3, <1>1
      <4>2. g[j + 1] \in Seq(Char) /\ g[j + 2] \in Seq(Char)
        BY <3>1, <4>1
      <4>3. Body(g, j) \in Seq(Char)
        BY <1>2, <3>3, <4>2
      <4>4. h \in [D -> Seq(Char)] /\ \A k \in D : k # j => h[k] = g[k]
        <5> HIDE DEF Body, D
        <5>1. QED
          BY <3>1, <4>3
      <4>5. h[j] = Body(g, j)
        <5> HIDE DEF Body, D
        <5>1. QED
          BY <3>1, <3>3
      <4>6. ASSUME NEW k \in D, k >= j
            PROVE  Body(h, k) = Body(g, k)
        <5>1. CASE k > n
          BY <5>1
        <5>2. CASE k <= n
          <6>1. k + 1 \in D /\ k + 2 \in D /\ k + 1 # j /\ k + 2 # j
            BY <5>2, <4>6, <1>1
          <6>2. h[k + 1] = g[k + 1] /\ h[k + 2] = g[k + 2]
            BY <6>1, <4>4
          <6> HIDE DEF h
          <6>3. QED
            BY <6>2
        <5>3. QED
          BY <5>1, <5>2, <1>1
      <4> HIDE DEF h
      <4>7. ASSUME NEW k \in D, k > n - (m + 1)
            PROVE  h[k] = Body(h, k)
        <5> HIDE DEF Body
        <5>1. CASE k = j
          BY <5>1, <4>5, <4>6, <3>3
        <5>2. CASE k # j
          <6>1. k > n - m /\ k >= j
            BY <5>2, <4>7, <1>1
          <6>2. QED
            BY <6>1, <5>2, <4>4, <4>6, <3>1
        <5>3. QED
          BY <5>1, <5>2
      <4>8. Good(h, m + 1)
        BY <4>4, <4>7
      <4> HIDE DEF Good
      <4>9. QED
        BY <4>8
    <3>4. QED
      BY <3>2, <3>3
  <2> HIDE DEF S
  <2>3. n \in S
    BY <2>1, <2>2, <1>1, SetInduction
  <2> USE DEF S
  <2>4. PICK g : Good(g, n)
    BY <2>3
  <2>5. \A k \in D : g[k] = Body(g, k)
    BY <2>4, <1>1
  <2>6. g = [k \in D |-> Body(g, k)]
    <3> HIDE DEF Body, D
    <3>1. QED
      BY <2>4, <2>5
  <2>7. QED
    BY <2>6
<1>4. Copies(copy)
  <2> HIDE DEF Copies
  <2>1. QED
    BY <1>3
<1>5. \A k \in D : copy[k] = Body(copy, k)
  <2> HIDE DEF copy, Body, D
  <2>1. QED
    BY <1>4
<1>6. \A k \in D : copy[k] \in Seq(Char)
  <2> HIDE DEF copy
  <2> DEFINE S == {m \in Nat : \A k \in D : k > n - m => copy[k] \in Seq(Char)}
  <2>1. 0 \in S
    <3>1. ASSUME NEW k \in D, k > n
          PROVE  copy[k] \in Seq(Char)
      <4>1. Body(copy, k) \in Seq(Char)
        BY <3>1, <1>1
      <4> HIDE DEF Body
      <4>2. QED
        BY <4>1, <1>5
    <3>2. QED
      BY <3>1, <1>1
  <2>2. ASSUME NEW m \in Nat, m \in S
        PROVE  m + 1 \in S
    <3>1. ASSUME NEW k \in D, k > n - (m + 1)
          PROVE  copy[k] \in Seq(Char)
      <4>1. k <= n => k + 1 \in D /\ k + 2 \in D /\ k + 1 > n - m /\ k + 2 > n - m
        BY <3>1, <1>1
      <4>2. k <= n => copy[k + 1] \in Seq(Char) /\ copy[k + 2] \in Seq(Char)
        BY <4>1, <2>2
      <4>3. Body(copy, k) \in Seq(Char)
        BY <4>2, <1>2
      <4> HIDE DEF Body
      <4>4. QED
        BY <4>3, <1>5
    <3>2. QED
      BY <3>1
  <2> HIDE DEF S
  <2>3. n \in S
    BY <2>1, <2>2, <1>1, SetInduction
  <2> USE DEF S
  <2>4. QED
    BY <2>3, <1>1
<1>7. Unescaped(s) = copy[1]
  BY DEF Unescaped
<1>8. D = 1 .. Len(s) + 1
  BY <1>1
<1> HIDE DEF copy, D
<1>9. \A k \in 1 .. Len(s) + 1 : CopiedFrom(s, copy, k)
  BY <1>5, <1>6, <1>8, Zenon DEF CopiedFrom
<1>10. QED
  BY <1>7, <1>9, Zenon

\* A word consists of characters.
LEMMA UnescapedType ==
  ASSUME NEW s \in Seq(Char), s # <<>>
  PROVE  Unescaped(s) \in Seq(Char)
<1>1. PICK f : Unescaped(s) = f[1] /\ \A k \in 1 .. Len(s) + 1 : CopiedFrom(s, f, k)
  BY UnescapedCopies, Zenon
<1>2. 1 \in 1 .. Len(s) + 1
  OBVIOUS
<1>3. QED
  BY <1>1, <1>2, Zenon DEF CopiedFrom

----------------------------------------------------------------------------
(***************************************************************************)
(* What one character does, wherever it comes from.                        *)
(***************************************************************************)
Result == [rc : {"ok", "block", "block_done"}, args : Seq(Seq(Char))]
RcType == {"none", "reading", "ok", "block", "block_done", "file_done"} \cup Errors

\* The part of the invariant that speaks of the token only.
TokenInv == TokenTypeOK /\ NeedBehindWord /\ NeverEmpty

\* What a call returns is a directive if it says so, and then not an empty one.
LEMMA ReturnsStep ==
  ASSUME TokenInv, NEW r \in RcType \ {"none"}, Returns(r), args' \in Seq(Seq(Char)),
         r \in {"ok", "block"} => args' # <<>>
  PROVE  /\ rc' = r /\ rc' \in RcType
         /\ out' \in Seq(Result) /\ NeverEmpty'
<1>1. out \in Seq(Result) /\ NeverEmpty
  BY DEF TokenInv, NeedBehindWord, Result
<1>2. rc' = r /\ rc' \in RcType
  BY DEF Returns
<1>3. CASE r \in {"ok", "block", "block_done"}
  <2> DEFINE x == [rc |-> r, args |-> args']
  <2>1. out' = Append(out, x)
    BY <1>3 DEF Returns
  <2>2. x \in Result
    BY <1>3 DEF Result
  <2>3. x.rc = "block_done" \/ x.args # <<>>
    BY <1>3
  <2> HIDE DEF x
  <2>4. out' \in Seq(Result)
    BY <2>1, <2>2, <1>1
  <2>5. Len(out') = Len(out) + 1 /\ out'[Len(out) + 1] = x
        /\ \A k \in 1 .. Len(out) : out'[k] = out[k]
    BY <2>1, <2>2, <1>1
  <2>6. ASSUME NEW k \in 1 .. Len(out')
        PROVE  out'[k].rc = "block_done" \/ out'[k].args # <<>>
    <3>1. CASE k = Len(out) + 1
      BY <3>1, <2>5, <2>3
    <3>2. CASE k \in 1 .. Len(out)
      BY <3>2, <2>5, <1>1 DEF NeverEmpty
    <3>3. QED
      BY <3>1, <3>2, <2>5, <1>1
  <2>7. QED
    BY <2>4, <2>6, <1>2 DEF NeverEmpty
<1>4. CASE r \notin {"ok", "block", "block_done"}
  <2>1. out' = out
    BY <1>4 DEF Returns
  <2>2. QED
    BY <2>1, <1>1, <1>2 DEF NeverEmpty
<1>5. QED
  BY <1>3, <1>4

\* Where nothing is returned nothing is added.
LEMMA SilentStep ==
  ASSUME TokenInv, UNCHANGED <<rc, out>>
  PROVE  rc' \in RcType /\ out' \in Seq(Result) /\ NeverEmpty'
BY DEF TokenInv, TokenTypeOK, NeedBehindWord, NeverEmpty, Result, RcType

\* A line feed, and nothing else, is counted.
LEMMA CountStep ==
  ASSUME line \in Nat, NEW c, CountLine(c)
  PROVE  line' \in Nat /\ line' = line + (IF c = "lf" THEN 1 ELSE 0)
BY DEF CountLine

\* One character keeps the token's types, returns no empty directive, and
\* start_line is set where start is.
LEMMA StaysStep ==
  ASSUME TokenInv, rc = "reading", NEW c \in Char, NEW s \in Seq(Char), s # <<>>,
         Stays(c, s)
  PROVE  /\ TokenInv' /\ CountLine(c) /\ UNCHANGED start_line
         /\ rc' \notin {"none", "long"}
<1> USE DEF TokenInv
<1>1. CASE SkipComment(c)
  <2>1. rc' \in RcType /\ out' \in Seq(Result) /\ NeverEmpty'
    BY <1>1, SilentStep DEF SkipComment
  <2>2. line' \in Nat
    BY <1>1, CountStep DEF SkipComment, TokenTypeOK
  <2>3. QED
    BY <1>1, <2>1, <2>2 DEF SkipComment, TokenTypeOK, NeedBehindWord, Result, RcType
<1>2. CASE SkipQuoted(c)
  <2>1. rc' \in RcType /\ out' \in Seq(Result) /\ NeverEmpty'
    BY <1>2, SilentStep DEF SkipQuoted
  <2>2. line' \in Nat
    BY <1>2, CountStep DEF SkipQuoted, TokenTypeOK
  <2>3. QED
    BY <1>2, <2>1, <2>2 DEF SkipQuoted, TokenTypeOK, NeedBehindWord, Result, RcType
<1>3. CASE AfterQuote(c)
  <2>1. line' \in Nat /\ CountLine(c)
    BY <1>3, CountStep DEF AfterQuote, Reads, TokenTypeOK
  <2>2. args' = args /\ args # <<>> /\ args \in Seq(Seq(Char))
    BY <1>3 DEF AfterQuote, NeedBehindWord, TokenTypeOK
  <2>3. /\ rc' \in RcType \ {"none", "long"}
        /\ out' \in Seq(Result) /\ NeverEmpty'
    <3>1. CASE c \in Blank
      <4>1. UNCHANGED <<rc, out>>
        BY <1>3, <3>1 DEF AfterQuote
      <4>2. QED
        BY <4>1, SilentStep
    <3>2. CASE c \notin Blank
      <4> DEFINE r == IF c \in {";", "{"} THEN Delimited(c) ELSE "syntax"
      <4>1. Returns(r)
        BY <1>3, <3>2 DEF AfterQuote
      <4>2. r \in RcType \ {"none"} /\ r # "long"
        BY DEF Delimited, RcType, Errors
      <4> HIDE DEF r
      <4>3. QED
        BY <4>1, <4>2, <2>2, ReturnsStep
    <3>3. QED
      BY <3>1, <3>2
  <2>4. QED
    BY <1>3, <2>1, <2>2, <2>3 DEF AfterQuote, TokenTypeOK, NeedBehindWord, Result, RcType
<1>4. CASE SkipBlank(c)
  <2>1. rc' \in RcType /\ out' \in Seq(Result) /\ NeverEmpty'
    BY <1>4, SilentStep DEF SkipBlank
  <2>2. line' \in Nat /\ CountLine(c)
    BY <1>4, CountStep DEF SkipBlank, Reads, TokenTypeOK
  <2>3. QED
    BY <1>4, <2>1, <2>2 DEF SkipBlank, scanning, TokenTypeOK, NeedBehindWord, Result, RcType
<1>5. CASE InsideWord(c)
  <2>1. rc' \in RcType /\ out' \in Seq(Result) /\ NeverEmpty'
    BY <1>5, SilentStep DEF InsideWord
  <2>2. line' \in Nat /\ CountLine(c)
    BY <1>5, CountStep DEF InsideWord, Reads, TokenTypeOK
  <2>3. quoted' \in BOOLEAN /\ variable' \in BOOLEAN
    BY <1>5 DEF InsideWord, KeepsVariable, TokenTypeOK
  <2>4. QED
    BY <1>5, <2>1, <2>2, <2>3 DEF InsideWord, TokenTypeOK, NeedBehindWord, Result, RcType
<1>6. CASE EndWord(c, s)
  <2>1. line' \in Nat /\ CountLine(c)
    BY <1>6, CountStep DEF EndWord, Reads, TokenTypeOK
  <2>2. Unescaped(s) \in Seq(Char)
    BY UnescapedType
  <2>3. args' \in Seq(Seq(Char)) /\ args' # <<>>
    <3>1. args' = Append(args, Unescaped(s)) /\ args \in Seq(Seq(Char))
      BY <1>6 DEF EndWord, TokenTypeOK
    <3>2. QED
      BY <3>1, <2>2
  <2>4. /\ rc' \in RcType \ {"none", "long"}
        /\ out' \in Seq(Result) /\ NeverEmpty'
    <3>1. CASE c \notin {";", "{"}
      <4>1. UNCHANGED <<rc, out>>
        BY <1>6, <3>1 DEF EndWord
      <4>2. QED
        BY <4>1, SilentStep
    <3>2. CASE c \in {";", "{"}
      <4>1. Returns(Delimited(c))
        BY <1>6, <3>2 DEF EndWord
      <4>2. Delimited(c) \in RcType \ {"none"} /\ Delimited(c) # "long"
        BY DEF Delimited, RcType, Errors
      <4>3. QED
        BY <4>1, <4>2, <2>3, ReturnsStep
    <3>3. QED
      BY <3>1, <3>2
  <2>5. QED
    BY <1>6, <2>1, <2>3, <2>4 DEF EndWord, TokenTypeOK, NeedBehindWord, Result, RcType
<1>7. QED
  BY <1>1, <1>2, <1>3, <1>4, <1>5, <1>6 DEF Stays

\* The same for the characters that start is set to.
LEMMA StartsStep ==
  ASSUME TokenInv, rc = "reading", NEW c \in Char, Starts(c)
  PROVE  /\ TokenInv' /\ CountLine(c) /\ start_line' = line' /\ c # "lf"
         /\ rc' \notin {"none", "long"}
<1> USE DEF TokenInv
<1>1. args' = args /\ args \in Seq(Seq(Char))
  BY DEF Starts, Delimiter, BlockDone, Comment, BeginWord, TokenTypeOK
<1>2. CountLine(c) /\ start_line' = line' /\ c # "lf"
  BY DEF Starts, Delimiter, BlockDone, Comment, BeginWord, Reads, Blank
<1>3. line' \in Nat
  BY <1>2, CountStep DEF TokenTypeOK
<1>4. CASE Delimiter(c)
  <2> DEFINE r == IF args = <<>> THEN "syntax" ELSE Delimited(c)
  <2>1. Returns(r)
    BY <1>4 DEF Delimiter
  <2>2. r \in RcType \ {"none"} /\ r # "long" /\ (r \in {"ok", "block"} => args # <<>>)
    BY DEF Delimited, RcType, Errors
  <2> HIDE DEF r
  <2>3. rc' \in RcType \ {"none", "long"} /\ out' \in Seq(Result) /\ NeverEmpty'
    BY <2>1, <2>2, <1>1, ReturnsStep
  <2>4. QED
    BY <1>1, <1>2, <1>3, <1>4, <2>3
    DEF Delimiter, TokenTypeOK, NeedBehindWord, Result, RcType
<1>5. CASE BlockDone(c)
  <2> DEFINE r == IF args # <<>> THEN "syntax" ELSE "block_done"
  <2>1. Returns(r)
    BY <1>5 DEF BlockDone
  <2>2. r \in RcType \ {"none"} /\ r # "long" /\ r \notin {"ok", "block"}
    BY DEF RcType, Errors
  <2> HIDE DEF r
  <2>3. rc' \in RcType \ {"none", "long"} /\ out' \in Seq(Result) /\ NeverEmpty'
    BY <2>1, <2>2, <1>1, ReturnsStep
  <2>4. QED
    BY <1>1, <1>2, <1>3, <1>5, <2>3
    DEF BlockDone, TokenTypeOK, NeedBehindWord, Result, RcType
<1>6. CASE Comment(c)
  <2>1. rc' \in RcType /\ out' \in Seq(Result) /\ NeverEmpty' /\ rc' = "reading"
    BY <1>6, SilentStep DEF Comment
  <2>2. QED
    BY <1>1, <1>2, <1>3, <1>6, <2>1
    DEF Comment, TokenTypeOK, NeedBehindWord, Result, RcType
<1>7. CASE BeginWord(c)
  <2>1. rc' \in RcType /\ out' \in Seq(Result) /\ NeverEmpty' /\ rc' = "reading"
    BY <1>7, SilentStep DEF BeginWord
  <2>2. QED
    BY <1>1, <1>2, <1>3, <1>7, <2>1
    DEF BeginWord, TokenTypeOK, NeedBehindWord, Result, RcType
<1>8. QED
  BY <1>4, <1>5, <1>6, <1>7 DEF Starts

\* The same for an opening quote.
LEMMA StartsBehindStep ==
  ASSUME TokenInv, rc = "reading", NEW c \in Char, StartsBehind(c)
  PROVE  /\ TokenInv' /\ CountLine(c) /\ start_line' = line'
         /\ rc' \notin {"none", "long"}
<1>1. CountLine(c) /\ start_line' = line' /\ rc' = "reading"
  BY DEF StartsBehind, BeginQuoted, Reads
<1>2. line' \in Nat
  BY <1>1, CountStep DEF TokenInv, TokenTypeOK
<1>3. rc' \in RcType /\ out' \in Seq(Result) /\ NeverEmpty'
  BY SilentStep DEF StartsBehind, BeginQuoted
<1>4. QED
  BY <1>1, <1>2, <1>3
  DEF StartsBehind, BeginQuoted, TokenInv, TokenTypeOK, NeedBehindWord, Result, RcType

\* The same where there is no memory for the word.
LEMMA NoMemoryStep ==
  ASSUME TokenInv, rc = "reading", NEW c \in Char, NoMemory(c)
  PROVE  /\ TokenInv' /\ CountLine(c) /\ UNCHANGED start_line
         /\ rc' \notin {"none", "long"}
<1>1. CountLine(c) /\ Returns("memory") /\ args' = args /\ args \in Seq(Seq(Char))
  BY DEF NoMemory, Reads, TokenInv, TokenTypeOK
<1>2. line' \in Nat
  BY <1>1, CountStep DEF TokenInv, TokenTypeOK
<1>3. "memory" \in RcType \ {"none"}
  BY DEF RcType, Errors
<1>4. rc' = "memory" /\ rc' \in RcType /\ out' \in Seq(Result) /\ NeverEmpty'
  BY <1>1, <1>3, ReturnsStep
<1>5. QED
  BY <1>1, <1>2, <1>4
  DEF NoMemory, TokenInv, TokenTypeOK, NeedBehindWord, Result, RcType

\* A call that ends without another character.
LEMMA StopsStep ==
  ASSUME TokenInv, NEW r \in {"syntax", "file_done", "read"}, Stops(r)
  PROVE  TokenInv' /\ UNCHANGED <<line, start_line>> /\ rc' = r
<1>1. args' = args /\ args \in Seq(Seq(Char))
  BY DEF Stops, scanning, TokenInv, TokenTypeOK
<1>2. r \in RcType \ {"none"} /\ Returns(r)
  BY DEF RcType, Errors, Stops
<1>3. rc' = r /\ rc' \in RcType /\ out' \in Seq(Result) /\ NeverEmpty'
  BY <1>1, <1>2, ReturnsStep
<1>4. QED
  BY <1>1, <1>3
  DEF Stops, scanning, TokenInv, TokenTypeOK, NeedBehindWord, Result, RcType

\* A parameter that is too long.
LEMMA TooLargeStep ==
  ASSUME TokenInv, TooLarge
  PROVE  TokenInv' /\ line' = start_line /\ UNCHANGED start_line /\ rc' = "long"
<1>1. args' = args /\ args \in Seq(Seq(Char))
  BY DEF TooLarge, scanning, TokenInv, TokenTypeOK
<1>2. "long" \in RcType \ {"none"} /\ Returns("long")
  BY DEF RcType, Errors, TooLarge
<1>3. rc' = "long" /\ rc' \in RcType /\ out' \in Seq(Result) /\ NeverEmpty'
  BY <1>1, <1>2, ReturnsStep
<1>4. QED
  BY <1>1, <1>3
  DEF TooLarge, scanning, TokenInv, TokenTypeOK, NeedBehindWord, Result, RcType

\* The next call.
LEMMA BeginStep ==
  ASSUME TokenInv, Begin
  PROVE  /\ TokenInv' /\ UNCHANGED line /\ start_line' = line
         /\ rc' = "reading" /\ rc # "long"
<1>1. UNCHANGED <<line, out>> /\ start_line' = line /\ rc' = "reading" /\ rc # "long"
  BY DEF Begin
<1>2. TokenTypeOK'
  <2>1. args' \in Seq(Seq(Char))
    BY DEF Begin
  <2>2. QED
    BY <2>1 DEF Begin, TokenInv, TokenTypeOK
<1>3. NeedBehindWord' /\ NeverEmpty'
  BY <1>1 DEF Begin, TokenInv, NeedBehindWord, NeverEmpty
<1>4. QED
  BY <1>1, <1>2, <1>3 DEF TokenInv

----------------------------------------------------------------------------
(***************************************************************************)
(* The buffer and the file.                                                *)
(***************************************************************************)

\* Line feeds are counted one character at a time.
LEMMA LineFeedsStep ==
  ASSUME NEW n \in Nat
  PROVE  /\ LineFeeds(n) \in Nat
         /\ LineFeeds(n + 1) = LineFeeds(n) + (IF file[n + 1] = "lf" THEN 1 ELSE 0)
<1> DEFINE S(m) == {k \in 1 .. m : file[k] = "lf"}
<1>1. IsFiniteSet(1 .. n)
  BY FS_Interval
<1>2. S(n) \subseteq 1 .. n
  OBVIOUS
<1>3. IsFiniteSet(S(n))
  BY <1>1, <1>2, FS_Subset
<1>4. Cardinality(S(n)) \in Nat
  BY <1>3, FS_CardinalityType
<1>5. CASE file[n + 1] = "lf"
  <2>1. S(n + 1) = S(n) \cup {n + 1} /\ n + 1 \notin S(n)
    BY <1>5
  <2> HIDE DEF S
  <2>2. Cardinality(S(n + 1)) = Cardinality(S(n)) + 1
    BY <2>1, <1>3, FS_AddElement
  <2> USE DEF S
  <2>3. QED
    BY <2>2, <1>4, <1>5 DEF LineFeeds
<1>6. CASE file[n + 1] # "lf"
  <2>1. S(n + 1) = S(n)
    BY <1>6
  <2>2. QED
    BY <2>1, <1>4, <1>6 DEF LineFeeds
<1>7. QED
  BY <1>5, <1>6

\* LineFeeds depends on the file only.
LEMMA LineFeedsKept ==
  ASSUME file' = file, source' = source, NEW n
  PROVE  LineFeeds(n)' = LineFeeds(n) /\ FirstLine' = FirstLine
BY DEF LineFeeds, FirstLine

\* The buffer is a part of the file, the one that begins behind Base.
Shown ==
  /\ Base \in Nat /\ Base + Len(buf) <= Len(file)
  /\ source = "file" => Base + Len(buf) = offset
  /\ \A k \in 1 .. Len(buf) : buf[k] = file[Base + k]

\* A part of a sequence of characters.
LEMMA Part ==
  ASSUME NEW s \in Seq(Char), NEW m \in Nat, NEW n \in Nat, m <= n, n <= Len(s)
  PROVE  /\ SubSeq(s, m + 1, n) \in Seq(Char)
         /\ Len(SubSeq(s, m + 1, n)) = n - m
         /\ \A k \in 1 .. n - m : SubSeq(s, m + 1, n)[k] = s[m + k]
<1>1. \A i \in m + 1 .. n : s[i] \in Char
  OBVIOUS
<1>2. /\ SubSeq(s, m + 1, n) \in Seq(Char)
      /\ Len(SubSeq(s, m + 1, n)) = IF m + 1 <= n THEN n - (m + 1) + 1 ELSE 0
      /\ \A i \in 1 .. n - (m + 1) + 1 : SubSeq(s, m + 1, n)[i] = s[(m + 1) + i - 1]
  BY <1>1, SubSeqProperties
<1>3. n - (m + 1) + 1 = n - m /\ \A i \in Nat : (m + 1) + i - 1 = m + i
  OBVIOUS
<1>4. QED
  BY <1>2, <1>3

\* What TypeOK, Given and Window say of the two.
LEMMA BufferShown ==
  ASSUME TypeOK, Given, Window
  PROVE  Shown
<1>1. /\ buf \in Seq(Char) /\ Len(buf) \in Nat /\ size \in Nat /\ offset \in Nat
      /\ file \in Seq(Char) /\ Len(file) \in Nat /\ offset <= Len(file)
      /\ source \in {"file", "param"}
  BY DEF TypeOK, Given
<1>2. CASE source = "param"
  BY <1>1, <1>2 DEF Base, Shown, Given
<1>3. CASE source = "file"
  <2>1. Base = offset - Len(buf) /\ Base >= 0 /\ buf = SubSeq(file, Base + 1, offset)
    BY <1>3 DEF Base, Window
  <2>2. Base \in Nat /\ Base <= offset /\ Base + Len(buf) = offset
    BY <2>1, <1>1
  <2>3. Base + Len(buf) <= Len(file) /\ offset - Base = Len(buf)
    BY <2>2, <1>1
  <2>4. \A k \in 1 .. offset - Base : SubSeq(file, Base + 1, offset)[k] = file[Base + k]
    BY <2>2, <1>1, Part
  <2>5. \A k \in 1 .. Len(buf) : buf[k] = file[Base + k]
    BY <2>1, <2>3, <2>4
  <2>6. QED
    BY <2>2, <2>3, <2>5 DEF Shown
<1>4. QED
  BY <1>1, <1>2, <1>3

\* So a part of the buffer is a part of the file.
LEMMA PartShown ==
  ASSUME TypeOK, Given, Shown, NEW m \in Nat, NEW n \in Nat, m <= n, n <= Len(buf)
  PROVE  SubSeq(buf, m + 1, n) = SubSeq(file, (Base + m) + 1, Base + n)
<1> DEFINE s == SubSeq(buf, m + 1, n)
           t == SubSeq(file, (Base + m) + 1, Base + n)
<1>1. /\ buf \in Seq(Char) /\ Len(buf) \in Nat
      /\ file \in Seq(Char) /\ Len(file) \in Nat /\ Base \in Nat
      /\ Base + Len(buf) <= Len(file)
  BY DEF TypeOK, Given, Shown
<1>2. /\ Base + m \in Nat /\ Base + n \in Nat /\ Base + m <= Base + n
      /\ Base + n <= Len(file) /\ (Base + n) - (Base + m) = n - m
  BY <1>1
<1>3. s \in Seq(Char) /\ Len(s) = n - m /\ \A k \in 1 .. n - m : s[k] = buf[m + k]
  BY <1>1, Part
<1>4. t \in Seq(Char) /\ Len(t) = n - m /\ \A k \in 1 .. n - m : t[k] = file[(Base + m) + k]
  BY <1>1, <1>2, Part
<1>5. \A k \in 1 .. n - m : /\ m + k \in 1 .. Len(buf)
                            /\ Base + (m + k) = (Base + m) + k
  BY <1>1
<1> HIDE DEF s, t
<1>6. \A k \in 1 .. n - m : s[k] = t[k]
  BY <1>3, <1>4, <1>5 DEF Shown
<1>7. s = t
  BY <1>3, <1>4, <1>6, SeqEqual
<1>8. QED
  BY <1>7 DEF s, t

\* A buffer that is used up has been read to its end.
LEMMA UsedUpPos ==
  ASSUME TypeOK, UsedUp
  PROVE  pos = Len(buf) /\ pos \in Nat /\ start \in Nat /\ start <= pos /\ len \in 0 .. pos
BY DEF TypeOK, UsedUp, len

----------------------------------------------------------------------------
(***************************************************************************)
(* The inductive invariant.                                                *)
(***************************************************************************)
LEMMA InvParts ==
  ASSUME IndInv
  PROVE  /\ TokenInv /\ TypeOK /\ Given /\ Window /\ Shown
         /\ LineTrue /\ StartLineTrue
         /\ pos \in Nat /\ start \in Nat /\ Base \in Nat
         /\ line \in Nat /\ start_line \in Nat /\ FirstLine \in Nat
<1>1. Shown
  BY BufferShown DEF IndInv
<1>2. QED
  BY <1>1 DEF IndInv, TokenInv, TypeOK, TokenTypeOK, FirstLine, Shown

\* Where what is parsed and the buffer stay as they are, so does what they say.
LEMMA Unmoved ==
  ASSUME UNCHANGED <<input, window>>
  PROVE  /\ Base' = Base /\ file' = file /\ source' = source
         /\ (Given => Given') /\ (Window => Window')
         /\ (buf \in Seq(Char) /\ offset \in 0 .. size
              => buf' \in Seq(Char) /\ offset' \in 0 .. size' /\ Len(buf') = Len(buf))
<1>1. UNCHANGED <<source, file, size, offset, buf>>
  BY DEF input, window
<1>2. Base' = Base
  BY <1>1 DEF Base
<1>3. QED
  BY <1>1, <1>2 DEF Given, Window

\* The first state.
LEMMA InitInv == Init => IndInv
<1> SUFFICES ASSUME Init
             PROVE  IndInv
  OBVIOUS
<1> USE ConfTokenAssumption
<1>1. PICK cut \in 0 .. Len(doc.text) : file = SubSeq(doc.text, 1, cut)
  BY DEF Init
<1>2. doc.text \in Seq(Char)
  BY DEF Init
<1>3. file \in Seq(Char) /\ Len(file) \in Nat
  BY <1>1, <1>2
<1>4. source \in {"file", "param"} /\ offset = 0 /\ pos = 0 /\ start = 0
  BY DEF Init
<1>5. TokenInit(FirstLine) /\ FirstLine \in Nat
  BY <1>4 DEF Init, FirstLine
<1>6. args = <<>> /\ out = <<>> /\ rc = "none" /\ mode = "space" /\ line = FirstLine
  BY <1>5 DEF TokenInit
<1>7. TokenTypeOK
  <2>1. args \in Seq(Seq(Char))
    BY <1>6
  <2>2. QED
    BY <2>1, <1>5, <1>6 DEF TokenInit, TokenTypeOK
<1>8. size \in Nat
  BY <1>3, <1>4 DEF Init
<1>9. (source = "file" => buf = <<>>) /\ (source = "param" => buf = file)
  BY DEF Init
<1>10. Given
  BY <1>3, <1>4, <1>8 DEF Init, Given
<1>11. TypeOK
  <2>1. <<>> \in Seq(Char)
    OBVIOUS
  <2>2. buf = <<>> \/ buf = file
    BY <1>4, <1>9
  <2>3. buf \in Seq(Char)
    BY <2>1, <2>2, <1>3, Zenon
  <2>4. QED
    BY <2>3, <1>4, <1>7, <1>8 DEF TypeOK
<1>12. source = "file" => buf = <<>> /\ Len(buf) = 0 /\ Base = 0
  <2>1. Len(<<>>) = 0
    OBVIOUS
  <2>2. SUFFICES ASSUME source = "file"
                 PROVE  buf = <<>> /\ Len(buf) = 0 /\ Base = 0
    OBVIOUS
  <2>3. buf = <<>>
    BY <2>2, <1>9, Zenon
  <2>4. Len(buf) = 0
    BY <2>1, <2>3, Zenon
  <2>5. Base = offset - Len(buf)
    BY <2>2 DEF Base
  <2>6. 0 - 0 = 0
    OBVIOUS
  <2>7. QED
    BY <2>3, <2>4, <2>5, <2>6, <1>4, Zenon
<1>13. Window
  <2>1. SubSeq(file, 0 + 1, 0) = <<>>
    BY SubSeqEmpty
  <2>2. QED
    BY <2>1, <1>12, <1>4 DEF Window
<1>14. Base = 0
  BY <1>4, <1>12 DEF Base
<1>15. LineTrue
  <2>1. {k \in 1 .. 0 : file[k] = "lf"} = {}
    OBVIOUS
  <2>2. LineFeeds(0) = 0
    BY <2>1, FS_EmptySet DEF LineFeeds
  <2>3. QED
    BY <2>2, <1>4, <1>5, <1>6, <1>14 DEF LineTrue
<1>16. StartLineTrue
  BY <1>6 DEF StartLineTrue
<1>17. NeedBehindWord
  <2>1. out \in Seq([rc : {"ok", "block", "block_done"}, args : Seq(Seq(Char))])
    BY <1>6
  <2>2. QED
    BY <2>1, <1>6 DEF NeedBehindWord
<1>18. NeverEmpty
  BY <1>6 DEF NeverEmpty
<1>19. QED
  BY <1>10, <1>11, <1>13, <1>15, <1>16, <1>17, <1>18 DEF IndInv

\* The steps that read no character and do not touch the buffer.
LEMMA StillInv ==
  ASSUME IndInv, UNCHANGED <<input, window, pos>>, TokenInv', rc' # "none",
         \/ UNCHANGED <<start, start_line>> /\ rc # "none"
         \/ start' = pos /\ start_line' = line /\ rc # "long",
         \/ line' = line /\ rc # "long" /\ rc' # "long"
         \/ line' = start_line /\ rc' = "long" /\ UNCHANGED <<start, start_line>>
  PROVE  IndInv'
<1>a. /\ TokenInv /\ TypeOK /\ Given /\ Window /\ Shown
      /\ LineTrue /\ StartLineTrue
      /\ pos \in Nat /\ start \in Nat /\ Base \in Nat
      /\ line \in Nat /\ start_line \in Nat /\ FirstLine \in Nat
  BY InvParts
<1> USE <1>a
<1>1. /\ Base' = Base /\ file' = file /\ source' = source /\ Given' /\ Window'
      /\ buf' \in Seq(Char) /\ offset' \in 0 .. size' /\ Len(buf') = Len(buf)
  BY Unmoved DEF TypeOK
<1>2. \A n : LineFeeds(n)' = LineFeeds(n) /\ FirstLine' = FirstLine
  BY <1>1, LineFeedsKept
<1>3. TypeOK'
  BY <1>1 DEF TypeOK, TokenInv
<1>4. StartLineTrue'
  BY <1>1, <1>2 DEF StartLineTrue, LineTrue, LineFeeds, FirstLine
<1>5. LineTrue'
  BY <1>1, <1>2 DEF StartLineTrue, LineTrue, LineFeeds, FirstLine
<1>6. QED
  BY <1>1, <1>3, <1>4, <1>5 DEF IndInv, TokenInv

\* A character that is taken from the buffer is the next one of the file.
LEMMA CharFacts ==
  ASSUME IndInv, GetChar
  PROVE  /\ rc = "reading" /\ pos' = pos + 1 /\ pos < Len(buf)
         /\ ch \in Char /\ ch = file[Base + pos + 1]
         /\ SubSeq(buf, start + 1, pos + 1) \in Seq(Char)
         /\ SubSeq(buf, start + 1, pos + 1) # <<>>
         /\ Base' = Base /\ file' = file /\ source' = source /\ Given' /\ Window'
         /\ buf' \in Seq(Char) /\ offset' \in 0 .. size' /\ Len(buf') = Len(buf)
<1>a. /\ TokenInv /\ TypeOK /\ Given /\ Window /\ Shown
      /\ LineTrue /\ StartLineTrue
      /\ pos \in Nat /\ start \in Nat /\ Base \in Nat
      /\ line \in Nat /\ start_line \in Nat /\ FirstLine \in Nat
  BY InvParts
<1> USE <1>a
<1>1. rc = "reading" /\ pos' = pos + 1 /\ pos < Len(buf) /\ UNCHANGED <<input, window>>
  BY DEF GetChar
<1>2. /\ Base' = Base /\ file' = file /\ source' = source /\ Given' /\ Window'
      /\ buf' \in Seq(Char) /\ offset' \in 0 .. size' /\ Len(buf') = Len(buf)
  BY <1>1, Unmoved DEF TypeOK
<1>3. buf \in Seq(Char) /\ start <= pos /\ pos + 1 \in 1 .. Len(buf) /\ pos + 1 \in Nat
  BY <1>1 DEF TypeOK
<1>4. ch \in Char
  BY <1>3 DEF ch
<1>5. ch = file[Base + pos + 1]
  <2>1. Base + (pos + 1) = Base + pos + 1
    OBVIOUS
  <2>2. QED
    BY <2>1, <1>3 DEF ch, Shown
<1>6. /\ SubSeq(buf, start + 1, pos + 1) \in Seq(Char)
      /\ Len(SubSeq(buf, start + 1, pos + 1)) = (pos + 1) - start
  BY <1>3, Part
<1>7. SubSeq(buf, start + 1, pos + 1) # <<>>
  <2>1. Len(<<>>) = 0
    OBVIOUS
  <2>2. QED
    BY <2>1, <1>3, <1>6
<1>8. QED
  BY <1>1, <1>2, <1>4, <1>5, <1>6, <1>7

\* So the line is counted in the file.
LEMMA CharLine ==
  ASSUME IndInv, GetChar, CountLine(ch)
  PROVE  line' = FirstLine + LineFeeds(Base + pos + 1)
<1>a. /\ TokenInv /\ TypeOK /\ Given /\ Window /\ Shown
      /\ LineTrue /\ StartLineTrue
      /\ pos \in Nat /\ start \in Nat /\ Base \in Nat
      /\ line \in Nat /\ start_line \in Nat /\ FirstLine \in Nat
  BY InvParts
<1> USE <1>a
<1>1. rc = "reading" /\ ch = file[Base + pos + 1]
  BY CharFacts
<1>2. line' = line + (IF ch = "lf" THEN 1 ELSE 0)
  BY CountStep
<1>3. line = FirstLine + LineFeeds(Base + pos)
  BY <1>1 DEF LineTrue
<1>4. Base + pos \in Nat
  OBVIOUS
<1>5. /\ LineFeeds(Base + pos) \in Nat
      /\ LineFeeds(Base + pos + 1)
           = LineFeeds(Base + pos) + (IF file[Base + pos + 1] = "lf" THEN 1 ELSE 0)
  BY <1>4, LineFeedsStep
<1>6. QED
  BY <1>1, <1>2, <1>3, <1>5

\* A step that takes a character, and sets start and start_line or neither.
LEMMA CharInv ==
  ASSUME IndInv, GetChar, CountLine(ch), TokenInv', rc' \notin {"none", "long"},
         \/ UNCHANGED <<start, start_line>>
         \/ start' = pos /\ start_line' = line' /\ ch # "lf"
         \/ start' = pos + 1 /\ start_line' = line'
  PROVE  IndInv'
<1>a. /\ TokenInv /\ TypeOK /\ Given /\ Window /\ Shown
      /\ LineTrue /\ StartLineTrue
      /\ pos \in Nat /\ start \in Nat /\ Base \in Nat
      /\ line \in Nat /\ start_line \in Nat /\ FirstLine \in Nat
  BY InvParts
<1> USE <1>a
<1>b. /\ rc = "reading" /\ pos' = pos + 1 /\ pos < Len(buf)
      /\ ch \in Char /\ ch = file[Base + pos + 1]
      /\ SubSeq(buf, start + 1, pos + 1) \in Seq(Char)
      /\ SubSeq(buf, start + 1, pos + 1) # <<>>
      /\ Base' = Base /\ file' = file /\ source' = source /\ Given' /\ Window'
      /\ buf' \in Seq(Char) /\ offset' \in 0 .. size' /\ Len(buf') = Len(buf)
  BY CharFacts
<1> USE <1>b
<1>1. line' = FirstLine + LineFeeds(Base + pos + 1)
  BY CharLine
<1>2. Base + pos \in Nat /\ Base + (pos + 1) = Base + pos + 1
  OBVIOUS
<1>3. ch # "lf" => LineFeeds(Base + pos + 1) = LineFeeds(Base + pos)
  <2>1. /\ LineFeeds(Base + pos) \in Nat
        /\ LineFeeds((Base + pos) + 1)
             = LineFeeds(Base + pos) + (IF file[(Base + pos) + 1] = "lf" THEN 1 ELSE 0)
    BY <1>2, LineFeedsStep
  <2>2. QED
    BY <2>1
<1>4. FirstLine' = FirstLine /\ LineFeeds(Base + pos)' = LineFeeds(Base' + pos')
  BY DEF FirstLine, LineFeeds
<1>5. TypeOK'
  <2>1. pos' \in 0 .. Len(buf') /\ start' \in 0 .. pos'
    BY DEF TypeOK
  <2>2. QED
    BY <2>1 DEF TypeOK, TokenInv
<1>6. LineTrue'
  BY <1>1, <1>2, <1>4 DEF LineTrue, LineFeeds
<1>7. StartLineTrue'
  <2>1. CASE UNCHANGED <<start, start_line>>
    <3>1. start_line = FirstLine + LineFeeds(Base + start)
      BY DEF StartLineTrue
    <3>2. QED
      BY <3>1, <2>1, <1>4 DEF StartLineTrue, LineFeeds
  <2>2. CASE start' = pos /\ start_line' = line' /\ ch # "lf"
    BY <2>2, <1>1, <1>3, <1>4 DEF StartLineTrue, LineFeeds
  <2>3. CASE start' = pos + 1 /\ start_line' = line'
    BY <2>3, <1>1, <1>2, <1>4 DEF StartLineTrue, LineFeeds
  <2>4. QED
    BY <2>1, <2>2, <2>3
<1>8. QED
  BY <1>5, <1>6, <1>7 DEF IndInv, TokenInv

\* What a refill does: the buffer begins where the word begins, and the word
\* and the place in it stay where they are in the file.
LEMMA RefillFacts ==
  ASSUME IndInv, Refill
  PROVE  /\ source = "file" /\ source' = source /\ file' = file
         /\ buf' \in Seq(Char) /\ Len(buf') <= CW_CONF_BUFFER
         /\ offset' \in Nat /\ offset' <= size' /\ offset' <= Len(file')
         /\ Base' = Base + start /\ Base' \in Nat
         /\ pos' = pos - start /\ start' = 0 /\ pos' \in 0 .. Len(buf')
         /\ buf' = SubSeq(file, Base' + 1, offset')
<1>a. /\ TokenInv /\ TypeOK /\ Given /\ Window /\ Shown
      /\ LineTrue /\ StartLineTrue
      /\ pos \in Nat /\ start \in Nat /\ Base \in Nat
      /\ line \in Nat /\ start_line \in Nat /\ FirstLine \in Nat
  BY InvParts
<1> USE <1>a
<1> USE ConfTokenAssumption
<1>1. pos = Len(buf) /\ start <= pos /\ len = pos - start /\ len \in 0 .. pos
  BY UsedUpPos DEF Refill, len
<1>2. /\ source = "file" /\ source' = source /\ file' = file /\ size' = size
      /\ file \in Seq(Char) /\ buf \in Seq(Char) /\ size \in Nat /\ offset \in Nat
      /\ offset < size
  BY DEF Refill, Given, TypeOK, input
<1>3. Base + pos = offset /\ Len(buf) <= CW_CONF_BUFFER
  BY <1>1, <1>2 DEF Shown, Window
<1>4. len < CW_CONF_BUFFER
  BY <1>1, <1>3 DEF Refill, TooLong
<1>5. /\ Wanted \in Nat /\ len + Wanted <= CW_CONF_BUFFER /\ offset + Wanted <= size
  BY <1>1, <1>2, <1>4 DEF Wanted
<1>6. /\ offset' = offset + Wanted /\ offset + Wanted <= Len(file) /\ start' = 0
      /\ buf' = Moved \o SubSeq(file, offset + 1, offset + Wanted) /\ pos' = Len(Moved)
  BY DEF Refill
<1>7. Moved = SubSeq(file, (Base + start) + 1, offset) /\ Len(Moved) = len
  <2>1. SubSeq(buf, start + 1, pos) = SubSeq(file, (Base + start) + 1, Base + pos)
    BY <1>1, PartShown
  <2>2. Len(SubSeq(buf, start + 1, pos)) = pos - start
    BY <1>1, <1>2, Part
  <2>3. QED
    BY <2>1, <2>2, <1>1, <1>3 DEF Moved
<1>8. /\ Base + start \in Nat /\ Base + start <= offset /\ offset + Wanted \in Nat
      /\ Len(file) \in Nat
  BY <1>1, <1>2, <1>3, <1>5
<1>9. buf' = SubSeq(file, (Base + start) + 1, offset + Wanted)
  <2>1. /\ (Base + start) + 1 \in 1 .. Len(file) + 1
        /\ offset \in ((Base + start) + 1) - 1 .. Len(file)
        /\ offset + Wanted \in offset .. Len(file)
    BY <1>2, <1>5, <1>6, <1>8
  <2>2. SubSeq(file, (Base + start) + 1, offset) \o SubSeq(file, offset + 1, offset + Wanted)
          = SubSeq(file, (Base + start) + 1, offset + Wanted)
    BY <2>1, <1>2, ConcatAdjacentSubSeq
  <2>3. QED
    BY <2>2, <1>6, <1>7
<1>10. buf' \in Seq(Char) /\ Len(buf') = (offset + Wanted) - (Base + start)
  <2>1. Base + start <= offset + Wanted
    BY <1>5, <1>8, <1>2
  <2>2. /\ SubSeq(file, (Base + start) + 1, offset + Wanted) \in Seq(Char)
        /\ Len(SubSeq(file, (Base + start) + 1, offset + Wanted))
             = (offset + Wanted) - (Base + start)
    BY <2>1, <1>2, <1>6, <1>8, Part
  <2>3. QED
    BY <2>2, <1>9
<1>11. (offset + Wanted) - (Base + start) = len + Wanted
  BY <1>1, <1>2, <1>3, <1>5
<1>12. Base' = Base + start
  <2>1. Base' = offset' - Len(buf')
    BY <1>2 DEF Base
  <2>2. \A x, y \in Nat : x - (x - y) = y
    OBVIOUS
  <2>3. offset' - Len(buf') = Base + start
    <3>1. (offset + Wanted) - ((offset + Wanted) - (Base + start)) = Base + start
      BY <2>2, <1>8, Zenon
    <3>2. offset' = offset + Wanted /\ Len(buf') = (offset + Wanted) - (Base + start)
      BY <1>6, <1>10, Zenon
    <3>3. QED
      BY <3>1, <3>2, Zenon
  <2>4. QED
    BY <2>1, <2>3, Zenon
<1>13. offset' \in Nat /\ offset' <= size' /\ offset' <= Len(file')
  BY <1>2, <1>5, <1>6, <1>8, Zenon
<1>14. Len(buf') = len + Wanted
  BY <1>10, <1>11, Zenon
<1>15. Len(buf') <= CW_CONF_BUFFER
  BY <1>14, <1>5, Zenon
<1>16. pos' = pos - start /\ pos' = len
  BY <1>1, <1>6, <1>7, Zenon
<1>17. pos' \in 0 .. Len(buf')
  <2>1. len \in 0 .. len + Wanted
    BY <1>1, <1>5
  <2>2. QED
    BY <2>1, <1>14, <1>16, Zenon
<1>18. buf' = SubSeq(file, Base' + 1, offset')
  BY <1>6, <1>9, <1>12, Zenon
<1>19. QED
  BY <1>2, <1>6, <1>8, <1>10, <1>12, <1>13, <1>15, <1>16, <1>17, <1>18, Zenon

\* So it keeps the invariant.
LEMMA RefillInv ==
  ASSUME IndInv, Refill
  PROVE  IndInv'
<1>a. /\ TokenInv /\ TypeOK /\ Given /\ Window /\ Shown
      /\ LineTrue /\ StartLineTrue
      /\ pos \in Nat /\ start \in Nat /\ Base \in Nat
      /\ line \in Nat /\ start_line \in Nat /\ FirstLine \in Nat
  BY InvParts
<1> USE <1>a
<1>b. /\ source = "file" /\ source' = source /\ file' = file
      /\ buf' \in Seq(Char) /\ Len(buf') <= CW_CONF_BUFFER
      /\ offset' \in Nat /\ offset' <= size' /\ offset' <= Len(file')
      /\ Base' = Base + start /\ Base' \in Nat
      /\ pos' = pos - start /\ start' = 0 /\ pos' \in 0 .. Len(buf')
      /\ buf' = SubSeq(file, Base' + 1, offset')
  BY RefillFacts
<1> USE <1>b
<1>1. UNCHANGED <<line, start_line, mode, args, rc, out, sharp_comment, quoted, variable>>
      /\ size' = size /\ rc = "reading"
  BY DEF Refill, token, scanning, input, UsedUp
<1>2. TypeOK'
  <2>1. TokenTypeOK'
    BY <1>1 DEF TypeOK, TokenTypeOK
  <2>2. offset' \in 0 .. size' /\ pos' \in 0 .. Len(buf') /\ start' \in 0 .. pos'
    <3>1. size' \in Nat /\ offset' \in Nat /\ offset' <= size'
      BY <1>1 DEF Given
    <3>2. offset' \in 0 .. size'
      BY <3>1
    <3>3. start' \in 0 .. pos'
      OBVIOUS
    <3>4. QED
      BY <3>2, <3>3
  <2>3. QED
    BY <2>1, <2>2 DEF TypeOK
<1>3. Given'
  BY <1>1 DEF Given
<1>4. Window'
  BY DEF Window
<1>5. Base' + pos' = Base + pos /\ Base' + start' = Base + start
  BY DEF TypeOK
<1>6. FirstLine' = FirstLine
  BY DEF FirstLine
<1>7. LineTrue'
  BY <1>1, <1>5, <1>6 DEF LineTrue, LineFeeds
<1>8. StartLineTrue'
  BY <1>1, <1>5, <1>6 DEF StartLineTrue, LineFeeds
<1>9. NeedBehindWord' /\ NeverEmpty'
  BY <1>1 DEF TokenInv, NeedBehindWord, NeverEmpty
<1>10. QED
  BY <1>2, <1>3, <1>4, <1>7, <1>8, <1>9 DEF IndInv

\* Every step keeps the invariant.
LEMMA NextInv == IndInv /\ [Next]_vars => IndInv'
<1> SUFFICES ASSUME IndInv, [Next]_vars
             PROVE  IndInv'
  OBVIOUS
<1>a. /\ TokenInv /\ TypeOK /\ Given /\ Window /\ Shown
      /\ LineTrue /\ StartLineTrue
      /\ pos \in Nat /\ start \in Nat /\ Base \in Nat
      /\ line \in Nat /\ start_line \in Nat /\ FirstLine \in Nat
  BY InvParts
<1> USE <1>a
<1>1. CASE ReadToken
  <2>1. Begin /\ start' = pos /\ UNCHANGED <<input, window, pos>>
    BY <1>1 DEF ReadToken
  <2>2. /\ TokenInv' /\ UNCHANGED line /\ start_line' = line
        /\ rc' = "reading" /\ rc # "long"
    BY <2>1, BeginStep
  <2>3. QED
    BY <2>1, <2>2, StillInv
<1>2. CASE EndOfFile
  <2> DEFINE r == IF args # <<>> \/ mode # "space" THEN "syntax" ELSE "file_done"
  <2>1. Stops(r) /\ rc = "reading" /\ UNCHANGED <<input, window, pos, start>>
    BY <1>2 DEF EndOfFile, UsedUp, AtEnd
  <2>2. r \in {"syntax", "file_done", "read"}
    OBVIOUS
  <2> HIDE DEF r
  <2>3. TokenInv' /\ UNCHANGED <<line, start_line>> /\ rc' = r
    BY <2>1, <2>2, StopsStep
  <2>4. QED
    BY <2>1, <2>2, <2>3, StillInv
<1>3. CASE LongParameter
  <2>1. TooLarge /\ rc = "reading" /\ UNCHANGED <<input, window, pos, start>>
    BY <1>3 DEF LongParameter, UsedUp
  <2>2. TokenInv' /\ line' = start_line /\ UNCHANGED start_line /\ rc' = "long"
    BY <2>1, TooLargeStep
  <2>3. QED
    BY <2>1, <2>2, StillInv
<1>4. CASE Refill
  BY <1>4, RefillInv
<1>5. CASE ReadFails
  <2>1. Stops("read") /\ rc = "reading" /\ UNCHANGED <<input, window, pos, start>>
    BY <1>5 DEF ReadFails, UsedUp
  <2>2. TokenInv' /\ UNCHANGED <<line, start_line>> /\ rc' = "read"
    BY <2>1, StopsStep
  <2>3. QED
    BY <2>1, <2>2, StillInv
<1>6. CASE Scan
  <2>1. GetChar /\ Stays(ch, SubSeq(buf, start + 1, pos + 1)) /\ UNCHANGED start
    BY <1>6 DEF Scan
  <2>2. /\ TokenInv' /\ CountLine(ch) /\ UNCHANGED start_line /\ rc' \notin {"none", "long"}
    BY <2>1, CharFacts, StaysStep
  <2>3. QED
    BY <2>1, <2>2, CharInv
<1>7. CASE ScanStart
  <2>1. GetChar /\ Starts(ch) /\ start' = pos
    BY <1>7 DEF ScanStart
  <2>2. /\ TokenInv' /\ CountLine(ch) /\ start_line' = line' /\ ch # "lf"
        /\ rc' \notin {"none", "long"}
    BY <2>1, CharFacts, StartsStep
  <2>3. QED
    BY <2>1, <2>2, CharInv
<1>8. CASE ScanQuote
  <2>1. GetChar /\ StartsBehind(ch) /\ start' = pos + 1
    BY <1>8 DEF ScanQuote
  <2>2. TokenInv' /\ CountLine(ch) /\ start_line' = line' /\ rc' \notin {"none", "long"}
    BY <2>1, CharFacts, StartsBehindStep
  <2>3. QED
    BY <2>1, <2>2, CharInv
<1>9. CASE ScanNoSpace
  <2>1. GetChar /\ NoMemory(ch) /\ UNCHANGED start
    BY <1>9 DEF ScanNoSpace
  <2>2. TokenInv' /\ CountLine(ch) /\ UNCHANGED start_line /\ rc' \notin {"none", "long"}
    BY <2>1, CharFacts, NoMemoryStep
  <2>3. QED
    BY <2>1, <2>2, CharInv
<1>10. CASE UNCHANGED vars
  <2>1. /\ UNCHANGED <<source, file, size, offset, buf, pos, start, line, start_line>>
        /\ UNCHANGED <<mode, sharp_comment, quoted, variable, args, rc, out>>
    BY <1>10 DEF vars, input, window, token, scanning
  <2>2. Base' = Base /\ FirstLine' = FirstLine
    BY <2>1 DEF Base, FirstLine
  <2>3. TypeOK' /\ Given' /\ Window'
    BY <2>1, <2>2 DEF TypeOK, TokenTypeOK, Given, Window
  <2>4. LineTrue' /\ StartLineTrue'
    BY <2>1, <2>2 DEF LineTrue, StartLineTrue, LineFeeds
  <2>5. NeedBehindWord' /\ NeverEmpty'
    BY <2>1 DEF TokenInv, NeedBehindWord, NeverEmpty
  <2>6. QED
    BY <2>3, <2>4, <2>5 DEF IndInv
<1>11. QED
  BY <1>1, <1>2, <1>3, <1>4, <1>5, <1>6, <1>7, <1>8, <1>9, <1>10 DEF Next, Progress

\* The inductive invariant holds: cw_conf_read_token, with any file and any
\* size of the buffer.
THEOREM Invariance == Spec => []IndInv
<1>1. QED
  BY InitInv, NextInv, PTL DEF Spec

\* The pointers into the buffer keep their order and the variables their types.
THEOREM TypeCorrect == Spec => []TypeOK
<1>1. IndInv => TypeOK
  BY DEF IndInv
<1>2. QED
  BY <1>1, Invariance, PTL

\* The buffer shows the file as it is, however it is refilled.
THEOREM WindowTrue == Spec => []Window
<1>1. IndInv => Window
  BY DEF IndInv
<1>2. QED
  BY <1>1, Invariance, PTL

\* conf_file->line is the line of the file that the parser is on.
THEOREM LinesTrue == Spec => []LineTrue
<1>1. IndInv => LineTrue
  BY DEF IndInv
<1>2. QED
  BY <1>1, Invariance, PTL

\* cw_conf_handler gets no directive without a word.
THEOREM NoneEmpty == Spec => []NeverEmpty
<1>1. IndInv => NeverEmpty
  BY DEF IndInv
<1>2. QED
  BY <1>1, Invariance, PTL

----------------------------------------------------------------------------
(***************************************************************************)
(* The buffer cannot be noticed.                                           *)
(***************************************************************************)

\* The two modules mean the same by a character and by a call.
LEMMA SameCalls ==
  /\ Unbuffered!Begin <=> Begin
  /\ Unbuffered!AtEnd <=> AtEnd
  /\ Unbuffered!TooLarge <=> TooLarge
  /\ Unbuffered!Stops("read") <=> Stops("read")
  /\ \A first : Unbuffered!TokenInit(first) <=> TokenInit(first)
  /\ Unbuffered!token = token
  /\ Unbuffered!Char = Char
BY DEF Unbuffered!Begin, Begin, Unbuffered!AtEnd, AtEnd, Unbuffered!TooLarge, TooLarge,
       Unbuffered!Stops, Stops, Unbuffered!Returns, Returns, Unbuffered!TokenInit, TokenInit,
       Unbuffered!token, token, Unbuffered!scanning, scanning, Unbuffered!Char, Char

\* They copy a word alike.
LEMMA SameWord ==
  ASSUME NEW s
  PROVE  Unbuffered!Unescaped(s) = Unescaped(s)
BY DEF Unbuffered!Unescaped, Unescaped, Unbuffered!Escape, Escape

\* What a character does here it does there.
LEMMA SameChar ==
  ASSUME NEW x, NEW s
  PROVE  /\ Stays(x, s) => Unbuffered!Stays(x, s)
         /\ Starts(x) => Unbuffered!Starts(x)
         /\ StartsBehind(x) => Unbuffered!StartsBehind(x)
         /\ NoMemory(x) => Unbuffered!NoMemory(x)
<1> USE DEF Unbuffered!CountLine, CountLine, Unbuffered!Reads, Reads,
            Unbuffered!Returns, Returns, Unbuffered!Blank, Blank,
            Unbuffered!Delimited, Delimited, Unbuffered!scanning, scanning,
            Unbuffered!InWord, InWord, Unbuffered!KeepsVariable, KeepsVariable,
            Unbuffered!EndsWord, EndsWord
<1>1. SkipComment(x) => Unbuffered!SkipComment(x)
  BY DEF SkipComment, Unbuffered!SkipComment
<1>2. SkipQuoted(x) => Unbuffered!SkipQuoted(x)
  BY DEF SkipQuoted, Unbuffered!SkipQuoted
<1>3. AfterQuote(x) => Unbuffered!AfterQuote(x)
  BY DEF AfterQuote, Unbuffered!AfterQuote
<1>4. SkipBlank(x) => Unbuffered!SkipBlank(x)
  BY DEF SkipBlank, Unbuffered!SkipBlank
<1>5. InsideWord(x) => Unbuffered!InsideWord(x)
  BY DEF InsideWord, Unbuffered!InsideWord
<1>6. EndWord(x, s) => Unbuffered!EndWord(x, s)
  BY SameWord DEF EndWord, Unbuffered!EndWord
<1>7. Starts(x) => Unbuffered!Starts(x)
  BY DEF Starts, Delimiter, BlockDone, Comment, BeginWord, MayBegin,
         Unbuffered!Starts, Unbuffered!Delimiter, Unbuffered!BlockDone,
         Unbuffered!Comment, Unbuffered!BeginWord, Unbuffered!MayBegin
<1>8. StartsBehind(x) => Unbuffered!StartsBehind(x)
  BY DEF StartsBehind, BeginQuoted, Unbuffered!StartsBehind, Unbuffered!BeginQuoted
<1>9. NoMemory(x) => Unbuffered!NoMemory(x)
  BY DEF NoMemory, Unbuffered!NoMemory
<1>10. QED
  BY <1>1, <1>2, <1>3, <1>4, <1>5, <1>6, <1>7, <1>8, <1>9 DEF Stays, Unbuffered!Stays

\* The first states.
LEMMA InitScans == Init => Unbuffered!Init
<1> SUFFICES ASSUME Init
             PROVE  Unbuffered!Init
  OBVIOUS
<1>1. IndInv
  BY InitInv
<1>2. source \in {"file", "param"} /\ file \in Seq(Char) /\ Base \in Nat
  BY <1>1, InvParts DEF Given
<1>3. pos = 0 /\ start = 0 /\ offset = 0
  BY DEF Init
<1>4. TokenInit(IF source = "file" THEN 1 ELSE 0)
  BY DEF Init
<1>5. Base = 0
  <2>1. CASE source = "param"
    BY <2>1 DEF Base
  <2>2. CASE source = "file"
    <3>1. Base = 0 - Len(buf)
      BY <2>2, <1>3 DEF Base
    <3>2. Len(buf) \in Nat
      BY <1>1, InvParts DEF TypeOK
    <3>3. QED
      BY <3>1, <3>2, <1>2
  <2>3. QED
    BY <2>1, <2>2, <1>2
<1>6. Base + pos = 0 /\ Base + start = 0
  BY <1>3, <1>5
<1>7. Unbuffered!TokenInit(IF source = "file" THEN 1 ELSE 0) /\ file \in Seq(Unbuffered!Char)
  BY <1>2, <1>4, SameCalls
<1>8. QED
  BY <1>2, <1>6, <1>7 DEF Unbuffered!Init

\* Where the parser is in the file, if fstat does not fail: a buffer that is
\* used up ends where the file ends exactly if nothing is left to be read.
LEMMA Place ==
  ASSUME IndInv, UsedUp, StatFails = FALSE
  PROVE  /\ offset >= size => Base + pos = Len(file)
         /\ offset < size => source = "file" /\ Base + pos < Len(file)
         /\ (Base + pos) - (Base + start) = len
<1>1. /\ Given /\ Shown /\ Base \in Nat /\ pos \in Nat /\ start \in Nat
      /\ TypeOK
  BY InvParts
<1>2. pos = Len(buf) /\ len = pos - start
  BY <1>1, UsedUpPos DEF len
<1>3. (Base + pos) - (Base + start) = len
  BY <1>1, <1>2
<1>4. CASE source = "param"
  BY <1>1, <1>2, <1>3, <1>4 DEF Given, Shown, Base
<1>5. CASE source = "file"
  <2>1. Base + pos = offset /\ size = Len(file) /\ offset <= Len(file)
        /\ offset \in Nat /\ size \in Nat
    BY <1>1, <1>2, <1>5 DEF Given, Shown, TypeOK
  <2>2. QED
    BY <2>1, <1>3, <1>5
<1>6. QED
  BY <1>1, <1>4, <1>5 DEF Given

\* A character that is taken from the buffer is one that the parser without
\* a buffer takes.
LEMMA CharScans ==
  ASSUME IndInv, GetChar,
         \/ /\ Stays(ch, SubSeq(buf, start + 1, pos + 1)) \/ NoMemory(ch)
            /\ UNCHANGED start
         \/ Starts(ch) /\ start' = pos
         \/ StartsBehind(ch) /\ start' = pos + 1
  PROVE  Unbuffered!Take
<1>1. /\ TypeOK /\ Given /\ Window /\ Shown
      /\ pos \in Nat /\ start \in Nat /\ Base \in Nat
  BY InvParts
<1>2. /\ rc = "reading" /\ pos' = pos + 1 /\ pos < Len(buf)
      /\ ch = file[Base + pos + 1]
      /\ Base' = Base /\ file' = file /\ source' = source
  BY CharFacts
<1>3. start <= pos /\ Len(buf) \in Nat /\ Base + Len(buf) <= Len(file) /\ Len(file) \in Nat
  BY <1>1 DEF TypeOK, Shown, Given
<1>4. Base + pos < Len(file) /\ Base' + pos' = (Base + pos) + 1
  BY <1>1, <1>2, <1>3
<1>5. ~(source = "file" /\ (Base + pos) - (Base + start) = CW_CONF_BUFFER)
  <2>1. source = "file" => Len(buf) <= CW_CONF_BUFFER
    BY <1>1 DEF Window
  <2>2. QED
    BY <2>1, <1>1, <1>2, <1>3, ConfTokenAssumption
<1>6. SubSeq(buf, start + 1, pos + 1) = SubSeq(file, (Base + start) + 1, (Base + pos) + 1)
  <2>1. SubSeq(buf, start + 1, pos + 1) = SubSeq(file, (Base + start) + 1, Base + (pos + 1))
    <3>1. start <= pos + 1 /\ pos + 1 <= Len(buf) /\ pos + 1 \in Nat
      BY <1>1, <1>2, <1>3
    <3>2. QED
      BY <3>1, <1>1, PartShown
  <2>2. Base + (pos + 1) = (Base + pos) + 1
    BY <1>1
  <2>3. QED
    BY <2>1, <2>2, Zenon
<1> DEFINE s == SubSeq(file, (Base + start) + 1, (Base + pos) + 1)
           x == file[(Base + pos) + 1]
<1>7. x = ch
  BY <1>2
<1>8. \/ (Unbuffered!Stays(x, s) \/ Unbuffered!NoMemory(x)) /\ Base' + start' = Base + start
      \/ Unbuffered!Starts(x) /\ Base' + start' = Base + pos
      \/ Unbuffered!StartsBehind(x) /\ Base' + start' = (Base + pos) + 1
  <2>1. CASE Stays(ch, SubSeq(buf, start + 1, pos + 1)) /\ UNCHANGED start
    <3>1. Stays(x, s)
      BY <2>1, <1>6, <1>7, Zenon
    <3>2. Unbuffered!Stays(x, s)
      BY <3>1, SameChar, Zenon
    <3>3. Base' + start' = Base + start
      BY <2>1, <1>2
    <3>4. QED
      BY <3>2, <3>3, Zenon
  <2>2. CASE NoMemory(ch) /\ UNCHANGED start
    <3>1. Unbuffered!NoMemory(x)
      BY <2>2, <1>7, SameChar, Zenon
    <3>2. Base' + start' = Base + start
      BY <2>2, <1>2
    <3>3. QED
      BY <3>1, <3>2, Zenon
  <2>3. CASE Starts(ch) /\ start' = pos
    <3>1. Unbuffered!Starts(x)
      BY <2>3, <1>7, SameChar, Zenon
    <3>2. Base' + start' = Base + pos
      BY <2>3, <1>2
    <3>3. QED
      BY <3>1, <3>2, Zenon
  <2>4. CASE StartsBehind(ch) /\ start' = pos + 1
    <3>1. Unbuffered!StartsBehind(x)
      BY <2>4, <1>7, SameChar, Zenon
    <3>2. Base' + start' = (Base + pos) + 1
      BY <2>4, <1>1, <1>2
    <3>3. QED
      BY <3>1, <3>2, Zenon
  <2>5. QED
    BY <2>1, <2>2, <2>3, <2>4
<1>9. QED
  BY <1>2, <1>4, <1>5, <1>8
  DEF Unbuffered!Take, Unbuffered!Full, Unbuffered!c, Unbuffered!text

\* Every step is one of the parser without a buffer, or nothing that it sees.
LEMMA StepScans ==
  ASSUME IndInv, [Next]_vars, StatFails = FALSE
  PROVE  [Unbuffered!Next]_<<Unbuffered!text, Base + pos, Base + start, Unbuffered!token>>
<1> DEFINE Seen == <<Unbuffered!text, Base + pos, Base + start, Unbuffered!token>>
<1>0. /\ TypeOK /\ Given /\ pos \in Nat /\ start \in Nat /\ Base \in Nat
  BY InvParts
<1>1. CASE ReadToken
  <2>1. Begin /\ start' = pos /\ UNCHANGED <<input, window, pos>>
    BY <1>1 DEF ReadToken
  <2>2. Base' = Base /\ file' = file /\ source' = source
    BY <2>1, Unmoved
  <2>3. Unbuffered!Ask
    BY <2>1, <2>2, SameCalls DEF Unbuffered!Ask, Unbuffered!text
  <2>4. QED
    BY <2>3 DEF Unbuffered!Next
<1>2. CASE EndOfFile
  <2>1. /\ UsedUp /\ rc = "reading" /\ offset >= size /\ AtEnd
        /\ UNCHANGED <<input, window, pos, start>>
    BY <1>2 DEF EndOfFile, UsedUp
  <2>2. Base' = Base /\ file' = file /\ source' = source
    BY <2>1, Unmoved
  <2>3. Base + pos = Len(file)
    BY <2>1, Place
  <2>4. Unbuffered!End
    BY <2>1, <2>2, <2>3, SameCalls DEF Unbuffered!End, Unbuffered!text
  <2>5. QED
    BY <2>4 DEF Unbuffered!Next
<1>3. CASE LongParameter
  <2>1. /\ UsedUp /\ rc = "reading" /\ offset < size /\ len = CW_CONF_BUFFER /\ TooLarge
        /\ UNCHANGED <<input, window, pos, start>>
    BY <1>3 DEF LongParameter, UsedUp, TooLong
  <2>2. Base' = Base /\ file' = file /\ source' = source
    BY <2>1, Unmoved
  <2>3. source = "file" /\ Base + pos < Len(file)
        /\ (Base + pos) - (Base + start) = CW_CONF_BUFFER
    BY <2>1, Place
  <2>4. Unbuffered!Refuse
    BY <2>1, <2>2, <2>3, SameCalls DEF Unbuffered!Refuse, Unbuffered!Full, Unbuffered!text
  <2>5. QED
    BY <2>4 DEF Unbuffered!Next
<1>4. CASE ReadFails
  <2>1. /\ UsedUp /\ rc = "reading" /\ offset < size /\ len # CW_CONF_BUFFER
        /\ Stops("read") /\ UNCHANGED <<input, window, pos, start>>
    BY <1>4 DEF ReadFails, UsedUp, TooLong
  <2>2. Base' = Base /\ file' = file /\ source' = source
    BY <2>1, Unmoved
  <2>3. source = "file" /\ Base + pos < Len(file)
        /\ (Base + pos) - (Base + start) # CW_CONF_BUFFER
    BY <2>1, Place
  <2>4. Unbuffered!Unreadable
    BY <2>1, <2>2, <2>3, SameCalls
    DEF Unbuffered!Unreadable, Unbuffered!Full, Unbuffered!text
  <2>5. QED
    BY <2>4 DEF Unbuffered!Next
<1>5. CASE Refill
  <2>1. /\ source' = source /\ file' = file
        /\ Base' = Base + start /\ pos' = pos - start /\ start' = 0
    BY <1>5, RefillFacts
  <2>2. Base' + pos' = Base + pos /\ Base' + start' = Base + start
    BY <2>1, <1>0
  <2>3. token' = token
    BY <1>5 DEF Refill
  <2>4. UNCHANGED <<line, start_line, mode, sharp_comment, quoted, variable, args, rc, out>>
    BY <2>3 DEF token, scanning
  <2>5. Unbuffered!token' = Unbuffered!token
    BY <2>4 DEF Unbuffered!token, Unbuffered!scanning
  <2>6. Unbuffered!text' = Unbuffered!text
    BY <2>1 DEF Unbuffered!text
  <2>7. QED
    BY <2>2, <2>5, <2>6
<1>6. CASE Scan \/ ScanStart \/ ScanQuote \/ ScanNoSpace
  <2>1. Unbuffered!Take
    BY <1>6, CharScans DEF Scan, ScanStart, ScanQuote, ScanNoSpace
  <2>2. QED
    BY <2>1 DEF Unbuffered!Next
<1>7. CASE UNCHANGED vars
  <2>1. /\ UNCHANGED <<source, file, size, offset, buf, pos, start, line, start_line>>
        /\ UNCHANGED <<mode, sharp_comment, quoted, variable, args, rc, out>>
    BY <1>7 DEF vars, input, window, token, scanning
  <2>2. Base' = Base
    BY <2>1 DEF Base
  <2>3. Unbuffered!token' = Unbuffered!token /\ Unbuffered!text' = Unbuffered!text
    BY <2>1 DEF Unbuffered!token, Unbuffered!scanning, Unbuffered!text
  <2>4. QED
    BY <2>1, <2>2, <2>3
<1>8. QED
  BY <1>1, <1>2, <1>3, <1>4, <1>5, <1>6, <1>7 DEF Next, Progress

\* If fstat does not fail, the buffered parser is the parser that has the
\* whole file before it: with every file and every size of the buffer, the
\* same directives, errors and lines.
THEOREM Refinement ==
  ASSUME StatFails = FALSE
  PROVE  Spec => AsIfUnbuffered
<1>1. Init => Unbuffered!Init
  BY InitScans
<1>2. IndInv /\ [Next]_vars
        => [Unbuffered!Next]_<<Unbuffered!text, Base + pos, Base + start, Unbuffered!token>>
  BY StepScans
<1>3. QED
  BY <1>1, <1>2, Invariance, PTL DEF Spec, AsIfUnbuffered, Unbuffered!Spec

----------------------------------------------------------------------------
(***************************************************************************)
(* The word that is spelt is the one that is copied.                      *)
(***************************************************************************)

\* Where the letters of a word are.
LEMMA LettersOrdered ==
  ASSUME NEW from \in Seq(Nat),
         \A i \in 1 .. Len(from) - 1 : from[i + 1] = from[i] + 1 \/ from[i + 1] = from[i] + 2
  PROVE  \A i, j \in 1 .. Len(from) : i <= j => from[i] <= from[j]
<1>0. PICK total \in Nat : total = Len(from)
  OBVIOUS
<1>a. /\ \A i \in 1 .. total : from[i] \in Nat
      /\ \A i \in 1 .. total - 1 : from[i + 1] = from[i] + 1 \/ from[i + 1] = from[i] + 2
  BY <1>0
<1> DEFINE S == {m \in Nat : \A i \in 1 .. total :
                   i + m \in 1 .. total => from[i] <= from[i + m]}
<1>1. 0 \in S
  BY <1>a
<1>2. ASSUME NEW m \in Nat, m \in S
      PROVE  m + 1 \in S
  <2>1. SUFFICES ASSUME NEW i \in 1 .. total, i + (m + 1) \in 1 .. total
                 PROVE  from[i] <= from[i + (m + 1)]
    OBVIOUS
  <2>2. i + m \in 1 .. total /\ i + m \in 1 .. total - 1 /\ i + (m + 1) = (i + m) + 1
    BY <2>1
  <2>3. from[i] <= from[i + m] /\ from[i] \in Nat /\ from[i + m] \in Nat
    BY <1>2, <2>2, <1>a
  <2>4. from[(i + m) + 1] = from[i + m] + 1 \/ from[(i + m) + 1] = from[i + m] + 2
    BY <2>2, <1>a
  <2>5. from[i] <= from[(i + m) + 1]
    BY <2>3, <2>4
  <2>6. QED
    BY <2>2, <2>5
<1>3. \A m \in Nat : m \in S
  <2> HIDE DEF S
  <2>1. QED
    BY <1>1, <1>2, SetInduction, Zenon
<1>4. ASSUME NEW i \in 1 .. total, NEW j \in 1 .. total, i <= j
      PROVE  from[i] <= from[j]
  <2>1. j - i \in Nat /\ i + (j - i) = j
    BY <1>4
  <2>2. j - i \in S
    BY <2>1, <1>3, Zenon
  <2>3. QED
    BY <2>1, <2>2
<1>5. QED
  BY <1>0, <1>4

\* s spells letter v at k, up to next.
SpellsAt(s, v, k, next) ==
  \/ next = k + 1 /\ s[k] = v /\ v # "bs"
  \/ next = k + 2 /\ s[k] = "bs" /\ s[k + 1] \in DOMAIN Escape /\ v = Escape[s[k + 1]]

\* What is left of a sequence begins with its first element.
LEMMA SubSeqSplit ==
  ASSUME NEW v \in Seq(Char), NEW i \in 1 .. Len(v)
  PROVE  SubSeq(v, i, Len(v)) = <<v[i]>> \o SubSeq(v, i + 1, Len(v))
<1>1. PICK n \in Nat : n = Len(v)
  OBVIOUS
<1>2. PICK m \in Nat : i = m + 1 /\ m + 1 <= n
  <2>1. i - 1 \in Nat /\ i = (i - 1) + 1 /\ (i - 1) + 1 <= n
    BY <1>1
  <2>2. QED
    BY <2>1
<1> DEFINE a == SubSeq(v, m + 1, n)
           r == SubSeq(v, (m + 1) + 1, n)
           c == <<v[m + 1]>> \o r
<1>3. a \in Seq(Char) /\ Len(a) = n - m /\ \A k \in 1 .. n - m : a[k] = v[m + k]
  BY <1>1, <1>2, Part
<1>4. /\ r \in Seq(Char) /\ Len(r) = n - (m + 1)
      /\ \A k \in 1 .. n - (m + 1) : r[k] = v[(m + 1) + k]
  BY <1>1, <1>2, Part
<1>5. v[m + 1] \in Char
  BY <1>2
<1> HIDE DEF a, r
<1>6. c \in Seq(Char) /\ Len(c) = n - m /\ \A k \in 1 .. n - m : c[k] = v[m + k]
  <2>1. <<v[m + 1]>> \in Seq(Char) /\ Len(<<v[m + 1]>>) = 1 /\ <<v[m + 1]>>[1] = v[m + 1]
    BY <1>5
  <2>2. /\ c \in Seq(Char) /\ Len(c) = 1 + Len(r) /\ c[1] = v[m + 1]
        /\ \A k \in 1 .. Len(r) : c[1 + k] = r[k]
    BY <2>1, <1>4, ConcatProperties
  <2> HIDE DEF c
  <2>3. Len(c) = n - m
    BY <2>2, <1>2, <1>4
  <2>4. ASSUME NEW k \in 1 .. n - m
        PROVE  c[k] = v[m + k]
    <3>1. CASE k = 1
      BY <3>1, <2>2
    <3>2. CASE k # 1
      <4>1. k - 1 \in 1 .. Len(r) /\ 1 + (k - 1) = k /\ (m + 1) + (k - 1) = m + k
        BY <3>2, <1>2, <1>4
      <4>2. c[1 + (k - 1)] = r[k - 1] /\ r[k - 1] = v[(m + 1) + (k - 1)]
        BY <4>1, <2>2, <1>4
      <4>3. QED
        BY <4>1, <4>2, Zenon
    <3>3. QED
      BY <3>1, <3>2
  <2>5. QED
    BY <2>2, <2>3, <2>4
<1> HIDE DEF c
<1>7. a = c
  BY <1>3, <1>6, SeqEqual
<1>8. QED
  BY <1>1, <1>2, <1>7 DEF a, c, r

\* The word that is copied is the one that is spelt.
LEMMA CopiesSpelt ==
  ASSUME NEW s \in Seq(Char), s # <<>>, NEW v \in Seq(Char), NEW from \in Seq(Nat), NEW b \in Nat,
         Len(from) = Len(v) + 1, from[1] = b + 1, from[Len(from)] = b + Len(s),
         \A i \in 1 .. Len(v) : SpellsAt(s, v[i], from[i] - b, from[i + 1] - b)
  PROVE  Unescaped(s) = v
<1>1. PICK f : Unescaped(s) = f[1] /\ \A k \in 1 .. Len(s) + 1 : CopiedFrom(s, f, k)
  BY UnescapedCopies, Zenon
<1>a. PICK n \in Nat : n = Len(v)
  OBVIOUS
<1>2. /\ Len(s) \in Nat /\ Len(from) = n + 1 /\ \A i \in 1 .. n + 1 : from[i] \in Nat
      /\ \A i \in 1 .. n : SpellsAt(s, v[i], from[i] - b, from[i + 1] - b)
  BY <1>a
<1>3. \A i \in 1 .. n : from[i + 1] = from[i] + 1 \/ from[i + 1] = from[i] + 2
  <2>1. SUFFICES ASSUME NEW i \in 1 .. n
                 PROVE  from[i + 1] = from[i] + 1 \/ from[i + 1] = from[i] + 2
    OBVIOUS
  <2>2. i \in 1 .. n + 1 /\ i + 1 \in 1 .. n + 1
    OBVIOUS
  <2>3. from[i] \in Nat /\ from[i + 1] \in Nat
    BY <2>2, <1>2
  <2>4. from[i + 1] - b = (from[i] - b) + 1 \/ from[i + 1] - b = (from[i] - b) + 2
    BY <1>2, Zenon DEF SpellsAt
  <2>5. PICK k \in Nat, next \in Nat : k = from[i] /\ next = from[i + 1]
    BY <2>3
  <2>6. next - b = (k - b) + 1 \/ next - b = (k - b) + 2
    BY <2>4, <2>5, Zenon
  <2>7. next = k + 1 \/ next = k + 2
    BY <2>6
  <2>8. QED
    BY <2>5, <2>7, Zenon
<1>4. \A i, j \in 1 .. n + 1 : i <= j => from[i] <= from[j]
  <2>1. \A i \in 1 .. Len(from) - 1 : i \in 1 .. n
    BY <1>2
  <2>2. \A i, j \in 1 .. Len(from) : i <= j => from[i] <= from[j]
    BY <2>1, <1>3, LettersOrdered
  <2>3. QED
    BY <2>2, <1>2, Zenon
<1>5. \A i \in 1 .. n + 1 : from[i] - b \in 1 .. Len(s)
  <2>1. SUFFICES ASSUME NEW i \in 1 .. n + 1
                 PROVE  from[i] - b \in 1 .. Len(s)
    OBVIOUS
  <2>2. 1 \in 1 .. n + 1 /\ n + 1 \in 1 .. n + 1 /\ 1 <= i /\ i <= n + 1
    BY <1>2
  <2>3. from[1] <= from[i] /\ from[i] <= from[n + 1] /\ from[i] \in Nat
    BY <2>2, <1>2, <1>4
  <2>4. QED
    BY <2>3, <1>2
<1> DEFINE S == {m \in Nat : m <= n => f[from[n + 1 - m] - b] = SubSeq(v, n + 1 - m, n)}
<1>6. 0 \in S
  <2>1. from[n + 1] - b = Len(s) /\ n + 1 - 0 = n + 1
    <3>1. from[n + 1] = b + Len(s) /\ Len(s) \in Nat
      BY <1>2, Zenon
    <3>2. QED
      BY <3>1
  <2>2. Len(s) \in 1 .. Len(s) + 1 /\ Len(s) > Len(s) - 1
    BY <1>2
  <2>3. f[Len(s)] = <<>>
    BY <2>2, <1>1, Zenon DEF CopiedFrom
  <2>4. SubSeq(v, n + 1, n) = <<>>
    BY <1>2
  <2>5. QED
    BY <2>1, <2>3, <2>4
<1>7. ASSUME NEW m \in Nat, m \in S
      PROVE  m + 1 \in S
  <2>1. SUFFICES ASSUME m + 1 <= n
                 PROVE  f[from[n + 1 - (m + 1)] - b] = SubSeq(v, n + 1 - (m + 1), n)
    OBVIOUS
  <2>2. PICK i \in 1 .. n : i = n - m
    BY <2>1, <1>2
  <2>3. n + 1 - (m + 1) = i /\ n + 1 - m = i + 1 /\ i \in 1 .. n + 1 /\ i + 1 \in 1 .. n + 1
    BY <2>1, <2>2, <1>2
  <2>4. f[from[i + 1] - b] = SubSeq(v, i + 1, n)
    <3>1. m <= n
      BY <2>1
    <3>2. f[from[n + 1 - m] - b] = SubSeq(v, n + 1 - m, n)
      BY <3>1, <1>7, Zenon
    <3>3. QED
      BY <3>2, <2>3, Zenon
  <2>5. PICK k \in 1 .. Len(s) : k = from[i] - b
    BY <2>3, <1>5
  <2>6. PICK next \in 1 .. Len(s) : next = from[i + 1] - b
    BY <2>3, <1>5
  <2>7. SpellsAt(s, v[i], k, next)
    BY <2>2, <2>5, <2>6, <1>2, Zenon
  <2>8. k < next
    BY <2>7 DEF SpellsAt
  <2>9. ~(k > Len(s) - 1) /\ k \in 1 .. Len(s) + 1
    <3>1. Len(s) \in Nat
      BY <1>2
    <3>2. QED
      BY <2>8, <3>1
  <2>10. f[k] = IF s[k] = "bs" /\ s[k + 1] \in DOMAIN Escape
                  THEN <<Escape[s[k + 1]]>> \o f[k + 2] ELSE <<s[k]>> \o f[k + 1]
    BY <2>9, <1>1, Zenon DEF CopiedFrom
  <2>11. f[k] = <<v[i]>> \o f[next]
    <3>1. CASE next = k + 1 /\ s[k] = v[i] /\ v[i] # "bs"
      BY <3>1, <2>10, Zenon
    <3>2. CASE /\ next = k + 2 /\ s[k] = "bs" /\ s[k + 1] \in DOMAIN Escape
               /\ v[i] = Escape[s[k + 1]]
      BY <3>2, <2>10, Zenon
    <3>3. QED
      BY <3>1, <3>2, <2>7 DEF SpellsAt
  <2>12. SubSeq(v, i, n) = <<v[i]>> \o SubSeq(v, i + 1, n)
    BY <1>a, SubSeqSplit
  <2>13. QED
    BY <2>3, <2>4, <2>5, <2>6, <2>11, <2>12, Zenon
<1>8. \A m \in Nat : m \in S
  <2> HIDE DEF S
  <2>1. QED
    BY <1>6, <1>7, SetInduction, Zenon
<1>9. n \in S /\ n + 1 - n = 1 /\ from[1] - b = 1 /\ n <= n
  <2>1. n \in S
    BY <1>2, <1>8, Zenon
  <2>2. QED
    BY <2>1, <1>2
<1>10. f[1] = SubSeq(v, 1, n)
  BY <1>9
<1>11. SubSeq(v, 1, n) = v
  BY <1>a
<1>12. QED
  BY <1>1, <1>10, <1>11, Zenon

----------------------------------------------------------------------------
(***************************************************************************)
(* What a character does in each place that it may be in.                  *)
(***************************************************************************)

\* The parser takes character c; s: the characters from the beginning of the
\* word to c.
TakesChar(c, s) ==
  \/ (Stays(c, s) \/ NoMemory(c)) /\ WordAt' = WordAt
  \/ Starts(c) /\ WordAt' = At
  \/ StartsBehind(c) /\ WordAt' = At + 1

Flags == sharp_comment \in BOOLEAN /\ quoted \in BOOLEAN /\ variable \in BOOLEAN
Plain == ~sharp_comment /\ ~quoted

\* The call goes on.
GoesOn == UNCHANGED <<rc, out>>

\* It returns the directive with what it has for words.
Gives(r) == rc' = r /\ out' = Append(out, [rc |-> r, args |-> args'])

\* In a comment.
LEMMA InComment ==
  ASSUME Flags, NEW c, NEW s, TakesChar(c, s), sharp_comment
  PROVE  sharp_comment' = (c # "lf") /\ UNCHANGED <<mode, quoted, variable, args>> /\ GoesOn
BY DEF Flags, TakesChar, Stays, Starts, StartsBehind, NoMemory, SkipComment, SkipQuoted, AfterQuote,
       SkipBlank, InsideWord, EndWord, Delimiter, BlockDone, Comment, BeginWord, BeginQuoted, Reads,
       GoesOn

\* Behind a backslash.
LEMMA BehindBackslash ==
  ASSUME Flags, NEW c, NEW s, TakesChar(c, s), ~sharp_comment, quoted
  PROVE  /\ quoted' = FALSE /\ UNCHANGED <<mode, sharp_comment, variable, args>> /\ GoesOn
         /\ WordAt' = WordAt
BY DEF Flags, TakesChar, Stays, Starts, StartsBehind, NoMemory, SkipComment, SkipQuoted, AfterQuote,
       SkipBlank, InsideWord, EndWord, Delimiter, BlockDone, Comment, BeginWord, BeginQuoted, Reads,
       GoesOn

\* Outside of words.
LEMMA InSpace ==
  ASSUME Flags, NEW c, NEW s, TakesChar(c, s), Plain, mode = "space"
  PROVE  SkipBlank(c) \/ ((Starts(c) /\ WordAt' = At) \/ (StartsBehind(c) /\ WordAt' = At + 1))
BY DEF Flags, Plain, TakesChar, Stays, NoMemory, SkipComment, SkipQuoted, AfterQuote,
       InsideWord, EndWord, InWord

\* A blank there.
LEMMA BlankInSpace ==
  ASSUME Flags, NEW c, NEW s, TakesChar(c, s), Plain, mode = "space", c \in Blank
  PROVE  UNCHANGED <<mode, sharp_comment, quoted, variable, args>> /\ GoesOn
<1>1. SkipBlank(c)
  BY InSpace DEF Starts, StartsBehind, Delimiter, BlockDone, Comment, BeginWord, BeginQuoted, Blank
<1>2. QED
  BY <1>1 DEF SkipBlank, GoesOn, scanning

\* A comment begins.
LEMMA SharpInSpace ==
  ASSUME Flags, NEW c, NEW s, TakesChar(c, s), Plain, mode = "space", c = "#"
  PROVE  sharp_comment' = TRUE /\ UNCHANGED <<mode, quoted, variable, args>> /\ GoesOn
<1>0. SkipBlank(c) \/ Starts(c) \/ StartsBehind(c)
  BY InSpace, Zenon
<1>1. Comment(c)
  BY <1>0 DEF Starts, StartsBehind, Delimiter, BlockDone, SkipBlank, BeginWord, BeginQuoted, Blank
<1>2. QED
  BY <1>1 DEF Comment, GoesOn

\* A word begins.
LEMMA WordInSpace ==
  ASSUME Flags, NEW c, NEW s, TakesChar(c, s), Plain, mode = "space",
         c \notin Blank \cup {";", "{", "}", "#", "dq", "sq"}
  PROVE  /\ mode' = "word" /\ quoted' = (c = "bs") /\ WordAt' = At
         /\ UNCHANGED <<sharp_comment, variable, args>> /\ GoesOn
<1>1. BeginWord(c) /\ WordAt' = At
  BY InSpace DEF Starts, StartsBehind, Delimiter, BlockDone, Comment, SkipBlank, BeginQuoted, Blank
<1>2. QED
  BY <1>1 DEF BeginWord, GoesOn

\* A quoted word begins.
LEMMA QuoteInSpace ==
  ASSUME Flags, NEW c, NEW s, TakesChar(c, s), Plain, mode = "space", c \in {"dq", "sq"}
  PROVE  /\ mode' = c /\ WordAt' = At + 1
         /\ UNCHANGED <<sharp_comment, quoted, variable, args>> /\ GoesOn
<1>1. BeginQuoted(c) /\ WordAt' = At + 1
  BY InSpace DEF Starts, StartsBehind, Delimiter, BlockDone, Comment, SkipBlank, BeginWord, Blank
<1>2. QED
  BY <1>1 DEF BeginQuoted, GoesOn

\* A directive ends.
LEMMA EndInSpace ==
  ASSUME Flags, NEW c, NEW s, TakesChar(c, s), Plain, mode = "space", c \in DOMAIN Delimiters,
         c = "}" <=> args = <<>>
  PROVE  Gives(Delimiters[c]) /\ args' = args
<1>1. DOMAIN Delimiters = {";", "{", "}"}
  BY DEF Delimiters
<1>2. /\ c = ";" => Delimiters[c] = "ok"
      /\ c = "{" => Delimiters[c] = "block"
      /\ c = "}" => Delimiters[c] = "block_done"
  BY DEF Delimiters
<1>3. Delimiter(c) \/ BlockDone(c)
  BY <1>1, InSpace DEF Starts, StartsBehind, Comment, SkipBlank, BeginWord, BeginQuoted, Blank
<1>4. CASE c = "}"
  <2>1. BlockDone(c)
    BY <1>3, <1>4 DEF Delimiter
  <2>2. QED
    BY <2>1, <1>2, <1>4 DEF BlockDone, Returns, Gives
<1>5. CASE c # "}"
  <2>1. Delimiter(c)
    BY <1>3, <1>5 DEF BlockDone
  <2>2. Returns(Delimited(c)) /\ args' = args
    BY <2>1, <1>5 DEF Delimiter
  <2>3. Delimited(c) = Delimiters[c] /\ Delimited(c) \in {"ok", "block"}
    BY <1>1, <1>2, <1>5 DEF Delimited
  <2>4. QED
    BY <2>2, <2>3 DEF Returns, Gives
<1>6. QED
  BY <1>4, <1>5

\* Within a word.
LEMMA InsideWordStep ==
  ASSUME Flags, NEW c, NEW s, TakesChar(c, s), Plain, mode \in {"word", "dq", "sq"}, ~EndsWord(c)
  PROVE  /\ quoted' = (c = "bs") /\ WordAt' = WordAt
         /\ variable' => c = "$" \/ c = "{"
         /\ UNCHANGED <<mode, sharp_comment, args>> /\ GoesOn
<1>1. InsideWord(c) /\ WordAt' = WordAt
  BY DEF Flags, Plain, TakesChar, Stays, Starts, StartsBehind, NoMemory, SkipComment, SkipQuoted,
     AfterQuote, SkipBlank, EndWord, Delimiter, BlockDone, Comment, BeginWord, BeginQuoted, MayBegin
<1>2. QED
  BY <1>1 DEF InsideWord, GoesOn, KeepsVariable

\* The end of a word.
LEMMA EndWordStep ==
  ASSUME Flags, NEW c, NEW s, TakesChar(c, s), Plain, mode \in {"word", "dq", "sq"}, EndsWord(c),
         ~KeepsVariable(c)
  PROVE  \/ rc' = "memory" /\ out' = out
         \/ /\ args' = Append(args, Unescaped(s))
            /\ mode' = IF mode = "word" THEN "space" ELSE "need"
            /\ variable' = FALSE /\ UNCHANGED <<sharp_comment, quoted>>
            /\ IF c \in {";", "{"} THEN Gives(Delimiters[c]) ELSE GoesOn
<1>1. EndWord(c, s) \/ NoMemory(c)
  BY DEF Flags, Plain, TakesChar, Stays, Starts, StartsBehind, SkipComment, SkipQuoted,
     AfterQuote, SkipBlank, InsideWord, Delimiter, BlockDone, Comment, BeginWord, BeginQuoted, MayBegin
<1>2. CASE NoMemory(c)
  BY <1>2 DEF NoMemory, Returns
<1>3. CASE EndWord(c, s)
  <2>1. c \in {";", "{"} => Delimited(c) = Delimiters[c] /\ Delimited(c) \in {"ok", "block"}
    BY DEF Delimited, Delimiters
  <2>2. /\ args' = Append(args, Unescaped(s))
        /\ mode' = IF mode = "word" THEN "space" ELSE "need"
        /\ variable' = FALSE /\ UNCHANGED <<sharp_comment, quoted>>
        /\ IF c \in {";", "{"} THEN Returns(Delimited(c)) ELSE GoesOn
    BY <1>3 DEF EndWord, GoesOn
  <2>3. c \in {";", "{"} => Gives(Delimiters[c])
    BY <2>1, <2>2 DEF Returns, Gives
  <2>4. QED
    BY <2>2, <2>3
<1>4. QED
  BY <1>1, <1>2, <1>3

\* Behind the closing quote.
LEMMA BehindQuoteStep ==
  ASSUME Flags, NEW c, NEW s, TakesChar(c, s), Plain, mode = "need",
         c \in Blank \cup {";", "{"}
  PROVE  /\ args' = args
         /\ c \in Blank => /\ mode' = "space" /\ GoesOn
                           /\ UNCHANGED <<sharp_comment, quoted, variable>>
         /\ c \in {";", "{"} => Gives(Delimiters[c])
<1>1. AfterQuote(c)
  BY DEF Flags, Plain, TakesChar, Stays, Starts, StartsBehind, NoMemory, SkipComment, SkipQuoted,
     InsideWord, SkipBlank, EndWord, Delimiter, BlockDone, Comment, BeginWord, BeginQuoted, MayBegin,
     InWord, Blank
<1>2. c \in {";", "{"} => /\ Delimited(c) = Delimiters[c] /\ Delimited(c) \in {"ok", "block"}
                          /\ c \notin Blank
  BY DEF Delimited, Delimiters, Blank
<1>3. args' = args
  BY <1>1 DEF AfterQuote
<1>4. c \in Blank => /\ mode' = "space" /\ GoesOn
                     /\ UNCHANGED <<sharp_comment, quoted, variable>>
  BY <1>1 DEF AfterQuote, GoesOn
<1>5. c \in {";", "{"} => Returns(Delimited(c))
  BY <1>1, <1>2 DEF AfterQuote
<1>6. c \in {";", "{"} => Gives(Delimiters[c])
  BY <1>2, <1>5 DEF Returns, Gives
<1>7. QED
  BY <1>3, <1>4, <1>6

----------------------------------------------------------------------------
(***************************************************************************)
(* The pieces of a document.                                               *)
(***************************************************************************)

\* Where the text up to piece q ends.
Until(d, q) == IF q = 0 THEN 0 ELSE d.pieces[q].hi

\* What every piece is.
LEMMA PieceFacts ==
  ASSUME NEW d, IsWritten(d), NEW q \in 1 .. Len(d.pieces), NEW x, x = d.pieces[q]
  PROVE  /\ IsPiece(d, x)
         /\ x.lo \in Nat /\ x.hi \in Nat /\ x.dir \in Nat /\ x.words \in Nat
         /\ 1 <= x.lo /\ x.lo <= x.hi /\ x.hi <= Len(d.text) /\ 1 <= x.dir
         /\ x.is \in {"gap", "word", "end"}
<1>1. IsPiece(d, x)
  BY Zenon DEF IsWritten
<1>2. QED
  BY <1>1 DEF IsPiece

\* Behind a piece that does not end the text is another one.
LEMMA NextPiece ==
  ASSUME NEW d, d.text \in Seq(Char), IsWritten(d), NEW q \in 0 .. Len(d.pieces),
         Len(d.pieces) \in Nat, Until(d, q) < Len(d.text)
  PROVE  /\ q + 1 \in 1 .. Len(d.pieces)
         /\ q = 0 => IsFirst(d.pieces[q + 1])
         /\ q # 0 => Behind(d, d.pieces[q], d.pieces[q + 1])
         /\ d.pieces[q + 1].lo = Until(d, q) + 1
<1>1. PICK n \in Nat : n = Len(d.pieces)
  OBVIOUS
<1>2. q # n
  <2>1. SUFFICES ASSUME q = n
                 PROVE  FALSE
    OBVIOUS
  <2>2. CASE n = 0
    <3>1. d.pieces = <<>>
      BY <2>2, <1>1, EmptySeq DEF IsWritten
    <3>2. d.text = <<>>
      BY <3>1 DEF IsWritten
    <3>3. Len(<<>>) = 0
      OBVIOUS
    <3>4. Until(d, q) = 0 /\ Len(d.text) = 0
      BY <3>2, <3>3, <2>1, <2>2, Zenon DEF Until
    <3>5. QED
      BY <3>4
  <2>3. CASE n # 0
    <3>1. d.pieces # <<>>
      <4>1. Len(<<>>) = 0
        OBVIOUS
      <4>2. QED
        BY <4>1, <2>3, <1>1, Zenon
    <3>2. d.pieces[n].hi = Len(d.text)
      BY <3>1, <1>1, Zenon DEF IsWritten, IsLast
    <3>3. Until(d, q) = Len(d.text)
      BY <3>2, <2>1, <2>3, Zenon DEF Until
    <3>4. Len(d.text) \in Nat
      OBVIOUS
    <3>5. QED
      BY <3>3, <3>4
  <2>4. QED
    BY <2>2, <2>3
<1>3. q + 1 \in 1 .. n /\ (q # 0 => q \in 1 .. n - 1)
  BY <1>1, <1>2
<1>4. CASE q = 0
  <2>1. d.pieces # <<>>
    <3>1. Len(<<>>) = 0 /\ n # 0
      BY <1>2, <1>4
    <3>2. QED
      BY <3>1, <1>1, Zenon
  <2>2. IsFirst(d.pieces[1]) /\ 0 + 1 = 1
    <3>1. IsFirst(d.pieces[1])
      BY <2>1, Zenon DEF IsWritten
    <3>2. QED
      BY <3>1
  <2>3. QED
    BY <2>2, <1>1, <1>3, <1>4, Zenon DEF IsFirst, Until
<1>5. CASE q # 0
  <2>1. Behind(d, d.pieces[q], d.pieces[q + 1])
    BY <1>1, <1>3, <1>5, Zenon DEF IsWritten
  <2>2. QED
    BY <2>1, <1>1, <1>3, <1>5, Zenon DEF Behind, Until
<1>6. QED
  BY <1>4, <1>5

\* The order of the pieces.
Precedes(x, y) ==
  /\ x.hi < y.lo /\ x.dir <= y.dir
  /\ x.is = "end" => x.dir < y.dir
  /\ x.dir = y.dir => x.words <= y.words
  /\ x.dir = y.dir /\ x.is = "word" => x.words < y.words

\* A piece precedes those that stand behind it.
LEMMA PiecesOrdered ==
  ASSUME NEW d, IsWritten(d), Len(d.pieces) \in Nat,
         NEW a \in 1 .. Len(d.pieces), NEW b \in 1 .. Len(d.pieces), a < b
  PROVE  Precedes(d.pieces[a], d.pieces[b])
<1>1. PICK n \in Nat : n = Len(d.pieces)
  OBVIOUS
<1> DEFINE S == {m \in Nat : a + m + 1 <= n => Precedes(d.pieces[a], d.pieces[a + m + 1])}
<1>2. ASSUME NEW q \in 1 .. n - 1, NEW y, NEW z, y = d.pieces[q], z = d.pieces[q + 1]
      PROVE  /\ y.lo \in Nat /\ y.hi \in Nat /\ y.dir \in Nat /\ y.words \in Nat /\ y.lo <= y.hi
             /\ z.lo \in Nat /\ z.hi \in Nat /\ z.dir \in Nat /\ z.words \in Nat /\ z.lo <= z.hi
             /\ y.hi < z.lo /\ Precedes(y, z)
  <2>1. q \in 1 .. Len(d.pieces) /\ q + 1 \in 1 .. Len(d.pieces)
    BY <1>1
  <2>2. /\ y.lo \in Nat /\ y.hi \in Nat /\ y.dir \in Nat /\ y.words \in Nat /\ y.lo <= y.hi
        /\ y.is \in {"gap", "word", "end"}
    BY <2>1, <1>2, PieceFacts
  <2>3. z.lo \in Nat /\ z.hi \in Nat /\ z.dir \in Nat /\ z.words \in Nat /\ z.lo <= z.hi
    BY <2>1, <1>2, PieceFacts
  <2>4. Behind(d, y, z)
    BY <1>1, <1>2, Zenon DEF IsWritten
  <2>5. Precedes(y, z)
    <3>1. z.lo = y.hi + 1
      BY <2>4, Zenon DEF Behind
    <3>2. y.hi < z.lo
      BY <3>1, <2>2
    <3>3. CASE y.is = "gap"
      <4>1. z.dir = y.dir /\ z.words = y.words /\ y.is # "end" /\ y.is # "word"
        BY <3>3, <2>4 DEF Behind
      <4>2. y.dir <= z.dir /\ y.words <= z.words
        BY <4>1, <2>2
      <4>3. QED
        BY <4>1, <4>2, <3>2, Zenon DEF Precedes
    <3>4. CASE y.is = "word"
      <4>1. z.dir = y.dir /\ z.words = y.words + 1 /\ y.is # "end"
        BY <3>4, <2>4 DEF Behind
      <4>2. y.dir <= z.dir /\ y.words < z.words /\ y.words <= z.words
        BY <4>1, <2>2
      <4>3. QED
        BY <4>1, <4>2, <3>2, Zenon DEF Precedes
    <3>5. CASE y.is = "end"
      <4>1. z.dir = y.dir + 1
        BY <3>5, <2>4 DEF Behind
      <4>2. y.dir <= z.dir /\ y.dir < z.dir /\ y.dir # z.dir
        BY <4>1, <2>2
      <4>3. QED
        BY <4>2, <3>2, Zenon DEF Precedes
    <3>6. QED
      BY <3>3, <3>4, <3>5, <2>2
  <2>6. QED
    BY <2>2, <2>3, <2>5, Zenon DEF Precedes
<1>3. 0 \in S
  <2>1. SUFFICES ASSUME a + 0 + 1 <= n
                 PROVE  Precedes(d.pieces[a], d.pieces[a + 0 + 1])
    OBVIOUS
  <2>2. a \in 1 .. n - 1 /\ a + 0 + 1 = a + 1
    BY <2>1, <1>1
  <2>3. QED
    BY <2>2, <1>2, Zenon
<1>4. ASSUME NEW m \in Nat, m \in S
      PROVE  m + 1 \in S
  <2>1. SUFFICES ASSUME a + (m + 1) + 1 <= n
                 PROVE  Precedes(d.pieces[a], d.pieces[a + (m + 1) + 1])
    OBVIOUS
  <2>2. PICK q \in 1 .. n - 1 : q = a + m + 1
    BY <2>1, <1>1
  <2>3. a + (m + 1) + 1 = q + 1 /\ a + m + 1 <= n /\ a \in 1 .. n - 1
    BY <2>1, <2>2
  <2>4. PICK x : x = d.pieces[a]
    OBVIOUS
  <2>5. PICK y : y = d.pieces[q]
    OBVIOUS
  <2>6. PICK z : z = d.pieces[q + 1]
    OBVIOUS
  <2>7. Precedes(x, y)
    BY <2>2, <2>3, <2>4, <2>5, <1>4, Zenon
  <2>8. /\ y.lo \in Nat /\ y.hi \in Nat /\ y.dir \in Nat /\ y.words \in Nat /\ y.lo <= y.hi
        /\ z.lo \in Nat /\ z.hi \in Nat /\ z.dir \in Nat /\ z.words \in Nat
        /\ y.hi < z.lo /\ Precedes(y, z)
    BY <2>5, <2>6, <1>2, Zenon
  <2>9. x.lo \in Nat /\ x.hi \in Nat /\ x.dir \in Nat /\ x.words \in Nat
    <3>1. d.pieces[a + 1] = d.pieces[a + 1]
      OBVIOUS
    <3>2. QED
      BY <3>1, <2>3, <2>4, <1>2, Zenon
  <2>10. Precedes(x, z)
    <3>1. x.hi < y.lo /\ x.dir <= y.dir /\ y.dir <= z.dir
      BY <2>7, <2>8, Zenon DEF Precedes
    <3>2. x.hi < z.lo /\ x.dir <= z.dir
      <4>1. x.hi \in Nat /\ y.lo \in Nat /\ y.hi \in Nat /\ z.lo \in Nat
        BY <2>8, <2>9
      <4>2. x.hi < y.lo /\ y.lo <= y.hi /\ y.hi < z.lo
        BY <3>1, <2>8
      <4>3. x.hi < z.lo
        BY <4>1, <4>2
      <4>4. x.dir \in Nat /\ y.dir \in Nat /\ z.dir \in Nat
        BY <2>8, <2>9
      <4>5. x.dir <= z.dir
        BY <4>4, <3>1
      <4>6. QED
        BY <4>3, <4>5
    <3>3. ASSUME x.is = "end"
          PROVE  x.dir < z.dir
      <4>1. x.dir < y.dir
        BY <3>3, <2>7, Zenon DEF Precedes
      <4>2. QED
        BY <4>1, <3>1, <2>8, <2>9
    <3>4. ASSUME x.dir = z.dir
          PROVE  x.words <= z.words /\ (x.is = "word" => x.words < z.words)
      <4>1. x.dir = y.dir /\ y.dir = z.dir
        BY <3>1, <3>4, <2>8, <2>9
      <4>2. x.words <= y.words /\ y.words <= z.words /\ (x.is = "word" => x.words < y.words)
        BY <4>1, <2>7, <2>8, Zenon DEF Precedes
      <4>3. x.words <= z.words
        BY <4>2, <2>8, <2>9
      <4>4. ASSUME x.is = "word"
            PROVE  x.words < z.words
        <5>1. x.words < y.words
          BY <4>2, <4>4, Zenon
        <5>2. QED
          BY <5>1, <4>2, <2>8, <2>9
      <4>5. QED
        BY <4>3, <4>4
    <3>5. QED
      BY <3>2, <3>3, <3>4, Zenon DEF Precedes
  <2>11. QED
    BY <2>3, <2>4, <2>6, <2>10, Zenon
<1>5. \A m \in Nat : m \in S
  <2> HIDE DEF S
  <2>1. QED
    BY <1>3, <1>4, SetInduction, Zenon
<1>6. b - a - 1 \in Nat /\ a + (b - a - 1) + 1 = b /\ b <= n
  BY <1>1
<1>7. b - a - 1 \in S
  BY <1>5, <1>6, Zenon
<1>8. QED
  BY <1>6, <1>7

\* A comment goes on, begins or ends.
LEMMA CommentedStep ==
  ASSUME NEW d, NEW lo \in Nat, NEW p \in Nat, p + 1 >= lo
  PROVE  Commented(d, lo, p + 1)
           <=> d.text[p + 1] # "lf" /\ (d.text[p + 1] = "#" \/ (p >= lo /\ Commented(d, lo, p)))
<1>1. ASSUME Commented(d, lo, p + 1)
      PROVE  d.text[p + 1] # "lf" /\ (d.text[p + 1] = "#" \/ (p >= lo /\ Commented(d, lo, p)))
  <2>1. PICK q \in lo .. p + 1 : d.text[q] = "#" /\ \A r \in q .. p + 1 : d.text[r] # "lf"
    BY <1>1 DEF Commented
  <2>2. p + 1 \in q .. p + 1
    OBVIOUS
  <2>3. CASE q = p + 1
    BY <2>1, <2>2, <2>3
  <2>4. CASE q # p + 1
    <3>1. q \in lo .. p /\ p >= lo /\ \A r \in q .. p : r \in q .. p + 1
      BY <2>4
    <3>2. QED
      BY <3>1, <2>1, <2>2, Zenon DEF Commented
  <2>5. QED
    BY <2>3, <2>4
<1>2. ASSUME d.text[p + 1] # "lf", d.text[p + 1] = "#"
      PROVE  Commented(d, lo, p + 1)
  <2>1. p + 1 \in lo .. p + 1 /\ \A r \in p + 1 .. p + 1 : r = p + 1
    OBVIOUS
  <2>2. QED
    BY <2>1, <1>2, Zenon DEF Commented
<1>3. ASSUME d.text[p + 1] # "lf", p >= lo, Commented(d, lo, p)
      PROVE  Commented(d, lo, p + 1)
  <2>1. PICK q \in lo .. p : d.text[q] = "#" /\ \A r \in q .. p : d.text[r] # "lf"
    BY <1>3 DEF Commented
  <2>2. q \in lo .. p + 1 /\ \A r \in q .. p + 1 : r = p + 1 \/ r \in q .. p
    OBVIOUS
  <2>3. QED
    BY <2>1, <2>2, <1>3, Zenon DEF Commented
<1>4. QED
  BY <1>1, <1>2, <1>3

----------------------------------------------------------------------------
(***************************************************************************)
(* The parser in a document.                                               *)
(***************************************************************************)

\* Character c of the document is taken; s: as for TakesChar.
NextChar(c, s) ==
  /\ doc' = doc /\ file' = file
  /\ doc.text \in Seq(Char) /\ IsWritten(doc) /\ Cut /\ file \in Seq(Char)
  /\ At \in Nat /\ At + 1 <= Len(file) /\ At' = At + 1 /\ WordAt \in Nat /\ WordAt <= At
  /\ c = doc.text[At + 1] /\ s = SubSeq(file, WordAt + 1, At + 1)
  /\ TakesChar(c, s) /\ Flags
  /\ args \in Seq(Seq(Char)) /\ out \in Seq(Result)

\* What was returned and read stays so.
LEMMA HeardKept ==
  ASSUME NEW n, NEW w, Heard(n, w), doc' = doc, out' = out, args' = args
  PROVE  Heard(n, w)'
BY DEF Heard, Told

\* The words of a directive, with one more.
LEMMA WordAdded ==
  ASSUME NEW n, NEW w \in Nat, Heard(n, w), args \in Seq(Seq(Char)),
         NEW v \in Seq(Char), args' = Append(args, v), v = doc.says[n + 1].args[w + 1]
  PROVE  /\ args' \in Seq(Seq(Char)) /\ Len(args') = w + 1
         /\ \A k \in 1 .. w + 1 : args'[k] = doc.says[n + 1].args[k]
<1>1. Len(args) = w /\ \A k \in 1 .. w : args[k] = doc.says[n + 1].args[k]
  BY DEF Heard
<1>2. /\ Append(args, v) \in Seq(Seq(Char))
      /\ Len(Append(args, v)) = Len(args) + 1 /\ Append(args, v)[Len(args) + 1] = v
      /\ \A k \in 1 .. Len(args) : Append(args, v)[k] = args[k]
  BY AppendProperties
<1>3. \A k \in 1 .. w + 1 : k \in 1 .. w \/ k = w + 1
  OBVIOUS
<1>4. QED
  BY <1>1, <1>2, <1>3, Zenon

\* A word more is read.
LEMMA HeardWord ==
  ASSUME NEW n, NEW w \in Nat, Heard(n, w), doc' = doc, out' = out,
         args \in Seq(Seq(Char)), NEW v \in Seq(Char), args' = Append(args, v),
         v = doc.says[n + 1].args[w + 1]
  PROVE  Heard(n, w + 1)'
<1>1. Told(n)'
  BY DEF Heard, Told
<1>2. Len(args') = w + 1 /\ \A k \in 1 .. w + 1 : args'[k] = doc.says[n + 1].args[k]
  BY WordAdded, Zenon
<1>3. QED
  BY <1>1, <1>2, Zenon DEF Heard

\* A directive is returned, with all its words.
LEMMA DirectiveTold ==
  ASSUME NEW n \in Nat, NEW r, doc' = doc, IsWritten(doc), Told(n), n + 1 <= Len(doc.says),
         out \in Seq(Result), args' \in Seq(Seq(Char)), Gives(r), r = doc.says[n + 1].rc,
         Len(args') = Len(doc.says[n + 1].args),
         \A k \in 1 .. Len(args') : args'[k] = doc.says[n + 1].args[k]
  PROVE  Told(n + 1)'
<1> DEFINE z == [rc |-> r, args |-> args']
<1>1. doc.says \in Seq(Result) /\ n + 1 \in 1 .. Len(doc.says)
  BY DEF IsWritten, Result
<1>2. PICK y \in Result : y = doc.says[n + 1]
  BY <1>1
<1>3. y = [rc |-> y.rc, args |-> y.args] /\ y.args \in Seq(Seq(Char)) /\ y.rc \in {"ok", "block", "block_done"}
  BY DEF Result
<1>4. args' = y.args
  <2>1. Len(args') = Len(y.args) /\ \A k \in 1 .. Len(args') : args'[k] = y.args[k]
    BY <1>2, Zenon
  <2>2. QED
    BY <2>1, <1>3, SeqEqual
<1>5. z = y
  <2>1. r = y.rc
    BY <1>2, Zenon
  <2>2. QED
    BY <2>1, <1>3, <1>4, Zenon
<1>6. out' = Append(out, y)
  BY <1>5, Zenon DEF Gives
<1>7. /\ Len(out') = Len(out) + 1 /\ out'[Len(out) + 1] = y
      /\ \A k \in 1 .. Len(out) : out'[k] = out[k]
  BY <1>6, AppendProperties
<1>8. Len(out) = n /\ \A k \in 1 .. n : out[k] = doc.says[k]
  BY DEF Told
<1>9. \A k \in 1 .. n + 1 : k \in 1 .. n \/ k = n + 1
  OBVIOUS
<1>10. \A k \in 1 .. n + 1 : out'[k] = doc'.says[k]
  BY <1>2, <1>7, <1>8, <1>9, Zenon
<1>11. Len(out') = n + 1 /\ n + 1 <= Len(doc'.says)
  BY <1>7, <1>8
<1>12. QED
  BY <1>10, <1>11, Zenon DEF Told

\* A gap goes on, or begins behind something else than a word.
LEMMA GapChar ==
  ASSUME NEW c, NEW s, NextChar(c, s), NEW x, IsPiece(doc, x), x.is = "gap",
         x.lo \in Nat, x.hi \in Nat, At + 1 \in x.lo .. x.hi,
         Outside("space"), Heard(x.dir - 1, x.words),
         sharp_comment <=> At >= x.lo /\ Commented(doc, x.lo, At)
  PROVE  InGap(x)' /\ GoesOn
<1>1. PICK p \in Nat : p = At
  BY DEF NextChar
<1>2. /\ doc' = doc /\ At' = p + 1 /\ c = doc.text[p + 1] /\ TakesChar(c, s) /\ Flags
      /\ p + 1 \in x.lo .. x.hi /\ p + 1 >= x.lo
  BY <1>1 DEF NextChar
<1>3. Commented(doc, x.lo, p + 1) <=> c # "lf" /\ (c = "#" \/ (p >= x.lo /\ Commented(doc, x.lo, p)))
  BY <1>2, CommentedStep, Zenon
<1>4. mode = "space" /\ ~quoted /\ ~variable
  BY DEF Outside
<1>5. c \in Blank \/ Commented(doc, x.lo, p + 1)
  <2>1. IsGap(doc, x)
    BY DEF IsPiece
  <2>2. QED
    BY <2>1, <1>2, Zenon DEF IsGap
<1>6. /\ UNCHANGED <<mode, quoted, variable, args>> /\ GoesOn
      /\ sharp_comment' <=> Commented(doc, x.lo, p + 1)
  <2>1. CASE sharp_comment
    <3>1. sharp_comment' = (c # "lf") /\ UNCHANGED <<mode, quoted, variable, args>> /\ GoesOn
      BY <2>1, <1>2, InComment, Zenon
    <3>2. p >= x.lo /\ Commented(doc, x.lo, p)
      BY <2>1, <1>1, Zenon
    <3>3. QED
      BY <3>1, <3>2, <1>3, Zenon
  <2>2. CASE ~sharp_comment
    <3>1. Plain
      BY <2>2, <1>4 DEF Plain
    <3>2. ~(p >= x.lo /\ Commented(doc, x.lo, p))
      BY <2>2, <1>1, Zenon
    <3>3. CASE c = "#"
      <4>1. sharp_comment' = TRUE /\ UNCHANGED <<mode, quoted, variable, args>> /\ GoesOn
        BY <3>1, <3>3, <1>2, <1>4, SharpInSpace
      <4>2. c # "lf"
        BY <3>3
      <4>3. QED
        BY <4>1, <4>2, <3>3, <1>3, Zenon
    <3>4. CASE c # "#"
      <4>1. ~Commented(doc, x.lo, p + 1)
        BY <3>2, <3>4, <1>3, Zenon
      <4>2. c \in Blank
        BY <4>1, <1>5, Zenon
      <4>3. UNCHANGED <<mode, sharp_comment, quoted, variable, args>> /\ GoesOn
        BY <4>2, <3>1, <1>2, <1>4, BlankInSpace
      <4>4. QED
        BY <4>1, <4>3, <2>2, Zenon
    <3>5. QED
      BY <3>3, <3>4
  <2>3. QED
    BY <2>1, <2>2
<1>7. Heard(x.dir - 1, x.words)'
  BY <1>2, <1>6, HeardKept DEF GoesOn
<1>8. sharp_comment' <=> Commented(doc, x.lo, At)'
  BY <1>2, <1>6, Zenon
<1>9. Outside("space")'
  BY <1>4, <1>6 DEF Outside
<1>10. At' \in x.lo .. x.hi
  BY <1>2, Zenon
<1>11. QED
  BY <1>6, <1>7, <1>8, <1>9, <1>10, Zenon DEF InGap

\* What a word is, and where its letters are.
LEMMA WordFacts ==
  ASSUME NEW d, IsWritten(d), NEW x, IsPiece(d, x), x.is = "word"
  PROVE  /\ Value(d, x) \in Seq(Char) /\ x.from \in Seq(Nat) /\ Len(x.from) = Len(Value(d, x)) + 1
         /\ x.dir \in 1 .. Len(d.says) /\ x.words + 1 \in 1 .. Len(d.says[x.dir].args)
         /\ \A i \in 1 .. Len(Value(d, x)) : IsLetter(d, x, i)
         /\ \/ /\ x.style = "word" /\ x.from[1] = x.lo /\ x.from[Len(x.from)] = x.hi + 1
               /\ d.text[x.lo] \notin {"}", "#", "dq", "sq"}
            \/ /\ x.style \in {"dq", "sq"} /\ x.from[1] = x.lo + 1 /\ x.from[Len(x.from)] = x.hi
               /\ x.lo < x.hi /\ d.text[x.lo] = x.style /\ d.text[x.hi] = x.style
         /\ \A i, j \in 1 .. Len(x.from) : i <= j => x.from[i] <= x.from[j]
<1>1. /\ x.lo \in Nat /\ x.hi \in Nat /\ x.dir \in Nat /\ x.words \in Nat
      /\ 1 <= x.lo /\ x.lo <= x.hi /\ 1 <= x.dir
  BY DEF IsPiece
<1>2. IsWord(d, x)
  BY DEF IsPiece
<1>3. PICK says \in Seq([rc : {"ok", "block", "block_done"}, args : Seq(Seq(Char))]) : says = d.says
  BY DEF IsWritten
<1>4. x.dir <= Len(says) /\ x.words < Len(says[x.dir].args)
  BY <1>2, <1>3, Zenon DEF IsWord
<1>5. x.dir \in 1 .. Len(says)
  BY <1>1, <1>4
<1>6. PICK y \in [rc : {"ok", "block", "block_done"}, args : Seq(Seq(Char))] : y = says[x.dir]
  <2>1. PICK Z : Z = [rc : {"ok", "block", "block_done"}, args : Seq(Seq(Char))]
    OBVIOUS
  <2>2. says \in Seq(Z)
    BY <2>1, Zenon
  <2>3. says[x.dir] \in Z
    BY <2>2, <1>5
  <2>4. QED
    BY <2>1, <2>3, Zenon
<1>7. PICK words \in Seq(Seq(Char)) : words = y.args
  OBVIOUS
<1>8. x.words < Len(words)
  BY <1>4, <1>6, <1>7, Zenon
<1>9. x.words + 1 \in 1 .. Len(words)
  BY <1>1, <1>8
<1>10. Value(d, x) = words[x.words + 1]
  BY <1>3, <1>6, <1>7, Zenon DEF Value
<1>11. Value(d, x) \in Seq(Char)
  BY <1>9, <1>10
<1>12. x.style \in {"word", "dq", "sq"} /\ (IsSpelt(d, x, 0) \/ IsSpelt(d, x, 1))
  BY <1>2 DEF IsWord
<1>13. /\ x.from \in Seq(Nat) /\ Len(x.from) = Len(Value(d, x)) + 1
       /\ \A i \in 1 .. Len(Value(d, x)) : IsLetter(d, x, i)
  BY <1>12, Zenon DEF IsSpelt
<1>14. \/ /\ x.style = "word" /\ x.from[1] = x.lo /\ x.from[Len(x.from)] = x.hi + 1
          /\ d.text[x.lo] \notin {"}", "#", "dq", "sq"}
       \/ /\ x.style \in {"dq", "sq"} /\ x.from[1] = x.lo + 1 /\ x.from[Len(x.from)] = x.hi
          /\ x.lo < x.hi /\ d.text[x.lo] = x.style /\ d.text[x.hi] = x.style
  <2>1. CASE x.style = "word"
    <3>1. IsSpelt(d, x, 0) /\ d.text[x.lo] \notin {"}", "#", "dq", "sq"}
      BY <2>1, <1>2 DEF IsWord
    <3>2. x.from[1] = x.lo + 0 /\ x.from[Len(x.from)] = x.hi + 1 - 0
      BY <3>1, Zenon DEF IsSpelt
    <3>3. x.lo + 0 = x.lo /\ x.hi + 1 - 0 = x.hi + 1
      BY <1>1
    <3>4. QED
      BY <3>1, <3>2, <3>3, <2>1, Zenon
  <2>2. CASE x.style \in {"dq", "sq"}
    <3>1. /\ IsSpelt(d, x, 1) /\ x.lo < x.hi /\ d.text[x.lo] = x.style /\ d.text[x.hi] = x.style
      BY <2>2, <1>2 DEF IsWord
    <3>2. x.from[1] = x.lo + 1 /\ x.from[Len(x.from)] = x.hi + 1 - 1
      BY <3>1, Zenon DEF IsSpelt
    <3>3. x.hi + 1 - 1 = x.hi
      BY <1>1
    <3>4. QED
      BY <3>1, <3>2, <3>3, <2>2, Zenon
  <2>3. QED
    BY <2>1, <2>2, <1>12
<1>15. \A i, j \in 1 .. Len(x.from) : i <= j => x.from[i] <= x.from[j]
  <2>1. ASSUME NEW i \in 1 .. Len(x.from) - 1
        PROVE  x.from[i + 1] = x.from[i] + 1 \/ x.from[i + 1] = x.from[i] + 2
    <3>1. i \in 1 .. Len(Value(d, x))
      <4>1. Len(Value(d, x)) \in Nat
        BY <1>11
      <4>2. QED
        BY <4>1, <1>13
    <3>2. IsLetter(d, x, i)
      BY <3>1, <1>13, Zenon
    <3>3. QED
      BY <3>2, Zenon DEF IsLetter
  <2>2. QED
    BY <2>1, <1>13, LettersOrdered
<1>16. x.dir \in 1 .. Len(d.says) /\ x.words + 1 \in 1 .. Len(d.says[x.dir].args)
  BY <1>3, <1>5, <1>6, <1>7, <1>9, Zenon
<1>17. QED
  BY <1>11, <1>13, <1>14, <1>15, <1>16, Zenon

\* A word begins.
LEMMA WordChar ==
  ASSUME NEW c, NEW s, NextChar(c, s), NEW x, IsPiece(doc, x), x.is = "word",
         x.lo \in Nat, x.hi \in Nat, x.lo <= x.hi, At + 1 = x.lo,
         Outside("space"), ~sharp_comment, Heard(x.dir - 1, x.words)
  PROVE  WithinWord(x)' /\ GoesOn
<1>1. PICK p \in Nat : p = At
  BY DEF NextChar
<1>2. /\ doc' = doc /\ At' = p + 1 /\ c = doc.text[p + 1] /\ TakesChar(c, s) /\ Flags
      /\ p + 1 = x.lo /\ IsWritten(doc)
  BY <1>1 DEF NextChar
<1>3. mode = "space" /\ ~quoted /\ ~variable /\ Plain
  BY DEF Outside, Plain
<1>4. PICK v \in Seq(Char) : v = Value(doc, x)
  BY <1>2, WordFacts
<1>5. PICK f \in Seq(Nat) : f = x.from
  BY <1>2, WordFacts
<1>6. PICK m \in Nat : m = Len(v)
  OBVIOUS
<1>7. /\ Len(f) = m + 1 /\ \A i \in 1 .. m : IsLetter(doc, x, i)
      /\ \/ /\ x.style = "word" /\ f[1] = x.lo /\ f[m + 1] = x.hi + 1
            /\ doc.text[x.lo] \notin {"}", "#", "dq", "sq"}
         \/ /\ x.style \in {"dq", "sq"} /\ f[1] = x.lo + 1
            /\ doc.text[x.lo] = x.style
  <2>1. /\ Len(x.from) = Len(Value(doc, x)) + 1
        /\ \A i \in 1 .. Len(Value(doc, x)) : IsLetter(doc, x, i)
        /\ \/ /\ x.style = "word" /\ x.from[1] = x.lo /\ x.from[Len(x.from)] = x.hi + 1
              /\ doc.text[x.lo] \notin {"}", "#", "dq", "sq"}
           \/ /\ x.style \in {"dq", "sq"} /\ x.from[1] = x.lo + 1
              /\ doc.text[x.lo] = x.style
    BY <1>2, WordFacts, Zenon
  <2>2. QED
    BY <2>1, <1>4, <1>5, <1>6, Zenon
<1>8. CASE x.style = "word"
  <2>1. f[1] = x.lo /\ f[m + 1] = x.hi + 1 /\ c \notin {"}", "#", "dq", "sq"}
    BY <1>2, <1>7, <1>8
  <2>2. m # 0
    <3>1. CASE m = 0
      <4>1. x.lo = x.hi + 1
        <5>1. m + 1 = 1
          BY <3>1
        <5>2. QED
          BY <5>1, <2>1, Zenon
      <4>2. QED
        BY <4>1
    <3>2. QED
      BY <3>1
  <2>3. 1 \in 1 .. m /\ 2 \in 1 .. m + 1 /\ 1 \in 1 .. m + 1 /\ 1 \in 1 .. (m + 1) - 1
    BY <2>2
  <2>4. IsLetter(doc, x, 1)
    BY <2>3, <1>7, Zenon
  <2>5. \/ f[1 + 1] = f[1] + 1 /\ doc.text[f[1]] = v[1] /\ v[1] \notin Special("word")
        \/ f[1 + 1] = f[1] + 2 /\ doc.text[f[1]] = "bs"
    BY <2>4, <1>4, <1>5, <1>8, Zenon DEF IsLetter
  <2>6. f[1] = p + 1 /\ doc.text[f[1]] = c
    BY <2>1, <1>2, Zenon
  <2>7. 1 + 1 = 2 /\ (p + 1) + 1 = p + 2 /\ (p + 1) + 2 = p + 3
    OBVIOUS
  <2>8. \/ f[2] = p + 2 /\ c \notin Special("word")
        \/ f[2] = p + 3 /\ c = "bs"
    BY <2>5, <2>6, <2>7, Zenon
  <2>9. c \notin Blank \cup {";", "{", "}", "#", "dq", "sq"}
    BY <2>1, <2>8 DEF Special, Blank
  <2>10. /\ mode' = "word" /\ quoted' = (c = "bs") /\ WordAt' = At
         /\ UNCHANGED <<sharp_comment, variable, args>> /\ GoesOn
    BY <2>9, <1>2, <1>3, WordInSpace, Zenon
  <2>11. BeforeLetter(x, 2)' \/ InLetter(x, 1)'
    <3>1. CASE f[2] = p + 2 /\ c \notin Special("word")
      <4>1. c # "bs"
        BY <3>1 DEF Special
      <4>2. At' + 1 = p + 2
        BY <1>2
      <4>3. QED
        BY <3>1, <4>1, <4>2, <2>3, <2>10, <1>5, <1>7, Zenon DEF BeforeLetter
    <3>2. CASE f[2] = p + 3 /\ c = "bs"
      <4>1. At' = f[1] /\ At' + 2 = f[1 + 1]
        BY <3>2, <2>6, <1>2
      <4>2. QED
        BY <3>2, <4>1, <2>3, <2>10, <1>5, <1>7, Zenon DEF InLetter
    <3>3. QED
      BY <3>1, <3>2, <2>8
  <2>12. \E i \in 1 .. Len(x.from) : BeforeLetter(x, i)' \/ InLetter(x, i)'
    BY <2>3, <2>11, <1>5, <1>7, Zenon
  <2>13. WordAt' + 1 = x.from[1]
    BY <2>6, <2>10, <1>1, <1>5, Zenon
  <2>14. Heard(x.dir - 1, x.words)'
    BY <2>10, <1>2, HeardKept DEF GoesOn
  <2>15. At' >= x.lo
    BY <1>2
  <2>16. QED
    BY <2>10, <2>12, <2>13, <2>14, <2>15, <1>3, <1>8 DEF WithinWord
<1>9. CASE x.style \in {"dq", "sq"}
  <2>1. f[1] = x.lo + 1 /\ c = x.style
    BY <1>2, <1>7, <1>9
  <2>2. /\ mode' = c /\ WordAt' = At + 1
        /\ UNCHANGED <<sharp_comment, quoted, variable, args>> /\ GoesOn
    BY <2>1, <1>2, <1>3, <1>9, QuoteInSpace
  <2>3. 1 \in 1 .. m + 1
    OBVIOUS
  <2>4. BeforeLetter(x, 1)'
    <3>1. At' + 1 = f[1]
      BY <2>1, <1>2
    <3>2. QED
      BY <3>1, <2>2, <2>3, <1>3, <1>5, <1>7, Zenon DEF BeforeLetter
  <2>5. \E i \in 1 .. Len(x.from) : BeforeLetter(x, i)' \/ InLetter(x, i)'
    BY <2>3, <2>4, <1>5, <1>7, Zenon
  <2>6. WordAt' + 1 = x.from[1]
    <3>1. WordAt' + 1 = f[1]
      BY <2>1, <2>2, <1>1, <1>2
    <3>2. QED
      BY <3>1, <1>5, Zenon
  <2>7. Heard(x.dir - 1, x.words)'
    BY <2>2, <1>2, HeardKept DEF GoesOn
  <2>8. At' >= x.lo
    BY <1>2
  <2>9. x.style # "word"
    BY <1>9
  <2>10. QED
    BY <2>1, <2>2, <2>5, <2>6, <2>7, <2>8, <2>9, <1>3, Zenon DEF WithinWord
<1>10. QED
  BY <1>7, <1>8, <1>9

\* The end of a directive is reached with all its words.
LEMMA EndTold ==
  ASSUME NEW x, IsWritten(doc), IsPiece(doc, x), x.is = "end", doc' = doc,
         Told(x.dir - 1), out \in Seq(Result), args' \in Seq(Seq(Char)),
         NEW c, c = doc.text[x.lo], Gives(Delimiters[c]), Len(args') = x.words,
         \A k \in 1 .. x.words : args'[k] = doc.says[x.dir].args[k]
  PROVE  Told(x.dir)' /\ rc' \in {"ok", "block", "block_done"}
<1>1. x.dir \in Nat /\ 1 <= x.dir /\ x.words \in Nat /\ IsEnd(doc, x)
  BY DEF IsPiece
<1>2. PICK n \in Nat : n = x.dir - 1 /\ x.dir = n + 1
  BY <1>1
<1>3. /\ c \in DOMAIN Delimiters /\ x.dir <= Len(doc.says) /\ Delimiters[c] = doc.says[x.dir].rc
      /\ Len(doc.says[x.dir].args) = x.words
  BY <1>1, Zenon DEF IsEnd
<1>4. PICK r : r = Delimiters[c]
  OBVIOUS
<1>5. /\ Told(n) /\ Gives(r) /\ n + 1 <= Len(doc.says) /\ r = doc.says[n + 1].rc
      /\ Len(args') = Len(doc.says[n + 1].args)
      /\ \A k \in 1 .. Len(args') : args'[k] = doc.says[n + 1].args[k]
  BY <1>2, <1>3, <1>4, Zenon
<1>6. Told(n + 1)'
  BY <1>5, DirectiveTold
<1>7. Delimiters[c] \in {"ok", "block", "block_done"}
  BY <1>3 DEF Delimiters
<1>8. rc' = Delimiters[c]
  BY Zenon DEF Gives
<1>9. Told(x.dir)'
  BY <1>2, <1>6, Zenon
<1>10. QED
  BY <1>7, <1>8, <1>9, Zenon

\* The end of a directive, behind a blank or another end.
LEMMA EndChar ==
  ASSUME NEW c, NEW s, NextChar(c, s), NEW x, IsPiece(doc, x), x.is = "end",
         x.lo \in Nat, x.hi \in Nat, At + 1 = x.lo,
         Outside("space"), ~sharp_comment, Heard(x.dir - 1, x.words)
  PROVE  At' = x.hi /\ Told(x.dir)' /\ rc' \in {"ok", "block", "block_done"}
<1>1. /\ doc' = doc /\ At' = At + 1 /\ c = doc.text[At + 1] /\ TakesChar(c, s) /\ Flags
      /\ IsWritten(doc) /\ args \in Seq(Seq(Char)) /\ out \in Seq(Result)
  BY DEF NextChar
<1>2. mode = "space" /\ Plain
  BY DEF Outside, Plain
<1>3. IsEnd(doc, x) /\ x.dir \in Nat /\ 1 <= x.dir /\ x.words \in Nat
  BY DEF IsPiece
<1>4. /\ x.lo = x.hi /\ c = doc.text[x.lo] /\ c \in DOMAIN Delimiters
      /\ c = "}" <=> x.words = 0
  BY <1>1, <1>3, Zenon DEF IsEnd
<1>5. /\ Told(x.dir - 1) /\ Len(args) = x.words
      /\ \A k \in 1 .. x.words : args[k] = doc.says[(x.dir - 1) + 1].args[k]
  BY DEF Heard
<1>6. (x.dir - 1) + 1 = x.dir
  BY <1>3
<1>7. args = <<>> <=> x.words = 0
  <2>1. args = <<>> <=> Len(args) = 0
    BY <1>1, EmptySeq
  <2>2. QED
    BY <2>1, <1>5, Zenon
<1>8. c = "}" <=> args = <<>>
  BY <1>4, <1>7, Zenon
<1>9. Gives(Delimiters[c]) /\ args' = args
  BY <1>1, <1>2, <1>4, <1>8, EndInSpace, Zenon
<1>10. /\ args' \in Seq(Seq(Char)) /\ Len(args') = x.words
       /\ \A k \in 1 .. x.words : args'[k] = doc.says[x.dir].args[k]
  BY <1>1, <1>5, <1>6, <1>9, Zenon
<1>11. Told(x.dir)' /\ rc' \in {"ok", "block", "block_done"}
  BY <1>1, <1>4, <1>5, <1>9, <1>10, EndTold, Zenon
<1>12. QED
  BY <1>1, <1>4, <1>11, Zenon

\* A letter goes on or begins.
LEMMA InsideChar ==
  ASSUME NEW c, NEW s, NextChar(c, s), NEW x, IsPiece(doc, x), x.is = "word",
         WithinWord(x), NEW i \in 1 .. Len(x.from) - 1, BeforeLetter(x, i) \/ InLetter(x, i)
  PROVE  WithinWord(x)' /\ GoesOn
<1>1. PICK p \in Nat : p = At
  BY DEF NextChar
<1>2. /\ doc' = doc /\ At' = p + 1 /\ c = doc.text[p + 1] /\ TakesChar(c, s) /\ Flags
      /\ IsWritten(doc)
  BY <1>1 DEF NextChar
<1>3. PICK v \in Seq(Char) : v = Value(doc, x)
  BY <1>2, WordFacts
<1>4. PICK f \in Seq(Nat) : f = x.from
  BY <1>2, WordFacts
<1>5. PICK m \in Nat : m = Len(v)
  OBVIOUS
<1>6. Len(f) = m + 1 /\ \A k \in 1 .. m : IsLetter(doc, x, k)
  <2>1. /\ Len(x.from) = Len(Value(doc, x)) + 1
        /\ \A k \in 1 .. Len(Value(doc, x)) : IsLetter(doc, x, k)
    BY <1>2, WordFacts, Zenon
  <2>2. QED
    BY <2>1, <1>3, <1>4, <1>5, Zenon
<1>7. i \in 1 .. m /\ i \in 1 .. m + 1 /\ i + 1 \in 1 .. m + 1 /\ i \in 1 .. (m + 1) - 1
  <2>1. i \in 1 .. (m + 1) - 1
    BY <1>4, <1>6, Zenon
  <2>2. QED
    BY <2>1
<1>8. PICK from \in Nat, next \in Nat : from = f[i] /\ next = f[i + 1]
  BY <1>6, <1>7
<1>9. IsLetter(doc, x, i)
  BY <1>6, <1>7, Zenon
<1>10. \/ next = from + 1 /\ doc.text[from] = v[i] /\ v[i] \notin Special(x.style)
       \/ next = from + 2 /\ doc.text[from] = "bs"
  BY <1>9, <1>3, <1>4, <1>8, Zenon DEF IsLetter
<1>11. /\ mode = x.style /\ ~sharp_comment /\ p >= x.lo /\ WordAt + 1 = x.from[1]
       /\ x.style = "word" /\ variable => doc.text[p] = "$"
       /\ Heard(x.dir - 1, x.words)
  BY <1>1 DEF WithinWord
<1>12. x.style \in {"word", "dq", "sq"} /\ x.lo \in Nat
  BY <1>2, WordFacts DEF IsPiece
<1>13. ASSUME BeforeLetter(x, i + 1)' \/ InLetter(x, i)', WordAt' = WordAt,
              UNCHANGED <<mode, sharp_comment, args>>, GoesOn,
              x.style = "word" /\ variable' => doc.text[p + 1] = "$"
       PROVE  WithinWord(x)'
  <2>1. \E k \in 1 .. Len(x.from) : BeforeLetter(x, k)' \/ InLetter(x, k)'
    BY <1>13, <1>4, <1>6, <1>7, Zenon
  <2>2. Heard(x.dir - 1, x.words)'
    BY <1>2, <1>11, <1>13, HeardKept DEF GoesOn
  <2>3. At' >= x.lo
    BY <1>2, <1>11, <1>12
  <2>4. mode' = x.style /\ ~sharp_comment' /\ WordAt' + 1 = x.from[1]
    BY <1>11, <1>13, Zenon
  <2>5. x.style = "word" /\ variable' => doc'.text[At'] = "$"
    BY <1>2, <1>13, Zenon
  <2>6. QED
    BY <2>1, <2>2, <2>3, <2>4, <2>5, Zenon DEF WithinWord
<1>14. CASE InLetter(x, i)
  <2>1. p = from /\ p + 2 = next /\ quoted
    BY <1>14, <1>1, <1>4, <1>8, Zenon DEF InLetter
  <2>2. doc.text[p] = "bs"
    <3>1. next # from + 1
      BY <2>1
    <3>2. QED
      BY <3>1, <2>1, <1>10, Zenon
  <2>3. /\ quoted' = FALSE /\ UNCHANGED <<mode, sharp_comment, variable, args>> /\ GoesOn
        /\ WordAt' = WordAt
    BY <2>1, <1>2, <1>11, BehindBackslash, Zenon
  <2>4. At' + 1 = next
    BY <2>1, <1>2
  <2>5. BeforeLetter(x, i + 1)'
    BY <2>3, <2>4, <1>4, <1>6, <1>7, <1>8, Zenon DEF BeforeLetter
  <2>6. "bs" # "$"
    OBVIOUS
  <2>7. x.style = "word" /\ variable' => doc.text[p + 1] = "$"
    BY <2>2, <2>3, <2>6, <1>11, Zenon
  <2>8. QED
    BY <2>3, <2>5, <2>7, <1>13, Zenon
<1>15. CASE BeforeLetter(x, i)
  <2>1. p + 1 = from /\ ~quoted
    BY <1>15, <1>1, <1>4, <1>8, Zenon DEF BeforeLetter
  <2>2. c = doc.text[from] /\ Plain
    BY <2>1, <1>2, <1>11, Zenon DEF Plain
  <2>3. /\ ~EndsWord(c) /\ (x.style = "word" => c # "{")
        /\ (next = from + 1 /\ c # "bs") \/ (next = from + 2 /\ c = "bs")
    <3>1. CASE next = from + 1 /\ c \notin Special(x.style)
      BY <3>1, <1>11, <1>12 DEF Special, EndsWord
    <3>2. CASE next = from + 2 /\ c = "bs"
      <4>1. c \notin Blank \cup {";", "{"} /\ c \notin {"dq", "sq"}
        BY <3>2 DEF Blank
      <4>2. QED
        BY <4>1, <3>2, <1>11, <1>12 DEF EndsWord
    <3>3. QED
      BY <3>1, <3>2, <2>2, <1>10, Zenon
  <2>4. mode \in {"word", "dq", "sq"}
    BY <1>11, <1>12, Zenon
  <2>5. /\ quoted' = (c = "bs") /\ WordAt' = WordAt
        /\ variable' => c = "$" \/ c = "{"
        /\ UNCHANGED <<mode, sharp_comment, args>> /\ GoesOn
    BY <2>2, <2>3, <2>4, <1>2, InsideWordStep, Zenon
  <2>6. BeforeLetter(x, i + 1)' \/ InLetter(x, i)'
    <3>1. CASE next = from + 1 /\ c # "bs"
      <4>1. At' + 1 = next
        BY <3>1, <2>1, <1>2
      <4>2. QED
        BY <4>1, <3>1, <2>5, <1>4, <1>6, <1>7, <1>8, Zenon DEF BeforeLetter
    <3>2. CASE next = from + 2 /\ c = "bs"
      <4>1. At' = from /\ At' + 2 = next
        BY <3>2, <2>1, <1>2
      <4>2. QED
        BY <4>1, <3>2, <2>5, <1>4, <1>6, <1>7, <1>8, Zenon DEF InLetter
    <3>3. QED
      BY <3>1, <3>2, <2>3
  <2>7. x.style = "word" /\ variable' => doc.text[p + 1] = "$"
    BY <2>3, <2>5, <1>2, Zenon
  <2>8. QED
    BY <2>5, <2>6, <2>7, <1>13, Zenon
<1>16. QED
  BY <1>14, <1>15

\* At the end of a word the characters from start on spell it.
LEMMA CopiesWord ==
  ASSUME NEW c, NEW s, NextChar(c, s), NEW x, IsPiece(doc, x), x.is = "word",
         WithinWord(x), BeforeLetter(x, Len(x.from))
  PROVE  Unescaped(s) = Value(doc, x)
<1>1. PICK p \in Nat : p = At
  BY DEF NextChar
<1>2. PICK b \in Nat : b = WordAt
  BY DEF NextChar
<1>3. /\ IsWritten(doc) /\ Cut /\ file \in Seq(Char) /\ p + 1 <= Len(file) /\ b <= p
      /\ s = SubSeq(file, b + 1, p + 1)
  BY <1>1, <1>2 DEF NextChar
<1>4. PICK v \in Seq(Char) : v = Value(doc, x)
  BY <1>3, WordFacts
<1>5. PICK f \in Seq(Nat) : f = x.from
  BY <1>3, WordFacts
<1>6. PICK m \in Nat : m = Len(v)
  OBVIOUS
<1>7. /\ Len(f) = m + 1 /\ \A k \in 1 .. m : IsLetter(doc, x, k)
      /\ \A i, j \in 1 .. m + 1 : i <= j => f[i] <= f[j]
  <2>1. /\ Len(x.from) = Len(Value(doc, x)) + 1
        /\ \A k \in 1 .. Len(Value(doc, x)) : IsLetter(doc, x, k)
        /\ \A i, j \in 1 .. Len(x.from) : i <= j => x.from[i] <= x.from[j]
    BY <1>3, WordFacts, Zenon
  <2>2. QED
    BY <2>1, <1>4, <1>5, <1>6, Zenon
<1>8. f[1] = b + 1 /\ f[m + 1] = p + 1
  BY <1>1, <1>2, <1>5, <1>7, Zenon DEF WithinWord, BeforeLetter
<1>9. /\ s \in Seq(Char) /\ Len(s) = (p + 1) - b
      /\ \A k \in 1 .. (p + 1) - b : s[k] = file[b + k]
  BY <1>3, Part
<1>10. \A k \in 1 .. Len(s) : s[k] = doc.text[b + k]
  <2>1. \A k \in 1 .. Len(s) : b + k \in 1 .. Len(file)
    BY <1>3, <1>9
  <2>2. \A k \in 1 .. Len(s) : s[k] = file[b + k]
    BY <1>9, Zenon
  <2>3. QED
    BY <2>1, <2>2, <1>3, Zenon DEF Cut
<1>11. s # <<>> /\ f[Len(f)] = b + Len(s)
  <2>1. Len(s) # 0 /\ p + 1 = b + Len(s)
    BY <1>3, <1>9
  <2>2. Len(<<>>) = 0
    OBVIOUS
  <2>3. QED
    BY <2>1, <2>2, <1>7, <1>8, Zenon
<1>12. ASSUME NEW i \in 1 .. m
       PROVE  SpellsAt(s, v[i], f[i] - b, f[i + 1] - b)
  <2>1. i \in 1 .. m + 1 /\ i + 1 \in 1 .. m + 1 /\ i + 1 <= m + 1 /\ 1 <= i
        /\ 1 \in 1 .. m + 1 /\ m + 1 \in 1 .. m + 1
    OBVIOUS
  <2>2. PICK from \in Nat, next \in Nat : from = f[i] /\ next = f[i + 1]
    BY <2>1, <1>7
  <2>3. b + 1 <= from /\ next <= p + 1
    BY <2>1, <2>2, <1>7, <1>8, Zenon
  <2>4. \/ next = from + 1 /\ doc.text[from] = v[i] /\ v[i] \notin Special(x.style)
        \/ /\ next = from + 2 /\ doc.text[from] = "bs"
           /\ doc.text[from + 1] \in DOMAIN Escape /\ v[i] = Escape[doc.text[from + 1]]
    <3>1. IsLetter(doc, x, i)
      BY <1>7, Zenon
    <3>2. QED
      BY <3>1, <2>2, <1>4, <1>5, Zenon DEF IsLetter
  <2>5. PICK k \in Nat : k = from - b /\ b + k = from /\ 1 <= k
    BY <2>3
  <2>6. CASE next = from + 1 /\ doc.text[from] = v[i] /\ v[i] \notin Special(x.style)
    <3>1. k \in 1 .. Len(s) /\ next - b = k + 1
      BY <2>3, <2>5, <2>6, <1>9
    <3>2. s[k] = v[i]
      BY <3>1, <2>5, <2>6, <1>10, Zenon
    <3>3. v[i] # "bs"
      BY <2>6 DEF Special
    <3>4. QED
      BY <3>1, <3>2, <3>3, <2>2, <2>5, Zenon DEF SpellsAt
  <2>7. CASE /\ next = from + 2 /\ doc.text[from] = "bs"
             /\ doc.text[from + 1] \in DOMAIN Escape /\ v[i] = Escape[doc.text[from + 1]]
    <3>1. /\ k \in 1 .. Len(s) /\ k + 1 \in 1 .. Len(s) /\ next - b = k + 2
          /\ b + (k + 1) = from + 1
      BY <2>3, <2>5, <2>7, <1>9
    <3>2. s[k] = "bs" /\ s[k + 1] = doc.text[from + 1]
      BY <3>1, <2>5, <2>7, <1>10, Zenon
    <3>3. QED
      BY <3>1, <3>2, <2>2, <2>5, <2>7, Zenon DEF SpellsAt
  <2>8. QED
    BY <2>4, <2>6, <2>7
<1>13. Unescaped(s) = v
  <2>1. Len(f) = Len(v) + 1
    BY <1>6, <1>7, Zenon
  <2>2. \A i \in 1 .. Len(v) : SpellsAt(s, v[i], f[i] - b, f[i + 1] - b)
    BY <1>6, <1>12, Zenon
  <2>3. QED
    BY <2>1, <2>2, <1>8, <1>9, <1>11, CopiesSpelt
<1>14. QED
  BY <1>4, <1>13, Zenon

\* The directive that ends with y is returned, or there is no memory for a word.
Finishes(y) ==
  y.is = "end" /\ At' = y.hi /\ Told(y.dir)' /\ rc' \in {"ok", "block", "block_done"}
Fails == rc' = "memory" /\ out' = out

\* A gap behind a word begins with a blank.
LEMMA GapBegins ==
  ASSUME NEW y, y.is = "gap", y.lo \in Nat, y.hi \in Nat, 1 <= y.lo, y.lo <= y.hi,
         doc' = doc, At' = y.lo, doc.text[y.lo] \in Blank,
         Outside("space")', ~sharp_comment', Heard(y.dir - 1, y.words)'
  PROVE  InGap(y)'
<1>1. PICK p \in Nat : y.lo = p + 1
  <2>1. y.lo - 1 \in Nat /\ y.lo = (y.lo - 1) + 1
    OBVIOUS
  <2>2. QED
    BY <2>1
<1>2. ~(p >= y.lo) /\ p + 1 >= y.lo
  BY <1>1
<1>3. doc.text[y.lo] # "#"
  BY DEF Blank
<1>4. ~Commented(doc, y.lo, p + 1)
  BY <1>1, <1>2, <1>3, CommentedStep, Zenon
<1>5. ~Commented(doc, y.lo, At)'
  BY <1>1, <1>4, Zenon
<1>6. At' \in y.lo .. y.hi
  OBVIOUS
<1>7. QED
  BY <1>5, <1>6, Zenon DEF InGap

\* What stands behind word x: a blank or a delimiter.
LEMMA BehindFacts ==
  ASSUME NEW x, NEW y, IsPiece(doc, x), x.is = "word", IsPiece(doc, y), Behind(doc, x, y),
         NEW c, c = doc.text[y.lo]
  PROVE  /\ y.lo = x.hi + 1 /\ y.dir = x.dir /\ y.words = x.words + 1
         /\ y.lo \in Nat /\ y.hi \in Nat /\ 1 <= y.lo /\ y.lo <= y.hi
         /\ x.words \in Nat /\ x.dir \in Nat /\ (x.dir - 1) + 1 = x.dir
         /\ \/ y.is = "gap" /\ c \in Blank /\ c \notin {";", "{"}
            \/ y.is = "end" /\ c \in {";", "{"} /\ c \notin Blank /\ y.lo = y.hi
         /\ x.style = "word" /\ doc.text[x.hi] = "$" => c # "{"
<1>1. /\ x.lo \in Nat /\ x.hi \in Nat /\ x.dir \in Nat /\ x.words \in Nat
      /\ y.lo \in Nat /\ y.hi \in Nat /\ 1 <= y.lo /\ y.lo <= y.hi
  BY DEF IsPiece
<1>2. (x.dir - 1) + 1 = x.dir
  BY <1>1
<1>3. /\ y.is \in {"gap", "end"} /\ y.dir = x.dir /\ y.words = x.words + 1
      /\ y.is = "gap" => c \in Blank
      /\ x.style = "word" /\ doc.text[x.hi] = "$" => c # "{"
  BY DEF Behind
<1>4. y.lo = x.hi + 1
  BY Zenon DEF Behind
<1>5. CASE y.is = "gap"
  <2>1. c \in Blank /\ c \notin {";", "{"}
    BY <1>3, <1>5 DEF Blank
  <2>2. QED
    BY <2>1, <1>1, <1>2, <1>3, <1>4, <1>5, Zenon
<1>6. CASE y.is = "end"
  <2>1. IsEnd(doc, y)
    BY <1>6 DEF IsPiece
  <2>2. y.lo = y.hi /\ c \in DOMAIN Delimiters /\ (c = "}" <=> y.words = 0)
    BY <2>1, Zenon DEF IsEnd
  <2>3. y.words # 0
    <3>1. PICK w \in Nat : w = x.words
      BY <1>1
    <3>2. w + 1 # 0
      OBVIOUS
    <3>3. QED
      BY <3>1, <3>2, <1>3, Zenon
  <2>4. c \in {";", "{"} /\ c \notin Blank
    BY <2>2, <2>3 DEF Delimiters, Blank
  <2>5. QED
    BY <2>2, <2>4, <1>1, <1>2, <1>3, <1>4, <1>6, Zenon
<1>7. QED
  BY <1>3, <1>5, <1>6

\* The end of a word that is not quoted.
LEMMA BareEnds ==
  ASSUME NEW c, NEW s, NextChar(c, s), NEW x, IsPiece(doc, x), x.is = "word", x.style = "word",
         WithinWord(x), BeforeLetter(x, Len(x.from)),
         NEW y, IsPiece(doc, y), Behind(doc, x, y)
  PROVE  (InGap(y)' /\ GoesOn) \/ Finishes(y) \/ Fails
<1>1. PICK p \in Nat : p = At
  BY DEF NextChar
<1>2. /\ doc' = doc /\ At' = p + 1 /\ c = doc.text[p + 1] /\ TakesChar(c, s) /\ Flags
      /\ IsWritten(doc) /\ args \in Seq(Seq(Char)) /\ out \in Seq(Result)
  BY <1>1 DEF NextChar
<1>3. x.hi \in Nat
  BY DEF IsPiece
<1>4. p + 1 = x.hi + 1 /\ ~quoted
  <2>1. x.from[Len(x.from)] = x.hi + 1
    BY <1>2, WordFacts
  <2>2. QED
    BY <2>1, <1>1, Zenon DEF BeforeLetter
<1>5. p = x.hi
  BY <1>3, <1>4
<1>6. PICK z : z = doc.text[y.lo]
  OBVIOUS
<1>7. /\ y.lo = x.hi + 1 /\ y.dir = x.dir /\ y.words = x.words + 1
      /\ y.lo \in Nat /\ y.hi \in Nat /\ 1 <= y.lo /\ y.lo <= y.hi
      /\ x.words \in Nat /\ x.dir \in Nat /\ (x.dir - 1) + 1 = x.dir
      /\ \/ y.is = "gap" /\ z \in Blank /\ z \notin {";", "{"}
         \/ y.is = "end" /\ z \in {";", "{"} /\ z \notin Blank /\ y.lo = y.hi
      /\ x.style = "word" /\ doc.text[x.hi] = "$" => z # "{"
  BY <1>6, BehindFacts, Zenon
<1>8. c = z /\ At' = y.lo
  BY <1>2, <1>4, <1>6, <1>7, Zenon
<1>9. /\ mode = "word" /\ ~sharp_comment /\ (variable => doc.text[p] = "$")
      /\ Heard(x.dir - 1, x.words)
  BY <1>1, Zenon DEF WithinWord
<1>10. Plain /\ ~KeepsVariable(c) /\ EndsWord(c)
  <2>1. Plain
    BY <1>4, <1>9, Zenon DEF Plain
  <2>2. ~KeepsVariable(c)
    BY <1>5, <1>7, <1>8, <1>9, Zenon DEF KeepsVariable
  <2>3. EndsWord(c)
    BY <1>7, <1>8, <1>9 DEF EndsWord
  <2>4. QED
    BY <2>1, <2>2, <2>3
<1>11. mode \in {"word", "dq", "sq"}
  BY <1>9
<1>12. \/ Fails
       \/ /\ args' = Append(args, Unescaped(s))
          /\ mode' = IF mode = "word" THEN "space" ELSE "need"
          /\ variable' = FALSE /\ UNCHANGED <<sharp_comment, quoted>>
          /\ IF c \in {";", "{"} THEN Gives(Delimiters[c]) ELSE GoesOn
  BY <1>2, <1>10, <1>11, EndWordStep, Zenon DEF Fails
<1>13. ASSUME /\ args' = Append(args, Unescaped(s))
              /\ mode' = IF mode = "word" THEN "space" ELSE "need"
              /\ variable' = FALSE /\ UNCHANGED <<sharp_comment, quoted>>
              /\ IF c \in {";", "{"} THEN Gives(Delimiters[c]) ELSE GoesOn
       PROVE  (InGap(y)' /\ GoesOn) \/ Finishes(y)
  <2>1. PICK v \in Seq(Char) : v = Value(doc, x)
    BY <1>2, WordFacts
  <2>2. args' = Append(args, v)
    BY <1>13, <2>1, CopiesWord, Zenon
  <2>3. PICK n : n = x.dir - 1
    OBVIOUS
  <2>4. v = doc.says[n + 1].args[x.words + 1] /\ Heard(n, x.words) /\ n + 1 = x.dir
    BY <2>1, <2>3, <1>7, <1>9, Zenon DEF Value
  <2>5. CASE y.is = "gap"
    <3>1. GoesOn /\ Outside("space")' /\ ~sharp_comment'
      BY <2>5, <1>4, <1>7, <1>8, <1>9, <1>13 DEF Outside
    <3>2. Heard(n, x.words + 1)'
      BY <3>1, <2>2, <2>4, <1>2, <1>7, HeardWord DEF GoesOn
    <3>3. Heard(y.dir - 1, y.words)'
      BY <3>2, <2>3, <1>7, Zenon
    <3>4. doc.text[y.lo] \in Blank
      BY <2>5, <1>6, <1>7
    <3>5. InGap(y)'
      BY <3>1, <3>3, <3>4, <2>5, <1>2, <1>7, <1>8, GapBegins, Zenon
    <3>6. QED
      BY <3>1, <3>5
  <2>6. CASE y.is = "end"
    <3>1. Gives(Delimiters[c])
      BY <2>6, <1>7, <1>8, <1>13
    <3>2. /\ args' \in Seq(Seq(Char)) /\ Len(args') = x.words + 1
          /\ \A k \in 1 .. x.words + 1 : args'[k] = doc.says[n + 1].args[k]
      BY <2>2, <2>4, <1>2, <1>7, WordAdded
    <3>3. Told(n)
      BY <2>4 DEF Heard
    <3>4. /\ Told(y.dir - 1) /\ Len(args') = y.words /\ c = doc.text[y.lo]
          /\ \A k \in 1 .. y.words : args'[k] = doc.says[y.dir].args[k]
      <4>1. Told(y.dir - 1) /\ c = doc.text[y.lo]
        BY <3>3, <2>3, <1>6, <1>7, <1>8, Zenon
      <4>2. y.words = x.words + 1 /\ n + 1 = y.dir
        BY <2>4, <1>7, Zenon
      <4>3. QED
        BY <4>1, <4>2, <3>2, Zenon
    <3>5. Told(y.dir)' /\ rc' \in {"ok", "block", "block_done"}
      BY <3>1, <3>2, <3>4, <2>6, <1>2, EndTold, Zenon
    <3>6. At' = y.hi
      BY <2>6, <1>7, <1>8
    <3>7. QED
      BY <3>5, <3>6, <2>6, Zenon DEF Finishes
  <2>7. QED
    BY <2>5, <2>6, <1>7, Zenon
<1>14. QED
  BY <1>12, <1>13, Zenon

\* The closing quote.
LEMMA QuotedEnds ==
  ASSUME NEW c, NEW s, NextChar(c, s), NEW x, IsPiece(doc, x), x.is = "word", x.style # "word",
         WithinWord(x), BeforeLetter(x, Len(x.from))
  PROVE  (BehindQuote(x)' /\ GoesOn) \/ Fails
<1>1. /\ doc' = doc /\ At' = At + 1 /\ c = doc.text[At + 1] /\ TakesChar(c, s) /\ Flags
      /\ IsWritten(doc) /\ args \in Seq(Seq(Char)) /\ out \in Seq(Result)
  BY DEF NextChar
<1>2. x.hi \in Nat /\ x.words \in Nat /\ x.dir \in Nat /\ (x.dir - 1) + 1 = x.dir
  <2>1. x.hi \in Nat /\ x.words \in Nat /\ x.dir \in Nat
    BY DEF IsPiece
  <2>2. QED
    BY <2>1
<1>3. /\ x.style \in {"dq", "sq"} /\ x.from[Len(x.from)] = x.hi
      /\ doc.text[x.hi] = x.style
  BY <1>1, WordFacts
<1>4. At + 1 = x.hi /\ ~quoted /\ c = x.style
  BY <1>1, <1>3, Zenon DEF BeforeLetter
<1>5. mode = x.style /\ ~sharp_comment /\ Heard(x.dir - 1, x.words)
  BY DEF WithinWord
<1>6. Plain /\ ~KeepsVariable(c) /\ EndsWord(c) /\ mode \in {"word", "dq", "sq"}
      /\ c \notin {";", "{"} /\ mode # "word"
  BY <1>3, <1>4, <1>5 DEF Plain, KeepsVariable, EndsWord
<1>7. \/ Fails
      \/ /\ args' = Append(args, Unescaped(s))
         /\ mode' = IF mode = "word" THEN "space" ELSE "need"
         /\ variable' = FALSE /\ UNCHANGED <<sharp_comment, quoted>>
         /\ IF c \in {";", "{"} THEN Gives(Delimiters[c]) ELSE GoesOn
  BY <1>1, <1>6, EndWordStep, Zenon DEF Fails
<1>8. ASSUME /\ args' = Append(args, Unescaped(s))
             /\ mode' = IF mode = "word" THEN "space" ELSE "need"
             /\ variable' = FALSE /\ UNCHANGED <<sharp_comment, quoted>>
             /\ IF c \in {";", "{"} THEN Gives(Delimiters[c]) ELSE GoesOn
      PROVE  BehindQuote(x)' /\ GoesOn
  <2>1. PICK v \in Seq(Char) : v = Value(doc, x)
    BY <1>1, WordFacts
  <2>2. args' = Append(args, v)
    BY <1>8, <2>1, CopiesWord, Zenon
  <2>3. PICK n : n = x.dir - 1
    OBVIOUS
  <2>4. v = doc.says[n + 1].args[x.words + 1] /\ Heard(n, x.words)
    BY <2>1, <2>3, <1>2, <1>5, Zenon DEF Value
  <2>5. GoesOn /\ mode' = "need" /\ ~sharp_comment' /\ ~quoted' /\ ~variable'
    BY <1>4, <1>5, <1>6, <1>8, Zenon
  <2>6. Heard(n, x.words + 1)'
    BY <2>2, <2>4, <2>5, <1>1, <1>2, HeardWord DEF GoesOn
  <2>7. At' = x.hi
    BY <1>1, <1>4, Zenon
  <2>8. QED
    BY <2>3, <2>5, <2>6, <2>7, Zenon DEF BehindQuote, Outside
<1>9. QED
  BY <1>7, <1>8, Zenon

\* Behind the closing quote.
LEMMA BehindQuoteChar ==
  ASSUME NEW c, NEW s, NextChar(c, s), NEW x, IsPiece(doc, x), BehindQuote(x),
         NEW y, IsPiece(doc, y), Behind(doc, x, y)
  PROVE  (InGap(y)' /\ GoesOn) \/ Finishes(y)
<1>1. /\ doc' = doc /\ At' = At + 1 /\ c = doc.text[At + 1] /\ TakesChar(c, s) /\ Flags
      /\ IsWritten(doc) /\ args \in Seq(Seq(Char)) /\ out \in Seq(Result)
  BY DEF NextChar
<1>2. /\ x.is = "word" /\ At = x.hi /\ mode = "need" /\ ~quoted /\ ~variable /\ ~sharp_comment
      /\ Heard(x.dir - 1, x.words + 1)
  BY DEF BehindQuote, Outside
<1>3. PICK z : z = doc.text[y.lo]
  OBVIOUS
<1>4. /\ y.lo = x.hi + 1 /\ y.dir = x.dir /\ y.words = x.words + 1
      /\ y.lo \in Nat /\ y.hi \in Nat /\ 1 <= y.lo /\ y.lo <= y.hi
      /\ x.words \in Nat /\ x.dir \in Nat /\ (x.dir - 1) + 1 = x.dir
      /\ \/ y.is = "gap" /\ z \in Blank /\ z \notin {";", "{"}
         \/ y.is = "end" /\ z \in {";", "{"} /\ z \notin Blank /\ y.lo = y.hi
  BY <1>2, <1>3, BehindFacts, Zenon
<1>5. c = z /\ At' = y.lo /\ Plain
  BY <1>1, <1>2, <1>3, <1>4, Zenon DEF Plain
<1>6. c \in Blank \cup {";", "{"}
  BY <1>4, <1>5
<1>7. /\ args' = args
      /\ c \in Blank => /\ mode' = "space" /\ GoesOn
                        /\ UNCHANGED <<sharp_comment, quoted, variable>>
      /\ c \in {";", "{"} => Gives(Delimiters[c])
  BY <1>1, <1>2, <1>5, <1>6, BehindQuoteStep, Zenon
<1>8. CASE y.is = "gap"
  <2>1. z \in Blank
    BY <1>4, <1>8
  <2>2. mode' = "space" /\ GoesOn /\ UNCHANGED <<sharp_comment, quoted, variable>>
    BY <2>1, <1>5, <1>7, Zenon
  <2>3. Outside("space")' /\ ~sharp_comment'
    BY <2>2, <1>2, Zenon DEF Outside
  <2>4. Heard(x.dir - 1, x.words + 1)'
    BY <2>2, <1>1, <1>2, <1>7, HeardKept DEF GoesOn
  <2>5. Heard(y.dir - 1, y.words)'
    BY <2>4, <1>4, Zenon
  <2>6. InGap(y)'
    BY <2>1, <2>3, <2>5, <1>1, <1>3, <1>4, <1>5, <1>8, GapBegins, Zenon
  <2>7. QED
    BY <2>2, <2>6
<1>9. CASE y.is = "end"
  <2>1. z \in {";", "{"} /\ y.lo = y.hi
    BY <1>4, <1>9
  <2>2. Gives(Delimiters[c])
    BY <2>1, <1>5, <1>7, Zenon
  <2>3. /\ Told(x.dir - 1) /\ Len(args) = x.words + 1
        /\ \A k \in 1 .. x.words + 1 : args[k] = doc.says[(x.dir - 1) + 1].args[k]
    BY <1>2, Zenon DEF Heard
  <2>4. /\ Told(y.dir - 1) /\ Len(args') = y.words /\ c = doc.text[y.lo]
        /\ args' \in Seq(Seq(Char))
        /\ \A k \in 1 .. y.words : args'[k] = doc.says[y.dir].args[k]
    BY <2>3, <1>1, <1>3, <1>4, <1>5, <1>7, Zenon
  <2>5. Told(y.dir)' /\ rc' \in {"ok", "block", "block_done"}
    BY <2>2, <2>4, <1>1, <1>9, EndTold, Zenon
  <2>6. QED
    BY <2>1, <2>5, <1>5, <1>9, Zenon DEF Finishes
<1>10. QED
  BY <1>4, <1>8, <1>9

\* The parser is in a piece of the document; where a character leads to.
Within(x) == InGap(x) \/ WithinWord(x) \/ BehindQuote(x)
LeadsOn ==
  \/ GoesOn /\ \E q \in 1 .. Len(Pieces) : Within(Pieces[q])'
  \/ \E q \in 1 .. Len(Pieces) : Finishes(Pieces[q])
  \/ Fails

\* A document's pieces are a sequence.
LEMMA PiecesCounted ==
  ASSUME NEW d, IsWritten(d)
  PROVE  Len(d.pieces) \in Nat
<1>1. d.pieces \in Seq(Range(d.pieces))
  BY Zenon DEF IsWritten
<1>2. QED
  BY <1>1

\* The first character behind piece q belongs to the next one.
LEMMA CharBehind ==
  ASSUME NEW c, NEW s, NextChar(c, s), NEW q \in 0 .. Len(Pieces), At = Until(doc, q)
  PROVE  /\ q + 1 \in 1 .. Len(Pieces) /\ IsPiece(doc, Pieces[q + 1])
         /\ q = 0 => IsFirst(Pieces[q + 1])
         /\ q # 0 => Behind(doc, Pieces[q], Pieces[q + 1])
         /\ At + 1 = Pieces[q + 1].lo
<1>1. /\ IsWritten(doc) /\ doc.text \in Seq(Char) /\ file \in Seq(Char) /\ Cut /\ At \in Nat
      /\ At + 1 <= Len(file)
  BY DEF NextChar
<1>2. Len(doc.pieces) \in Nat
  BY <1>1, PiecesCounted
<1>3. Until(doc, q) < Len(doc.text)
  <2>1. Len(file) <= Len(doc.text) /\ Len(file) \in Nat /\ Len(doc.text) \in Nat
    BY <1>1 DEF Cut
  <2>2. QED
    BY <2>1, <1>1
<1>4. /\ q + 1 \in 1 .. Len(doc.pieces)
      /\ q = 0 => IsFirst(doc.pieces[q + 1])
      /\ q # 0 => Behind(doc, doc.pieces[q], doc.pieces[q + 1])
      /\ doc.pieces[q + 1].lo = Until(doc, q) + 1
  BY <1>1, <1>2, <1>3, NextPiece DEF Pieces
<1>5. IsPiece(doc, doc.pieces[q + 1])
  BY <1>1, <1>4, Zenon DEF IsWritten
<1>6. QED
  BY <1>4, <1>5, Zenon DEF Pieces

\* A piece begins outside of words.
LEMMA PieceBegins ==
  ASSUME NEW c, NEW s, NextChar(c, s), NEW q \in 1 .. Len(Pieces), NEW y, y = Pieces[q],
         IsPiece(doc, y), At + 1 = y.lo, Outside("space"), ~sharp_comment,
         Heard(y.dir - 1, y.words)
  PROVE  LeadsOn
<1>1. /\ y.lo \in Nat /\ y.hi \in Nat /\ y.lo <= y.hi /\ y.is \in {"gap", "word", "end"}
  BY DEF IsPiece
<1>a. y = doc.pieces[q] /\ y = doc'.pieces[q]
  <2>1. doc' = doc
    BY DEF NextChar
  <2>2. QED
    BY <2>1, Zenon DEF Pieces
<1>2. CASE y.is = "gap"
  <2>1. At \in Nat
    BY DEF NextChar
  <2>2. At + 1 \in y.lo .. y.hi /\ ~(At >= y.lo)
    BY <2>1, <1>1
  <2>3. InGap(y)' /\ GoesOn
    BY <2>2, <1>1, <1>2, GapChar, Zenon
  <2>4. QED
    BY <2>3, <1>a, Zenon DEF LeadsOn, Within, Pieces
<1>3. CASE y.is = "word"
  <2>1. WithinWord(y)' /\ GoesOn
    BY <1>1, <1>3, WordChar, Zenon
  <2>2. QED
    BY <2>1, <1>a, Zenon DEF LeadsOn, Within, Pieces
<1>4. CASE y.is = "end"
  <2>1. At' = y.hi /\ Told(y.dir)' /\ rc' \in {"ok", "block", "block_done"}
    BY <1>1, <1>4, EndChar, Zenon
  <2>2. QED
    BY <2>1, <1>4, <1>a, Zenon DEF LeadsOn, Finishes, Pieces
<1>5. QED
  BY <1>1, <1>2, <1>3, <1>4

\* Where the parser is while a call runs.
Placed ==
  \/ \E q \in 0 .. Len(Pieces) :
       Ended(q) /\ Outside("space") /\ ~sharp_comment /\ args = <<>>
  \/ \E q \in 1 .. Len(Pieces) : Within(Pieces[q])

\* Every character of a document is taken for what it is.
LEMMA CharLeads ==
  ASSUME NEW c, NEW s, NextChar(c, s), Placed
  PROVE  LeadsOn
<1>1. doc' = doc /\ IsWritten(doc) /\ At \in Nat
  BY DEF NextChar
<1>2. PICK n \in Nat : n = Len(Pieces)
  BY <1>1, PiecesCounted DEF Pieces
<1>3. ASSUME NEW q \in 1 .. n, NEW x, x = Pieces[q]
      PROVE  /\ q \in 0 .. n /\ q # 0 /\ Until(doc, q) = x.hi
             /\ IsPiece(doc, x) /\ x.lo \in Nat /\ x.hi \in Nat /\ x.lo <= x.hi
             /\ x.dir \in Nat /\ x.words \in Nat
             /\ x = doc.pieces[q] /\ x = doc'.pieces[q]
  <2>1. IsPiece(doc, x) /\ x = doc.pieces[q] /\ x = doc'.pieces[q]
    BY <1>1, <1>2, <1>3, Zenon DEF IsWritten, Pieces
  <2>2. q \in 0 .. n /\ q # 0
    OBVIOUS
  <2>3. Until(doc, q) = x.hi
    BY <2>1, <2>2, Zenon DEF Until
  <2>4. x.lo \in Nat /\ x.hi \in Nat /\ x.lo <= x.hi /\ x.dir \in Nat /\ x.words \in Nat
    BY <2>1 DEF IsPiece
  <2>5. QED
    BY <2>1, <2>2, <2>3, <2>4, Zenon
<1>4. ASSUME NEW q \in 0 .. n, Ended(q), Outside("space"), ~sharp_comment, args = <<>>
      PROVE  LeadsOn
  <2>1. At = Until(doc, q)
    <3>1. \A k \in 1 .. n : k # 0
      OBVIOUS
    <3>2. QED
      BY <3>1, <1>2, <1>4, Zenon DEF Ended, Until, Pieces
  <2>2. PICK y : y = Pieces[q + 1]
    OBVIOUS
  <2>3. /\ q + 1 \in 1 .. Len(Pieces) /\ IsPiece(doc, y)
        /\ q = 0 => IsFirst(y)
        /\ q # 0 => Behind(doc, Pieces[q], y)
        /\ At + 1 = y.lo
    BY <2>1, <2>2, <1>2, CharBehind, Zenon
  <2>4. Len(args) = 0 /\ y.dir \in Nat
    BY <2>3, <1>4 DEF IsPiece
  <2>5. Told(y.dir - 1) /\ y.words = 0
    <3>1. CASE q = 0
      <4>1. Told(0) /\ y.dir = 1 /\ y.words = 0
        <5>1. 0 \notin 1 .. Len(Pieces)
          BY <1>2
        <5>2. QED
          BY <5>1, <3>1, <2>3, <1>4, Zenon DEF Ended, IsFirst
      <4>2. 1 - 1 = 0
        OBVIOUS
      <4>3. QED
        BY <4>1, <4>2, Zenon
    <3>2. CASE q # 0
      <4>1. PICK x : x = Pieces[q]
        OBVIOUS
      <4>2. q \in 1 .. n
        BY <3>2
      <4>3. x.dir \in Nat
        BY <4>1, <4>2, <1>3, Zenon
      <4>4. x.is = "end" /\ Told(x.dir)
        BY <4>1, <3>2, <1>4, Zenon DEF Ended
      <4>5. y.dir = x.dir + 1 /\ y.words = 0
        BY <4>1, <4>4, <3>2, <2>3 DEF Behind
      <4>6. y.dir - 1 = x.dir
        BY <4>3, <4>5
      <4>7. QED
        BY <4>4, <4>5, <4>6, Zenon
    <3>3. QED
      BY <3>1, <3>2
  <2>6. Heard(y.dir - 1, y.words)
    <3>1. \A k \in 1 .. 0 : FALSE
      OBVIOUS
    <3>2. QED
      BY <3>1, <2>4, <2>5, Zenon DEF Heard
  <2>7. QED
    BY <2>2, <2>3, <2>6, <1>4, PieceBegins, Zenon
<1>5. ASSUME NEW q \in 1 .. n, NEW x, x = Pieces[q], InGap(x)
      PROVE  LeadsOn
  <2>1. /\ q \in 0 .. n /\ q # 0 /\ Until(doc, q) = x.hi
        /\ IsPiece(doc, x) /\ x.lo \in Nat /\ x.hi \in Nat /\ x.lo <= x.hi
        /\ x = doc.pieces[q] /\ x = doc'.pieces[q]
    BY <1>3, <1>5, Zenon
  <2>2. /\ x.is = "gap" /\ At \in x.lo .. x.hi /\ Outside("space")
        /\ sharp_comment <=> Commented(doc, x.lo, At)
        /\ Heard(x.dir - 1, x.words)
    BY <1>5, Zenon DEF InGap
  <2>3. CASE At = x.hi
    <3>1. PICK y : y = Pieces[q + 1]
      OBVIOUS
    <3>2. /\ q + 1 \in 1 .. Len(Pieces) /\ IsPiece(doc, y) /\ Behind(doc, x, y)
          /\ At + 1 = y.lo
      BY <3>1, <2>1, <2>3, <1>2, <1>5, CharBehind, Zenon
    <3>3. /\ y.dir = x.dir /\ y.words = x.words /\ ~Commented(doc, x.lo, x.hi)
      BY <3>2, <2>2 DEF Behind
    <3>4. Heard(y.dir - 1, y.words) /\ ~sharp_comment
      BY <3>3, <2>2, <2>3, Zenon
    <3>5. QED
      BY <3>1, <3>2, <3>4, <2>2, PieceBegins, Zenon
  <2>4. CASE At # x.hi
    <3>1. At + 1 \in x.lo .. x.hi /\ At >= x.lo
      BY <2>1, <2>2, <2>4, <1>1
    <3>2. InGap(x)' /\ GoesOn
      BY <3>1, <2>1, <2>2, GapChar, Zenon
    <3>3. QED
      BY <3>2, <2>1, <1>2, Zenon DEF LeadsOn, Within, Pieces
  <2>5. QED
    BY <2>3, <2>4
<1>6. ASSUME NEW q \in 1 .. n, NEW x, x = Pieces[q], WithinWord(x)
      PROVE  LeadsOn
  <2>1. /\ q \in 0 .. n /\ q # 0 /\ Until(doc, q) = x.hi
        /\ IsPiece(doc, x) /\ x.lo \in Nat /\ x.hi \in Nat /\ x.lo <= x.hi
        /\ x = doc.pieces[q] /\ x = doc'.pieces[q]
    BY <1>3, <1>6, Zenon
  <2>2. x.is = "word"
    BY <1>6, Zenon DEF WithinWord
  <2>3. PICK i \in 1 .. Len(x.from) : BeforeLetter(x, i) \/ InLetter(x, i)
    BY <1>6, Zenon DEF WithinWord
  <2>4. PICK m \in Nat : m = Len(x.from)
    <3>1. x.from \in Seq(Nat)
      BY <2>1, <2>2, <1>1, WordFacts
    <3>2. QED
      BY <3>1
  <2>5. CASE i # m
    <3>1. i \in 1 .. m - 1
      <4>1. i \in 1 .. m
        BY <2>4, Zenon
      <4>2. QED
        BY <4>1, <2>5
    <3>2. i \in 1 .. Len(x.from) - 1
      BY <3>1, <2>4, Zenon
    <3>3. WithinWord(x)' /\ GoesOn
      BY <3>2, <2>1, <2>2, <2>3, <1>6, InsideChar, Zenon
    <3>4. QED
      BY <3>3, <2>1, <1>2, Zenon DEF LeadsOn, Within, Pieces
  <2>6. CASE i = m
    <3>1. BeforeLetter(x, Len(x.from))
      <4>1. m \notin 1 .. m - 1
        OBVIOUS
      <4>2. ~InLetter(x, m)
        BY <4>1, <2>4, Zenon DEF InLetter
      <4>3. QED
        BY <4>2, <2>3, <2>4, <2>6, Zenon
    <3>2. CASE x.style = "word"
      <4>1. At = x.hi
        <5>1. x.from[Len(x.from)] = x.hi + 1
          BY <3>2, <2>1, <2>2, <1>1, WordFacts
        <5>2. At + 1 = x.hi + 1
          BY <5>1, <3>1, Zenon DEF BeforeLetter
        <5>3. QED
          BY <5>2, <2>1, <1>1
      <4>2. PICK y : y = Pieces[q + 1]
        OBVIOUS
      <4>3. q + 1 \in 1 .. Len(Pieces) /\ IsPiece(doc, y) /\ Behind(doc, x, y)
        BY <4>1, <4>2, <2>1, <1>2, <1>6, CharBehind, Zenon
      <4>4. (InGap(y)' /\ GoesOn) \/ Finishes(y) \/ Fails
        BY <4>3, <3>1, <3>2, <2>1, <2>2, <1>6, BareEnds, Zenon
      <4>5. y = doc'.pieces[q + 1]
        BY <4>2, <1>1, Zenon DEF Pieces
      <4>6. QED
        BY <4>2, <4>3, <4>4, <4>5, <1>1, Zenon DEF LeadsOn, Within, Pieces
    <3>3. CASE x.style # "word"
      <4>1. (BehindQuote(x)' /\ GoesOn) \/ Fails
        BY <3>1, <3>3, <2>1, <2>2, <1>6, QuotedEnds, Zenon
      <4>2. QED
        BY <4>1, <2>1, <1>2, Zenon DEF LeadsOn, Within, Pieces
    <3>4. QED
      BY <3>2, <3>3
  <2>7. QED
    BY <2>5, <2>6
<1>7. ASSUME NEW q \in 1 .. n, NEW x, x = Pieces[q], BehindQuote(x)
      PROVE  LeadsOn
  <2>1. /\ q \in 0 .. n /\ q # 0 /\ Until(doc, q) = x.hi /\ IsPiece(doc, x)
    BY <1>3, <1>7, Zenon
  <2>2. At = x.hi
    BY <1>7, Zenon DEF BehindQuote
  <2>3. PICK y : y = Pieces[q + 1]
    OBVIOUS
  <2>4. q + 1 \in 1 .. Len(Pieces) /\ IsPiece(doc, y) /\ Behind(doc, x, y)
    BY <2>1, <2>2, <2>3, <1>2, <1>7, CharBehind, Zenon
  <2>5. (InGap(y)' /\ GoesOn) \/ Finishes(y)
    BY <2>1, <2>4, <1>7, BehindQuoteChar, Zenon
  <2>6. y = doc'.pieces[q + 1]
    BY <2>3, <1>1, Zenon DEF Pieces
  <2>7. QED
    BY <2>3, <2>4, <2>5, <2>6, <1>1, Zenon DEF LeadsOn, Within, Pieces
<1>8. QED
  BY <1>2, <1>4, <1>5, <1>6, <1>7, Zenon DEF Placed, Within

\* What the invariant says, with the names above.
LEMMA UnderstoodParts ==
  Understood <=> /\ IsWritten(doc) /\ Cut
                 /\ \E n \in 0 .. Len(doc.says) : Told(n)
                 /\ rc \in {"none", "ok", "block", "block_done"}
                      => \E q \in 0 .. Len(Pieces) : Ended(q)
                 /\ rc = "reading" => Placed
                 /\ NothingLost /\ ValidAccepted
BY Zenon DEF Understood, Placed, Within

\* So is what stands behind it.
LEMMA CharUnderstood ==
  ASSUME Understood, NEW c, NEW s, NextChar(c, s), rc = "reading"
  PROVE  Understood'
<1>1. Placed /\ IsWritten(doc) /\ Cut /\ \E n \in 0 .. Len(doc.says) : Told(n)
  BY UnderstoodParts, Zenon
<1>2. doc' = doc /\ file' = file
  BY DEF NextChar
<1>3. LeadsOn
  BY <1>1, CharLeads, Zenon
<1>4. IsWritten(doc)' /\ Cut'
  BY <1>1, <1>2, Zenon DEF Cut
<1>5. ASSUME out' = out
      PROVE  (\E n \in 0 .. Len(doc.says) : Told(n))'
  BY <1>1, <1>2, <1>5, Zenon DEF Told
<1>6. CASE GoesOn /\ \E q \in 1 .. Len(Pieces) : Within(Pieces[q])'
  <2>1. out' = out /\ rc' = "reading"
    BY <1>6 DEF GoesOn
  <2>2. Pieces' = Pieces
    BY <1>2, Zenon DEF Pieces
  <2>3. Placed'
    BY <2>2, <1>6, Zenon DEF Placed
  <2>4. NothingLost' /\ ValidAccepted' /\ rc' \notin {"none", "ok", "block", "block_done"}
    BY <2>1 DEF NothingLost, ValidAccepted
  <2>5. Understood'
    BY <2>1, <2>3, <2>4, <1>4, <1>5, Zenon DEF Understood, Placed, Within
  <2>6. QED
    BY <2>5
<1>7. CASE \E q \in 1 .. Len(Pieces) : Finishes(Pieces[q])
  <2>1. PICK q \in 1 .. Len(Pieces) : Finishes(Pieces[q])
    BY <1>7
  <2>2. PICK x : x = Pieces[q]
    OBVIOUS
  <2>3. x.is = "end" /\ At' = x.hi /\ Told(x.dir)' /\ rc' \in {"ok", "block", "block_done"}
    <3>1. Pieces[q]' = Pieces[q]
      BY <1>2, Zenon DEF Pieces
    <3>2. QED
      BY <3>1, <2>1, <2>2, Zenon DEF Finishes
  <2>4. Pieces' = Pieces
    BY <1>2, Zenon DEF Pieces
  <2>5. q \in 0 .. Len(Pieces)
    <3>1. Len(Pieces) \in Nat
      BY <1>1, PiecesCounted DEF Pieces
    <3>2. QED
      BY <3>1
  <2>6. Ended(q)'
    BY <2>2, <2>3, <2>4, Zenon DEF Ended
  <2>7. (\E k \in 0 .. Len(Pieces) : Ended(k))'
    BY <2>4, <2>5, <2>6, Zenon
  <2>8. (\E n \in 0 .. Len(doc.says) : Told(n))'
    <3>1. x.dir \in Nat
      BY <2>2, <1>1, PieceFacts DEF Pieces
    <3>2. doc'.says \in Seq(Result) /\ Len(doc'.says) \in Nat
      BY <1>1, <1>2 DEF IsWritten, Result
    <3>3. x.dir <= Len(doc'.says)
      BY <2>3, Zenon DEF Told
    <3>4. x.dir \in 0 .. Len(doc'.says)
      BY <3>1, <3>2, <3>3
    <3>5. QED
      BY <3>4, <2>3, Zenon
  <2>9. NothingLost' /\ ValidAccepted' /\ rc' # "reading"
    BY <2>3 DEF NothingLost, ValidAccepted
  <2>10. QED
    BY <2>7, <2>8, <2>9, <1>4, Zenon DEF Understood
<1>8. CASE Fails
  <2>1. out' = out /\ rc' = "memory"
    BY <1>8 DEF Fails
  <2>2. /\ NothingLost' /\ ValidAccepted' /\ rc' \notin {"none", "ok", "block", "block_done"}
        /\ rc' # "reading"
    BY <2>1 DEF NothingLost, ValidAccepted
  <2>3. QED
    BY <2>1, <2>2, <1>4, <1>5, Zenon DEF Understood
<1>9. QED
  BY <1>3, <1>6, <1>7, <1>8 DEF LeadsOn

\* A piece that goes to the end of the text is the last one.
LEMMA LastPiece ==
  ASSUME NEW d, d.text \in Seq(Char), IsWritten(d), NEW q \in 1 .. Len(d.pieces),
         d.pieces[q].hi >= Len(d.text)
  PROVE  IsLast(d, d.pieces[q])
<1>1. PICK n \in Nat : n = Len(d.pieces)
  BY PiecesCounted
<1>2. q = n
  <2>1. SUFFICES ASSUME q # n
                 PROVE  FALSE
    OBVIOUS
  <2>2. q \in 1 .. Len(d.pieces) /\ n \in 1 .. Len(d.pieces) /\ q < n
    BY <2>1, <1>1
  <2>3. Precedes(d.pieces[q], d.pieces[n])
    BY <2>2, <1>1, PiecesOrdered, Zenon
  <2>4. PICK x : x = d.pieces[q]
    OBVIOUS
  <2>5. PICK y : y = d.pieces[n]
    OBVIOUS
  <2>6. /\ x.hi \in Nat /\ y.lo \in Nat /\ y.hi \in Nat /\ y.lo <= y.hi
        /\ y.hi <= Len(d.text)
    BY <2>2, <2>4, <2>5, PieceFacts
  <2>7. x.hi < y.lo /\ x.hi >= Len(d.text)
    BY <2>3, <2>4, <2>5, Zenon DEF Precedes
  <2>8. Len(d.text) \in Nat
    OBVIOUS
  <2>9. QED
    BY <2>6, <2>7, <2>8
<1>3. d.pieces # <<>>
  <2>1. Len(<<>>) = 0 /\ n # 0
    BY <1>2
  <2>2. QED
    BY <2>1, <1>1, Zenon
<1>4. QED
  BY <1>1, <1>2, <1>3, Zenon DEF IsWritten

\* Place a, in x, is outside of directives and n of them are before it.
Between(x, a, n) ==
  \/ x.is = "end" /\ a = x.hi /\ n = x.dir
  \/ x.is = "gap" /\ a \in x.lo .. x.hi /\ x.words = 0 /\ n = x.dir - 1

\* Directive k, from lo to hi, is one of the n that are before a, or behind a.
Aside(lo, hi, k, a, n) == IF hi <= a THEN k <= n ELSE a < lo

\* Where a directive is, seen from there.
LEMMA SpanSide ==
  ASSUME NEW d, IsWritten(d), NEW q \in 1 .. Len(d.pieces), NEW x, x = d.pieces[q],
         NEW a \in Nat, NEW n \in Int, Between(x, a, n),
         NEW i \in 1 .. Len(d.pieces), NEW y, y = d.pieces[i], y.is # "gap", y.words = 0,
         NEW j \in 1 .. Len(d.pieces), NEW z, z = d.pieces[j], z.is = "end", z.dir = y.dir
  PROVE  Aside(y.lo, z.hi, y.dir, a, n)
<1>0. \/ x.is = "end" /\ a = x.hi /\ n = x.dir
      \/ x.is = "gap" /\ a \in x.lo .. x.hi /\ x.words = 0 /\ n = x.dir - 1
  BY Zenon DEF Between
<1>1. PICK total \in Nat : total = Len(d.pieces)
  BY PiecesCounted
<1>2. /\ x.lo \in Nat /\ x.hi \in Nat /\ x.dir \in Nat /\ x.words \in Nat /\ x.lo <= x.hi
  BY PieceFacts
<1>3. /\ y.lo \in Nat /\ y.hi \in Nat /\ y.dir \in Nat /\ y.words \in Nat /\ y.lo <= y.hi
      /\ y.is \in {"gap", "word", "end"}
  BY PieceFacts
<1>4. /\ z.lo \in Nat /\ z.hi \in Nat /\ z.lo <= z.hi
  BY PieceFacts
<1>5. i \in 1 .. total /\ j \in 1 .. total /\ q \in 1 .. total
  BY <1>1, Zenon
<1>6. (i < q => Precedes(y, x)) /\ (q < i => Precedes(x, y))
  BY <1>1, PiecesOrdered, Zenon
<1>7. (j < q => Precedes(z, x)) /\ (q < j => Precedes(x, z))
  BY <1>1, PiecesOrdered, Zenon
<1>8. a <= x.hi /\ a >= x.lo
  BY <1>0, <1>2
<1>9. CASE z.hi <= a
  <2>1. ~(q < j)
    <3>1. ASSUME q < j
          PROVE  FALSE
      <4>1. x.hi < z.lo
        BY <3>1, <1>7, Zenon DEF Precedes
      <4>2. PICK e \in Nat, f \in Nat, g \in Nat : e = x.hi /\ f = z.lo /\ g = z.hi
        BY <1>2, <1>4
      <4>3. e < f /\ f <= g /\ g <= a /\ a <= e
        BY <4>1, <4>2, <1>4, <1>8, <1>9, Zenon
      <4>4. QED
        BY <4>3
    <3>2. QED
      BY <3>1
  <2>2. CASE j = q
    <3>1. x = z
      BY <2>2, Zenon
    <3>2. x.is = "end" /\ x.is # "gap" /\ x.dir = y.dir
      BY <3>1
    <3>3. n = x.dir
      BY <3>2, <1>0, Zenon
    <3>4. y.dir <= n
      BY <3>2, <3>3, <1>2
    <3>5. QED
      BY <3>4, <1>9 DEF Aside
  <2>3. CASE j < q
    <3>1. z.dir < x.dir
      BY <2>3, <1>7, Zenon DEF Precedes
    <3>2. y.dir < x.dir
      BY <3>1, Zenon
    <3>3. n = x.dir \/ n = x.dir - 1
      BY <1>0, Zenon
    <3>4. y.dir <= n
      <4>1. PICK e \in Nat, f \in Nat : e = y.dir /\ f = x.dir
        BY <1>2, <1>3
      <4>2. e < f /\ (n = f \/ n = f - 1)
        BY <4>1, <3>2, <3>3, Zenon
      <4>3. e <= n
        BY <4>2
      <4>4. QED
        BY <4>1, <4>3, Zenon
    <3>5. QED
      BY <3>4, <1>9 DEF Aside
  <2>4. QED
    BY <2>1, <2>2, <2>3, <1>5
<1>10. CASE ~(z.hi <= a)
  <2>1. ~(j < q)
    <3>1. ASSUME j < q
          PROVE  FALSE
      <4>1. z.hi < x.lo
        BY <3>1, <1>7, Zenon DEF Precedes
      <4>2. QED
        BY <4>1, <1>2, <1>4, <1>8, <1>10
    <3>2. QED
      BY <3>1
  <2>2. j # q
    <3>1. ASSUME j = q
          PROVE  FALSE
      <4>1. x = z /\ x.is = "end"
        BY <3>1, Zenon
      <4>2. x.is # "gap"
        BY <4>1
      <4>3. a = z.hi
        BY <4>1, <4>2, <1>0, Zenon
      <4>4. QED
        BY <4>3, <1>4, <1>10
    <3>2. QED
      BY <3>1
  <2>3. x.dir <= y.dir /\ (x.is = "end" => x.dir < y.dir)
    <3>1. q < j
      BY <2>1, <2>2, <1>5
    <3>2. x.dir <= z.dir /\ (x.is = "end" => x.dir < z.dir)
      BY <3>1, <1>7, Zenon DEF Precedes
    <3>3. QED
      BY <3>2, Zenon
  <2>4. CASE q < i
    <3>1. x.hi < y.lo
      BY <2>4, <1>6, Zenon DEF Precedes
    <3>2. a < y.lo
      BY <3>1, <1>2, <1>3, <1>8
    <3>3. QED
      BY <3>2, <1>10 DEF Aside
  <2>5. CASE i = q
    <3>1. x = y
      BY <2>5, Zenon
    <3>2. x.is = "end"
      BY <3>1, <1>0, Zenon
    <3>3. x.dir < x.dir
      BY <3>1, <3>2, <2>3, Zenon
    <3>4. QED
      BY <3>3, <1>2
  <2>6. CASE i < q
    <3>1. /\ y.dir <= x.dir /\ (y.is = "end" => y.dir < x.dir)
          /\ (y.dir = x.dir /\ y.is = "word" => y.words < x.words)
      BY <2>6, <1>6, Zenon DEF Precedes
    <3>2. y.dir = x.dir
      BY <3>1, <2>3, <1>2, <1>3
    <3>3. x.is # "end" /\ y.is # "end"
      <4>1. ~(x.dir < y.dir) /\ ~(y.dir < x.dir)
        BY <3>2, <1>2, <1>3
      <4>2. QED
        BY <4>1, <3>1, <2>3, Zenon
    <3>4. y.is = "word" /\ x.words = 0
      BY <3>3, <1>0, <1>3
    <3>5. y.words < x.words
      BY <3>1, <3>2, <3>4, Zenon
    <3>6. QED
      BY <3>4, <3>5, <1>2, <1>3
  <2>7. QED
    BY <2>4, <2>5, <2>6, <1>5
<1>11. QED
  BY <1>9, <1>10 DEF Aside

\* The directives that are before place a are the first n.
LEMMA SpansBefore ==
  ASSUME NEW d, IsWritten(d), NEW q \in 1 .. Len(d.pieces), NEW x, x = d.pieces[q],
         NEW a \in Nat, NEW n \in Int, Between(x, a, n)
  PROVE  \A k \in 1 .. Len(d.says) : IF d.spans[k][2] <= a THEN k <= n ELSE a < d.spans[k][1]
<1>1. SUFFICES ASSUME NEW k \in 1 .. Len(d.says)
               PROVE  IF d.spans[k][2] <= a THEN k <= n ELSE a < d.spans[k][1]
  OBVIOUS
<1>2. IsSpan(d, k)
  BY Zenon DEF IsWritten
<1>3. PICK i \in 1 .. Len(d.pieces), j \in 1 .. Len(d.pieces) :
        /\ d.pieces[i].is # "gap" /\ d.pieces[i].dir = k /\ d.pieces[i].words = 0
        /\ d.pieces[j].is = "end" /\ d.pieces[j].dir = k
        /\ d.spans[k] = <<d.pieces[i].lo, d.pieces[j].hi>>
  BY <1>2, Zenon DEF IsSpan
<1>4. PICK y : y = d.pieces[i]
  OBVIOUS
<1>5. PICK z : z = d.pieces[j]
  OBVIOUS
<1>6. Aside(y.lo, z.hi, y.dir, a, n)
  <2>1. y.is # "gap" /\ y.words = 0 /\ z.is = "end" /\ z.dir = y.dir
    BY <1>3, <1>4, <1>5, Zenon
  <2>2. QED
    BY <2>1, <1>4, <1>5, SpanSide, Zenon
<1>7. d.spans[k][1] = y.lo /\ d.spans[k][2] = z.hi
  <2>1. d.spans[k] = <<y.lo, z.hi>>
    BY <1>3, <1>4, <1>5, Zenon
  <2>2. QED
    BY <2>1
<1>8. y.dir = k
  BY <1>3, <1>4, Zenon
<1>9. QED
  BY <1>6, <1>7, <1>8, Zenon DEF Aside

\* None is before the first character.
LEMMA SpansBehind ==
  ASSUME NEW d, IsWritten(d)
  PROVE  \A k \in 1 .. Len(d.says) : ~(d.spans[k][2] <= 0) /\ 0 < d.spans[k][1]
<1>1. SUFFICES ASSUME NEW k \in 1 .. Len(d.says)
               PROVE  ~(d.spans[k][2] <= 0) /\ 0 < d.spans[k][1]
  OBVIOUS
<1>2. IsSpan(d, k)
  BY Zenon DEF IsWritten
<1>3. PICK i \in 1 .. Len(d.pieces), j \in 1 .. Len(d.pieces) :
        d.spans[k] = <<d.pieces[i].lo, d.pieces[j].hi>>
  BY <1>2, Zenon DEF IsSpan
<1>4. PICK y : y = d.pieces[i]
  OBVIOUS
<1>5. PICK z : z = d.pieces[j]
  OBVIOUS
<1>6. y.lo \in Nat /\ 1 <= y.lo
  BY <1>4, PieceFacts
<1>7. z.lo \in Nat /\ z.hi \in Nat /\ 1 <= z.lo /\ z.lo <= z.hi
  BY <1>5, PieceFacts
<1>8. d.spans[k][1] = y.lo /\ d.spans[k][2] = z.hi
  <2>1. d.spans[k] = <<y.lo, z.hi>>
    BY <1>3, <1>4, <1>5, Zenon
  <2>2. QED
    BY <2>1
<1>9. QED
  BY <1>6, <1>7, <1>8

\* The parser is not behind the piece that it is in.
LEMMA WithinPiece ==
  ASSUME IsWritten(doc), At \in Nat, NEW x, IsPiece(doc, x), Within(x)
  PROVE  At <= x.hi
<1>1. x.lo \in Nat /\ x.hi \in Nat
  BY DEF IsPiece
<1>2. CASE InGap(x)
  <2>1. At \in x.lo .. x.hi
    BY <1>2, Zenon DEF InGap
  <2>2. QED
    BY <2>1, <1>1
<1>3. CASE BehindQuote(x)
  <2>1. At = x.hi
    BY <1>3, Zenon DEF BehindQuote
  <2>2. QED
    BY <2>1, <1>1
<1>4. CASE WithinWord(x)
  <2>1. x.is = "word"
    BY <1>4, Zenon DEF WithinWord
  <2>2. PICK f \in Seq(Nat) : f = x.from
    BY <2>1, WordFacts
  <2>3. PICK m \in Nat : m = Len(f)
    OBVIOUS
  <2>4. /\ \A i, k \in 1 .. m : i <= k => f[i] <= f[k]
        /\ f[m] = x.hi + 1 \/ f[m] = x.hi
    <3>1. /\ \A i, k \in 1 .. Len(x.from) : i <= k => x.from[i] <= x.from[k]
          /\ x.from[Len(x.from)] = x.hi + 1 \/ x.from[Len(x.from)] = x.hi
      BY <2>1, WordFacts, Zenon
    <3>2. QED
      BY <3>1, <2>2, <2>3, Zenon
  <2>5. PICK i \in 1 .. m : BeforeLetter(x, i) \/ InLetter(x, i)
    BY <1>4, <2>2, <2>3, Zenon DEF WithinWord
  <2>6. m \in 1 .. m /\ i <= m
    BY <2>5
  <2>7. PICK last \in Nat : last = f[m] /\ last <= x.hi + 1
    <3>1. f[m] \in Nat
      BY <2>3, <2>6
    <3>2. f[m] <= x.hi + 1
      BY <3>1, <2>4, <1>1
    <3>3. QED
      BY <3>1, <3>2
  <2>8. CASE BeforeLetter(x, i)
    <3>1. At + 1 = f[i]
      BY <2>8, <2>2, Zenon DEF BeforeLetter
    <3>2. f[i] <= last
      BY <2>4, <2>5, <2>6, <2>7, Zenon
    <3>3. At + 1 <= last
      BY <3>1, <3>2, Zenon
    <3>4. QED
      BY <3>3, <2>7, <1>1
  <2>9. CASE InLetter(x, i)
    <3>1. At + 2 = f[i + 1] /\ i \in 1 .. m - 1
      BY <2>9, <2>2, <2>3, Zenon DEF InLetter
    <3>2. i + 1 \in 1 .. m /\ i + 1 <= m
      BY <3>1
    <3>3. f[i + 1] <= last
      BY <3>2, <2>4, <2>6, <2>7, Zenon
    <3>4. At + 2 <= last
      BY <3>1, <3>3, Zenon
    <3>5. QED
      BY <3>4, <2>7, <1>1
  <2>10. QED
    BY <2>5, <2>8, <2>9
<1>5. QED
  BY <1>2, <1>3, <1>4 DEF Within

\* The file ends between two directives, or it was cut.
LEMMA EndUnderstood ==
  ASSUME IsWritten(doc), Cut, file \in Seq(Char), args \in Seq(Seq(Char)), Placed,
         At = Len(file)
  PROVE  /\ args = <<>> /\ mode = "space"
              => \A k \in 1 .. Len(doc.says) :
                   IF doc.spans[k][2] <= Len(file) THEN k <= Len(out)
                                                   ELSE Len(file) < doc.spans[k][1]
         /\ args # <<>> \/ mode # "space" => Len(file) < Len(doc.text)
<1>1. PICK a \in Nat : a = Len(file) /\ a = At
  OBVIOUS
<1>2. PICK total \in Nat : total = Len(doc.text) /\ a <= total /\ doc.text \in Seq(Char)
  <2>1. doc.text \in Seq(Char)
    BY DEF IsWritten
  <2>2. Len(file) <= Len(doc.text)
    BY DEF Cut
  <2>3. QED
    BY <2>1, <2>2, <1>1
<1>3. CASE \E q \in 0 .. Len(Pieces) :
             Ended(q) /\ Outside("space") /\ ~sharp_comment /\ args = <<>>
  <2>1. PICK q \in 0 .. Len(Pieces) : Ended(q)
    BY <1>3, Zenon
  <2>2. args = <<>> /\ mode = "space"
    BY <1>3, Zenon DEF Outside
  <2>3. CASE q = 0 /\ At = 0 /\ Told(0)
    <3>1. a = 0
      BY <2>3, <1>1, Zenon
    <3>2. QED
      BY <3>1, <2>2, <1>1, SpansBehind, Zenon
  <2>4. CASE /\ q \in 1 .. Len(Pieces) /\ Pieces[q].is = "end" /\ At = Pieces[q].hi
             /\ Told(Pieces[q].dir)
    <3>1. PICK x : x = doc.pieces[q]
      OBVIOUS
    <3>2. x.is = "end" /\ a = x.hi /\ Told(x.dir) /\ q \in 1 .. Len(doc.pieces)
      BY <3>1, <2>4, <1>1, Zenon DEF Pieces
    <3>3. PICK n \in Int : n = x.dir
      BY <3>1, <3>2, PieceFacts
    <3>4. \A k \in 1 .. Len(doc.says) :
            IF doc.spans[k][2] <= a THEN k <= n ELSE a < doc.spans[k][1]
      <4>1. Between(x, a, n)
        BY <3>2, <3>3, Zenon DEF Between
      <4>2. QED
        BY <4>1, <3>1, <3>2, SpansBefore, Zenon
    <3>5. n = Len(out)
      BY <3>2, <3>3, Zenon DEF Told
    <3>6. QED
      BY <3>4, <3>5, <2>2, <1>1, Zenon
  <2>5. QED
    BY <2>1, <2>3, <2>4, Zenon DEF Ended
<1>4. CASE \E q \in 1 .. Len(Pieces) : Within(Pieces[q])
  <2>1. PICK q \in 1 .. Len(doc.pieces) : Within(doc.pieces[q])
    BY <1>4, Zenon DEF Pieces
  <2>2. PICK x : x = doc.pieces[q]
    OBVIOUS
  <2>3. /\ IsPiece(doc, x) /\ x.lo \in Nat /\ x.hi \in Nat /\ x.dir \in Nat /\ x.words \in Nat
        /\ x.hi <= Len(doc.text) /\ x.is \in {"gap", "word", "end"}
    BY <2>2, PieceFacts
  <2>4. Within(x)
    BY <2>1, <2>2, Zenon
  <2>5. ASSUME args = <<>>, mode = "space"
        PROVE  \A k \in 1 .. Len(doc.says) :
                 IF doc.spans[k][2] <= Len(file) THEN k <= Len(out)
                                                 ELSE Len(file) < doc.spans[k][1]
    <3>1. ~BehindQuote(x)
      BY <2>5 DEF BehindQuote, Outside
    <3>2. ~WithinWord(x)
      <4>1. WithinWord(x) => x.style \in {"word", "dq", "sq"} /\ mode = x.style
        BY <2>3, WordFacts DEF WithinWord
      <4>2. QED
        BY <4>1, <2>5
    <3>3. InGap(x)
      BY <3>1, <3>2, <2>4, Zenon DEF Within
    <3>4. x.is = "gap" /\ a \in x.lo .. x.hi /\ Heard(x.dir - 1, x.words)
      BY <3>3, <1>1, Zenon DEF InGap
    <3>5. x.words = 0
      <4>1. Len(<<>>) = 0
        OBVIOUS
      <4>2. QED
        BY <4>1, <3>4, <2>5, Zenon DEF Heard
    <3>6. PICK n \in Int : n = x.dir - 1
      BY <2>3
    <3>7. \A k \in 1 .. Len(doc.says) :
            IF doc.spans[k][2] <= a THEN k <= n ELSE a < doc.spans[k][1]
      <4>1. Between(x, a, n)
        BY <3>4, <3>5, <3>6, Zenon DEF Between
      <4>2. QED
        BY <4>1, <2>2, SpansBefore, Zenon
    <3>8. n = Len(out)
      BY <3>4, <3>6, Zenon DEF Heard, Told
    <3>9. QED
      BY <3>7, <3>8, <1>1, Zenon
  <2>6. ASSUME args # <<>> \/ mode # "space"
        PROVE  Len(file) < Len(doc.text)
    <3>1. SUFFICES ASSUME a = total
                   PROVE  FALSE
      <4>1. a = total \/ a < total
        BY <1>2
      <4>2. QED
        BY <4>1, <1>1, <1>2, Zenon
    <3>2. At \in Nat
      BY <1>1
    <3>3. At <= x.hi
      BY <3>2, <2>3, <2>4, WithinPiece, Zenon
    <3>4. x.hi >= Len(doc.text)
      <4>1. a <= x.hi /\ total = Len(doc.text)
        BY <3>3, <1>1, <1>2, Zenon
      <4>2. QED
        BY <4>1, <3>1, <2>3
    <3>5. IsLast(doc, x)
      <4>1. doc.pieces[q].hi >= Len(doc.text)
        BY <3>4, <2>2, Zenon
      <4>2. QED
        BY <4>1, <2>2, <1>2, LastPiece, Zenon
    <3>6. x.is # "word"
      BY <3>5 DEF IsLast
    <3>7. InGap(x)
      BY <3>6, <2>4, Zenon DEF Within, WithinWord, BehindQuote
    <3>8. x.is = "gap" /\ mode = "space" /\ Len(args) = x.words
      BY <3>7, Zenon DEF InGap, Outside, Heard
    <3>9. x.words = 0
      BY <3>5, <3>8 DEF IsLast
    <3>10. args = <<>>
      BY <3>8, <3>9, EmptySeq
    <3>11. QED
      BY <3>8, <3>10, <2>6, Zenon
  <2>7. QED
    BY <2>5, <2>6, Zenon
<1>5. QED
  BY <1>3, <1>4, Zenon DEF Placed

----------------------------------------------------------------------------
(***************************************************************************)
(* The steps.                                                              *)
(***************************************************************************)

\* A step that takes one character from the buffer takes it from the document.
LEMMA CharTaken ==
  ASSUME IndInv, Understood, GetChar,
         \/ /\ Stays(ch, SubSeq(buf, start + 1, pos + 1)) \/ NoMemory(ch)
            /\ UNCHANGED start
         \/ Starts(ch) /\ start' = pos
         \/ StartsBehind(ch) /\ start' = pos + 1
  PROVE  Understood'
<1>1. /\ TypeOK /\ Given /\ Shown /\ TokenInv
      /\ pos \in Nat /\ start \in Nat /\ Base \in Nat
  BY InvParts
<1>2. /\ rc = "reading" /\ pos' = pos + 1 /\ pos < Len(buf)
      /\ ch = file[Base + pos + 1] /\ Base' = Base /\ file' = file
  BY CharFacts
<1>3. doc' = doc
  BY DEF GetChar, input
<1>4. IsWritten(doc) /\ Cut
  BY Zenon DEF Understood
<1>5. /\ start <= pos /\ Len(buf) \in Nat /\ Base + Len(buf) <= Len(file) /\ Len(file) \in Nat
      /\ file \in Seq(Char)
  BY <1>1 DEF TypeOK, Shown, Given
<1>6. /\ At = Base + pos /\ WordAt = Base + start /\ At' = Base' + pos' /\ WordAt' = Base' + start'
  BY DEF At, WordAt
<1>7. /\ At \in Nat /\ WordAt \in Nat /\ WordAt <= At /\ At + 1 <= Len(file) /\ At' = At + 1
      /\ At + 1 = Base + pos + 1 /\ At + 1 = Base + (pos + 1) /\ At + 1 \in 1 .. Len(file)
      /\ pos + 1 \in Nat /\ start <= pos + 1 /\ pos + 1 <= Len(buf)
  BY <1>1, <1>2, <1>5, <1>6
<1>8. ch = doc.text[At + 1]
  BY <1>2, <1>4, <1>7, Zenon DEF Cut
<1>9. SubSeq(buf, start + 1, pos + 1) = SubSeq(file, WordAt + 1, At + 1)
  <2>1. SubSeq(buf, start + 1, pos + 1) = SubSeq(file, (Base + start) + 1, Base + (pos + 1))
    BY <1>1, <1>7, PartShown
  <2>2. QED
    BY <2>1, <1>6, <1>7, Zenon
<1>10. PICK s : s = SubSeq(buf, start + 1, pos + 1)
  OBVIOUS
<1>11. TakesChar(ch, s)
  <2>1. start' = start => WordAt' = WordAt
    BY <1>2, <1>6, Zenon
  <2>2. start' = pos => WordAt' = At
    BY <1>2, <1>6, Zenon
  <2>3. start' = pos + 1 => WordAt' = At + 1
    BY <1>2, <1>6, <1>7, Zenon
  <2>4. QED
    BY <2>1, <2>2, <2>3, <1>10, Zenon DEF TakesChar
<1>12. Flags /\ args \in Seq(Seq(Char)) /\ out \in Seq(Result) /\ doc.text \in Seq(Char)
  <2>1. sharp_comment \in BOOLEAN /\ quoted \in BOOLEAN /\ variable \in BOOLEAN
    BY <1>1, Zenon DEF TokenInv, TokenTypeOK
  <2>2. args \in Seq(Seq(Char)) /\ out \in Seq(Result)
    BY <1>1 DEF TokenInv, TokenTypeOK, NeedBehindWord, Result
  <2>3. doc.text \in Seq(Char)
    BY <1>4, Zenon DEF IsWritten
  <2>4. QED
    BY <2>1, <2>2, <2>3, Zenon DEF Flags
<1>13. NextChar(ch, s)
  BY <1>2, <1>3, <1>4, <1>5, <1>7, <1>8, <1>9, <1>10, <1>11, <1>12, Zenon DEF NextChar
<1>14. QED
  BY <1>2, <1>13, CharUnderstood, Zenon

\* A call that ends without another character, and not at the end of the file.
LEMMA StopUnderstood ==
  ASSUME Understood, doc' = doc, file' = file, out' = out, rc' \in {"long", "read"}
  PROVE  Understood'
<1>1. IsWritten(doc) /\ Cut /\ \E n \in 0 .. Len(doc.says) : Told(n)
  BY Zenon DEF Understood
<1>2. (\E n \in 0 .. Len(doc.says) : Told(n))'
  BY <1>1, Zenon DEF Told
<1>3. IsWritten(doc)' /\ Cut'
  BY <1>1, Zenon DEF Cut
<1>4. /\ NothingLost' /\ ValidAccepted' /\ rc' \notin {"none", "ok", "block", "block_done"}
      /\ rc' # "reading"
  BY DEF NothingLost, ValidAccepted
<1>5. QED
  BY <1>2, <1>3, <1>4, Zenon DEF Understood

\* The buffer is refilled, or nothing happens: the place in the file stays.
LEMMA SamePlace ==
  ASSUME Understood, doc' = doc, file' = file, At' = At, WordAt' = WordAt, UNCHANGED token
  PROVE  Understood'
<1>1. UNCHANGED <<mode, sharp_comment, quoted, variable, args, rc, out>>
  BY DEF token, scanning
<1>2. IsWritten(doc)' /\ Cut' /\ Pieces' = Pieces
  BY Zenon DEF Understood, Cut, Pieces
<1>3. \A n : Told(n) => Told(n)'
  BY <1>1, Zenon DEF Told
<1>4. \A n, w : Heard(n, w) => Heard(n, w)'
  BY <1>1, <1>3, Zenon DEF Heard
<1>5. \A q : Ended(q) => Ended(q)'
  BY <1>2, <1>3, Zenon DEF Ended
<1>6. \A x : InGap(x) => InGap(x)'
  BY <1>1, <1>4, Zenon DEF InGap, Outside
<1>7. \A x, i : (BeforeLetter(x, i) => BeforeLetter(x, i)') /\ (InLetter(x, i) => InLetter(x, i)')
  BY <1>1, Zenon DEF BeforeLetter, InLetter
<1>8. \A x : WithinWord(x) => WithinWord(x)'
  BY <1>1, <1>4, <1>7, Zenon DEF WithinWord
<1>9. \A x : BehindQuote(x) => BehindQuote(x)'
  BY <1>1, <1>4, Zenon DEF BehindQuote, Outside
<1>10. Placed => Placed'
  BY <1>1, <1>2, <1>5, <1>6, <1>8, <1>9, Zenon DEF Placed, Within, Outside
<1>11. NothingLost' /\ ValidAccepted'
  BY <1>1, Zenon DEF Understood, NothingLost, ValidAccepted
<1>12. (\E n \in 0 .. Len(doc.says) : Told(n))'
  BY <1>3, Zenon DEF Understood
<1>13. rc' \in {"none", "ok", "block", "block_done"} => (\E q \in 0 .. Len(Pieces) : Ended(q))'
  BY <1>1, <1>2, <1>5, Zenon DEF Understood
<1>14. rc' = "reading" => Placed'
  BY <1>1, <1>10, UnderstoodParts, Zenon
<1>15. QED
  BY <1>2, <1>11, <1>12, <1>13, <1>14, Zenon DEF Understood, Placed, Within

\* Nothing was read yet.
LEMMA InitUnderstood ==
  ASSUME \A d \in Documents : IsWritten(d), Init
  PROVE  Understood
<1>1. PICK cut \in 0 .. Len(doc.text) : file = SubSeq(doc.text, 1, cut)
  BY DEF Init
<1>2. IsWritten(doc)
  BY DEF Init
<1>3. doc.text \in Seq(Char)
  BY <1>2 DEF IsWritten
<1>4. Cut
  <2>1. 0 + 1 = 1 /\ cut \in Nat /\ cut <= Len(doc.text) /\ cut - 0 = cut
        /\ \A p \in 1 .. cut : 0 + p = p
    BY <1>3
  <2>2. /\ Len(SubSeq(doc.text, 0 + 1, cut)) = cut - 0
        /\ \A p \in 1 .. cut - 0 : SubSeq(doc.text, 0 + 1, cut)[p] = doc.text[0 + p]
    BY <2>1, <1>3, Part
  <2>3. Len(file) = cut /\ \A p \in 1 .. cut : file[p] = doc.text[p]
    BY <2>1, <2>2, <1>1, Zenon
  <2>4. QED
    BY <2>1, <2>3, Zenon DEF Cut
<1>5. out = <<>> /\ rc = "none"
  BY DEF Init, TokenInit
<1>6. PICK total \in Nat : total = Len(doc.says)
  BY <1>2 DEF IsWritten
<1>7. Told(0)
  <2>1. Len(out) = 0 /\ 0 <= total /\ \A k \in 1 .. 0 : FALSE
    BY <1>5
  <2>2. QED
    BY <2>1, <1>6, Zenon DEF Told
<1>8. At = 0
  <2>1. Base = 0
    <3>1. CASE source = "param"
      BY <3>1 DEF Base
    <3>2. CASE source # "param"
      <4>1. buf = <<>> /\ offset = 0
        BY <3>2, ConfTokenAssumption DEF Init
      <4>2. Len(<<>>) = 0
        OBVIOUS
      <4>3. Base = 0 - 0
        BY <4>1, <4>2, <3>2, Zenon DEF Base
      <4>4. QED
        BY <4>3
    <3>3. QED
      BY <3>1, <3>2
  <2>2. QED
    BY <2>1 DEF At, Init
<1>9. Ended(0) /\ 0 \in 0 .. Len(Pieces) /\ 0 \in 0 .. total
  <2>1. Len(Pieces) \in Nat
    BY <1>2, PiecesCounted DEF Pieces
  <2>2. 0 \in 0 .. Len(Pieces) /\ 0 \in 0 .. total
    BY <2>1
  <2>3. QED
    BY <2>2, <1>7, <1>8, Zenon DEF Ended
<1>10. NothingLost /\ ValidAccepted /\ rc # "reading"
  BY <1>5 DEF NothingLost, ValidAccepted
<1>11. QED
  BY <1>2, <1>4, <1>6, <1>7, <1>9, <1>10, Zenon DEF Understood

\* Every step.
LEMMA NextUnderstood ==
  ASSUME StatFails = FALSE, IndInv, Understood, [Next]_vars
  PROVE  Understood'
<1>1. CASE ReadToken
  <2>1. /\ rc \in {"none", "ok", "block", "block_done"} /\ rc' = "reading"
        /\ mode' = "space" /\ ~sharp_comment' /\ ~quoted' /\ ~variable' /\ args' = <<>>
        /\ out' = out
    BY <1>1 DEF ReadToken, Begin
  <2>2. UNCHANGED <<doc, file, source, offset, buf, pos>>
    BY <1>1 DEF ReadToken, input, window
  <2>3. At' = At
    BY <2>2 DEF At, Base
  <2>4. /\ IsWritten(doc) /\ Cut /\ \E n \in 0 .. Len(doc.says) : Told(n)
        /\ \E q \in 0 .. Len(Pieces) : Ended(q)
    BY <2>1, Zenon DEF Understood
  <2>5. IsWritten(doc)' /\ Cut' /\ Pieces' = Pieces
    BY <2>2, <2>4, Zenon DEF Cut, Pieces
  <2>6. \A n : Told(n) => Told(n)'
    BY <2>1, <2>2, Zenon DEF Told
  <2>7. \A q : Ended(q) => Ended(q)'
    BY <2>3, <2>5, <2>6, Zenon DEF Ended
  <2>8. Placed'
    BY <2>1, <2>4, <2>5, <2>7, Zenon DEF Placed, Outside
  <2>9. (\E n \in 0 .. Len(doc.says) : Told(n))'
    BY <2>2, <2>4, <2>6, Zenon
  <2>10. NothingLost' /\ ValidAccepted' /\ rc' \notin {"none", "ok", "block", "block_done"}
    BY <2>1 DEF NothingLost, ValidAccepted
  <2>11. QED
    BY <2>5, <2>8, <2>9, <2>10, Zenon DEF Understood, Placed, Within
<1>2. CASE EndOfFile
  <2>1. /\ UsedUp /\ offset >= size /\ rc = "reading"
        /\ UNCHANGED <<doc, file, source, offset, buf, pos, args, mode>>
        /\ Returns(IF args # <<>> \/ mode # "space" THEN "syntax" ELSE "file_done")
    BY <1>2 DEF EndOfFile, UsedUp, AtEnd, Stops, scanning, input, window
  <2>2. out' = out /\ rc' \in {"syntax", "file_done"}
        /\ (rc' = "syntax" => args # <<>> \/ mode # "space")
        /\ (rc' = "file_done" => args = <<>> /\ mode = "space")
    BY <2>1 DEF Returns
  <2>3. At = Len(file)
    BY <2>1, Place DEF At
  <2>4. /\ IsWritten(doc) /\ Cut /\ Placed /\ \E n \in 0 .. Len(doc.says) : Told(n)
    BY <2>1, UnderstoodParts, Zenon
  <2>5. file \in Seq(Char) /\ args \in Seq(Seq(Char))
    BY DEF IndInv, Given, TypeOK, TokenTypeOK
  <2>6. /\ args = <<>> /\ mode = "space"
             => \A k \in 1 .. Len(doc.says) :
                  IF doc.spans[k][2] <= Len(file) THEN k <= Len(out)
                                                  ELSE Len(file) < doc.spans[k][1]
        /\ args # <<>> \/ mode # "space" => Len(file) < Len(doc.text)
    BY <2>3, <2>4, <2>5, EndUnderstood, Zenon
  <2>7. IsWritten(doc)' /\ Cut'
    BY <2>1, <2>4, Zenon DEF Cut
  <2>8. (\E n \in 0 .. Len(doc.says) : Told(n))'
    BY <2>1, <2>2, <2>4, Zenon DEF Told
  <2>9. NothingLost' /\ ValidAccepted'
    BY <2>1, <2>2, <2>6, Zenon DEF NothingLost, ValidAccepted
  <2>10. rc' \notin {"none", "ok", "block", "block_done"} /\ rc' # "reading"
    BY <2>2
  <2>11. QED
    BY <2>7, <2>8, <2>9, <2>10, Zenon DEF Understood
<1>3. CASE LongParameter
  <2>1. Returns("long") /\ UNCHANGED <<doc, file>>
    BY <1>3 DEF LongParameter, TooLarge, input
  <2>2. out' = out /\ rc' = "long"
    BY <2>1 DEF Returns
  <2>3. QED
    BY <2>1, <2>2, StopUnderstood
<1>4. CASE Refill
  <2>1. UNCHANGED <<doc, file>> /\ UNCHANGED token
    BY <1>4 DEF Refill, input
  <2>2. Base' = Base + start /\ pos' = pos - start /\ start' = 0
    BY <1>4, RefillFacts
  <2>3. pos \in Nat /\ start \in Nat /\ Base \in Nat
    BY InvParts
  <2>4. At' = At /\ WordAt' = WordAt
    BY <2>2, <2>3 DEF At, WordAt
  <2>5. QED
    BY <2>1, <2>4, SamePlace, Zenon
<1>5. CASE ReadFails
  <2>1. Returns("read") /\ UNCHANGED <<doc, file>>
    BY <1>5 DEF ReadFails, Stops, input
  <2>2. out' = out /\ rc' = "read"
    BY <2>1 DEF Returns
  <2>3. QED
    BY <2>1, <2>2, StopUnderstood
<1>6. CASE Scan
  BY <1>6, CharTaken DEF Scan
<1>7. CASE ScanStart
  BY <1>7, CharTaken DEF ScanStart
<1>8. CASE ScanQuote
  BY <1>8, CharTaken DEF ScanQuote
<1>9. CASE ScanNoSpace
  BY <1>9, CharTaken DEF ScanNoSpace
<1>10. CASE UNCHANGED vars
  <2>1. UNCHANGED <<doc, file, source, offset, buf, pos, start>> /\ UNCHANGED token
    BY <1>10 DEF vars, input, window
  <2>2. At' = At /\ WordAt' = WordAt
    BY <2>1 DEF At, WordAt, Base
  <2>3. QED
    BY <2>1, <2>2, SamePlace, Zenon
<1>11. QED
  BY <1>1, <1>2, <1>3, <1>4, <1>5, <1>6, <1>7, <1>8, <1>9, <1>10 DEF Next, Progress

\* cw_conf_read_token understands every document: of every character that it
\* reads it knows what it is, wherever the file ends and however large the
\* buffer is.
THEOREM Understanding ==
  ASSUME StatFails = FALSE, \A d \in Documents : IsWritten(d)
  PROVE  Spec => []Understood
<1>1. Init => Understood
  BY InitUnderstood
<1>2. IndInv /\ Understood /\ [Next]_vars => Understood'
  BY NextUnderstood
<1>3. QED
  BY <1>1, <1>2, Invariance, PTL DEF Spec

\* What it returns is what was written, word by word.
THEOREM ReadsFaithfully ==
  ASSUME StatFails = FALSE, \A d \in Documents : IsWritten(d)
  PROVE  Spec => []Faithful
<1>1. IndInv /\ Understood => Faithful
  <2>1. SUFFICES ASSUME IndInv, Understood
                 PROVE  Faithful
    OBVIOUS
  <2>2. doc.says \in Seq(Result) /\ out \in Seq(Result)
    BY <2>1 DEF Understood, IsWritten, IndInv, NeedBehindWord, Result
  <2>3. PICK n \in 0 .. Len(doc.says) : Told(n)
    BY <2>1, Zenon DEF Understood
  <2>4. Len(out) = n /\ n <= Len(doc.says) /\ \A k \in 1 .. n : out[k] = doc.says[k]
    BY <2>3, Zenon DEF Told
  <2>5. QED
    BY <2>2, <2>4 DEF Faithful, IsPrefix
<1>2. QED
  BY <1>1, Understanding, Invariance, PTL

\* CW_CONF_FILE_DONE says that nothing was lost.
THEOREM LosesNothing ==
  ASSUME StatFails = FALSE, \A d \in Documents : IsWritten(d)
  PROVE  Spec => []NothingLost
<1>1. Understood => NothingLost
  BY Zenon DEF Understood
<1>2. QED
  BY <1>1, Understanding, PTL

\* A file that is whole is not rejected for what is written in it.
THEOREM AcceptsValid ==
  ASSUME StatFails = FALSE, \A d \in Documents : IsWritten(d)
  PROVE  Spec => []ValidAccepted
<1>1. Understood => ValidAccepted
  BY Zenon DEF Understood
<1>2. QED
  BY <1>1, Understanding, PTL

=============================================================================
