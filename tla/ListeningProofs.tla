-------------------------- MODULE ListeningProofs ---------------------------
(***************************************************************************)
(* Proofs about cw_open_listening_sockets, for any number of entries and   *)
(* of descriptors, whichever calls of the kernel fail.                     *)
(***************************************************************************)
EXTENDS Listening, TLAPS

\* The descriptors of a list of entries.
LEMMA InheritedIs ==
  ASSUME NEW e \in Seq(Listener), NEW d
  PROVE  d \in Inherited(e) <=> d # -1 /\ \E k \in 1 .. Len(e) : e[k].fd = d
BY DEF Inherited

\* Descriptors are no negative numbers.
LEMMA NotNone == -1 \notin Descriptors
BY ListeningAssumption

\* An entry is given a descriptor.
LEMMA Given ==
  ASSUME NEW e \in Seq(Listener), NEW n \in 1 .. Len(e), e[n].fd = -1,
         NEW d \in Descriptors, NEW f \in Seq(Listener), Len(f) = Len(e), f[n].fd = d,
         \A k \in 1 .. Len(e) : k # n => f[k] = e[k]
  PROVE  Inherited(f) = Inherited(e) \cup {d}
<1>1. d # -1
  BY NotNone
<1>2. ASSUME NEW x \in Inherited(f)
      PROVE  x \in Inherited(e) \cup {d}
  BY <1>2, InheritedIs
<1>3. ASSUME NEW x \in Inherited(e)
      PROVE  x \in Inherited(f)
  <2>1. PICK k \in 1 .. Len(e) : e[k].fd = x /\ x # -1
    BY <1>3, InheritedIs
  <2>2. f[k].fd = x
    BY <2>1
  <2>3. QED
    BY <2>1, <2>2, InheritedIs
<1>4. d \in Inherited(f)
  BY <1>1, InheritedIs
<1>5. QED
  BY <1>2, <1>3, <1>4

\* In the beginning the entries that have a socket inherited it.
LEMMA InitOK == Init => IndInv
<1>1. SUFFICES ASSUME Init
               PROVE  IndInv
  OBVIOUS
<1>2. ls \in Seq(Listener) /\ ls \in Entries
  BY <1>1, ListeningAssumption DEF Init
<1>3. /\ i = 1 /\ s = -1 /\ in_use = {} /\ rc = "running"
      /\ sock = [d \in Inherited(ls) |-> "inherited"]
  BY <1>1 DEF Init
<1>4. Typed
  BY <1>2, <1>3 DEF Typed
<1>5. SocketsAccounted
  <2>1. DOMAIN sock = (Inherited(ls) \cup {s}) \ {-1}
    BY <1>3 DEF Inherited
  <2>2. QED
    BY <1>2, <1>3, <2>1, ListeningAssumption DEF SocketsAccounted
<1>6. Ready
  <2>1. SUFFICES ASSUME NEW k \in 1 .. Len(ls), ls[k].fd # -1
                 PROVE  sock[ls[k].fd] = "inherited" /\ ~ls[k].listen
    BY <1>2 DEF Ready, Listener
  <2>2. ls[k].fd \in Inherited(ls)
    BY <1>2, <2>1, InheritedIs
  <2>3. QED
    BY <1>2, <1>3, <2>2, ListeningAssumption
<1>7. AtHand
  BY <1>3 DEF AtHand
<1>8. Progress
  BY <1>2, <1>3, ListeningAssumption DEF Progress
<1>9. QED
  BY <1>4, <1>5, <1>6, <1>7, <1>8 DEF IndInv

\* The loop goes on or gives up while no socket is at hand.
LEMMA PassStep ==
  ASSUME IndInv, s = -1, UNCHANGED <<ls, sock, in_use>>, rc = "running",
         \/ Running /\ Skipped(i) /\ Loop
         \/ Fails
         \/ i > Len(ls) /\ rc' = "CW_OK" /\ UNCHANGED <<i, s>>
  PROVE  IndInv'
<1>1. s' = -1
  BY DEF Loop, Fails
<1>2. Typed'
  BY DEF IndInv, Typed, Running, Loop, Fails
<1>3. SocketsAccounted' /\ Ready' /\ AtHand'
  BY <1>1 DEF IndInv, SocketsAccounted, Ready, AtHand, Inherited
<1>4. Progress'
  BY DEF IndInv, Progress, Skipped, Loop, Fails, Running, Typed
<1>5. QED
  BY <1>2, <1>3, <1>4 DEF IndInv

\* socket: the new descriptor is nobody's.
LEMMA SocketStep ==
  ASSUME IndInv, Socket
  PROVE  IndInv'
<1>1. PICK d \in Descriptors \ DOMAIN sock :
        /\ s' = d
        /\ sock' = [f \in DOMAIN sock \cup {d} |-> IF f = d THEN "new" ELSE sock[f]]
  BY DEF Socket
<1>2. /\ Running /\ s = -1 /\ ~Skipped(i) /\ UNCHANGED <<ls, i, in_use, rc>>
  BY DEF Socket
<1>3. d # -1 /\ sock'[s'] = "new" /\ DOMAIN sock' = DOMAIN sock \cup {d}
  BY <1>1, NotNone
<1>4. ls \in Seq(Listener) /\ DOMAIN sock = Inherited(ls)
  BY <1>2 DEF IndInv, Typed, SocketsAccounted, Inherited
<1>5. Typed'
  BY <1>1, <1>2 DEF IndInv, Typed
<1>6. ASSUME NEW k \in 1 .. Len(ls), ls[k].fd # -1
      PROVE  ls[k].fd # d /\ sock'[ls[k].fd] = sock[ls[k].fd]
  <2>1. ls[k].fd \in DOMAIN sock
    BY <1>4, <1>6, InheritedIs
  <2>2. QED
    BY <1>1, <2>1
<1>7. SocketsAccounted'
  <2>1. DOMAIN sock' = (Inherited(ls') \cup {s'}) \ {-1}
    BY <1>1, <1>2, <1>3, <1>4, InheritedIs
  <2>2. QED
    BY <1>1, <1>2, <1>6, <2>1 DEF IndInv, SocketsAccounted
<1>8. Ready'
  BY <1>2, <1>6 DEF IndInv, Ready
<1>9. AtHand'
  BY <1>2, <1>3 DEF AtHand, Running, Skipped
<1>10. Progress'
  BY <1>2 DEF IndInv, Progress, Skipped
<1>11. QED
  BY <1>5, <1>7, <1>8, <1>9, <1>10 DEF IndInv

\* What the invariant says of the socket at hand.
LEMMA HandFacts ==
  ASSUME IndInv, s # -1
  PROVE  /\ Running /\ ~Skipped(i) /\ i \in 1 .. Len(ls) /\ ls[i].fd = -1
         /\ s \in Descriptors /\ s \in DOMAIN sock
         /\ ls \in Seq(Listener)
         /\ \A k \in 1 .. Len(ls) :
              ls[k].fd # -1 => ls[k].fd # s /\ ls[k].fd \in DOMAIN sock
<1>1. Running /\ ~Skipped(i) /\ s \in Descriptors /\ ls \in Seq(Listener)
  BY DEF IndInv, AtHand, Typed
<1>2. i \in 1 .. Len(ls) /\ ls[i].fd = -1
  BY <1>1 DEF IndInv, Typed, Running, Skipped
<1>3. DOMAIN sock = (Inherited(ls) \cup {s}) \ {-1}
  BY DEF IndInv, SocketsAccounted
<1>4. ASSUME NEW k \in 1 .. Len(ls), ls[k].fd # -1
      PROVE  ls[k].fd # s /\ ls[k].fd \in DOMAIN sock
  BY <1>1, <1>3, <1>4, InheritedIs DEF IndInv, SocketsAccounted
<1>5. QED
  BY <1>1, <1>2, <1>3, <1>4

\* The socket at hand is closed, and the entry's address is in use or the
\* loop gives up.
LEMMA CloseStep ==
  ASSUME IndInv, s # -1, UNCHANGED ls, sock' = Closed,
         \/ in_use' = in_use \cup {i} /\ Loop
         \/ UNCHANGED in_use /\ Fails
  PROVE  IndInv'
<1>1. s' = -1 /\ ls' = ls
  BY DEF Loop, Fails
<1>2. DOMAIN sock' = DOMAIN sock \ {s} /\ \A d \in DOMAIN sock \ {s} : sock'[d] = sock[d]
  BY DEF Closed
<1>3. i \in 1 .. Len(ls)
  BY HandFacts
<1>4. Typed'
  BY <1>1, <1>2, <1>3 DEF IndInv, Typed, Closed, Loop, Fails
<1>5. SocketsAccounted'
  <2>1. s \notin Inherited(ls)
    BY HandFacts, InheritedIs
  <2>2. DOMAIN sock' = (Inherited(ls') \cup {s'}) \ {-1}
    BY <1>1, <1>2, <2>1 DEF IndInv, SocketsAccounted
  <2>3. QED
    BY <1>1, <2>2 DEF IndInv, SocketsAccounted
<1>6. Ready'
  BY <1>1, <1>2, HandFacts DEF IndInv, Ready
<1>7. AtHand'
  BY <1>1 DEF AtHand
<1>8. Progress'
  BY <1>1, <1>3, HandFacts DEF IndInv, Progress, Skipped, Loop, Fails, Running, Typed
<1>9. QED
  BY <1>4, <1>5, <1>6, <1>7, <1>8 DEF IndInv

\* The socket at hand is set up a step further.
LEMMA StageStep ==
  ASSUME IndInv, s # -1, NEW step \in {"nonblocking", "bound"}, Now(step),
         step = "bound" => ls[i].type = "stream",
         UNCHANGED <<ls, i, s, rc>>
  PROVE  IndInv'
<1>1. /\ DOMAIN sock' = DOMAIN sock /\ sock'[s] = step
      /\ \A d \in DOMAIN sock : d # s => sock'[d] = sock[d]
  BY HandFacts DEF Now, IndInv, Typed
<1>2. Typed'
  BY HandFacts DEF IndInv, Typed, Now
<1>3. SocketsAccounted'
  BY <1>1 DEF IndInv, SocketsAccounted, Inherited
<1>4. Ready'
  BY <1>1, HandFacts DEF IndInv, Ready
<1>5. AtHand'
  BY <1>1, HandFacts DEF AtHand, Running, Skipped
<1>6. Progress'
  BY DEF IndInv, Progress, Skipped, Now
<1>7. QED
  BY <1>2, <1>3, <1>4, <1>5, <1>6 DEF IndInv

\* The socket at hand becomes the socket of its entry.
LEMMA TakenStep ==
  ASSUME IndInv, s # -1, NEW step, Now(step), Loop,
         ls' \in Seq(Listener), Len(ls') = Len(ls),
         \A k \in 1 .. Len(ls) : k # i => ls'[k] = ls[k],
         ls'[i].fd = s,
         \/ step = "listening" /\ ls'[i].listen
         \/ step = "bound" /\ ~ls'[i].listen /\ ls'[i].type = "dgram"
  PROVE  IndInv'
<1>1. /\ DOMAIN sock' = DOMAIN sock /\ sock'[s] = step
      /\ \A d \in DOMAIN sock : d # s => sock'[d] = sock[d]
  BY HandFacts DEF Now, IndInv, Typed
<1>2. s' = -1 /\ i' = i + 1 /\ rc' = rc /\ in_use' = in_use
  BY DEF Loop, Now
<1>3. s # -1 /\ s \in Descriptors /\ i \in 1 .. Len(ls) /\ ls[i].fd = -1
  BY HandFacts
<1>4. Typed'
  <2>1. sock' \in [DOMAIN sock' -> {"inherited", "new", "nonblocking", "bound", "listening"}]
    BY <1>1 DEF IndInv, Typed, Now
  <2>2. QED
    BY <1>2, <1>3, <2>1 DEF IndInv, Typed
<1>5. SocketsAccounted'
  <2>1. Inherited(ls') = Inherited(ls) \cup {s}
    BY <1>3, HandFacts, Given
  <2>2. DOMAIN sock' = (Inherited(ls') \cup {s'}) \ {-1}
    BY <1>1, <1>2, <2>1 DEF IndInv, SocketsAccounted
  <2>3. ASSUME NEW k \in 1 .. Len(ls), NEW n \in 1 .. Len(ls), k # n, ls'[k].fd # -1
        PROVE  ls'[k].fd # ls'[n].fd
    <3>1. CASE k = i
      BY <2>3, <3>1, HandFacts
    <3>2. CASE n = i
      BY <2>3, <3>2, HandFacts
    <3>3. CASE k # i /\ n # i
      BY <2>3, <3>3 DEF IndInv, SocketsAccounted
    <3>4. QED
      BY <3>1, <3>2, <3>3
  <2>4. QED
    BY <1>2, <2>2, <2>3 DEF SocketsAccounted
<1>6. Ready'
  <2>1. SUFFICES ASSUME NEW k \in 1 .. Len(ls), ls'[k].fd # -1
                 PROVE  sock'[ls'[k].fd] \in (IF ls'[k].listen THEN {"listening"}
                          ELSE IF ls'[k].type = "dgram" THEN {"bound", "inherited"}
                          ELSE {"inherited"})
    BY DEF Ready
  <2>2. CASE k = i
    BY <2>2, <1>1
  <2>3. CASE k # i
    BY <2>1, <2>3, <1>1, HandFacts DEF IndInv, Ready
  <2>4. QED
    BY <2>2, <2>3
<1>7. AtHand'
  BY <1>2 DEF AtHand
<1>8. Progress'
  BY <1>2, <1>3, HandFacts DEF IndInv, Progress, Skipped, Running
<1>9. QED
  BY <1>4, <1>5, <1>6, <1>7, <1>8 DEF IndInv

\* Every step of the loop.
LEMMA NextStep ==
  ASSUME IndInv, [Next]_vars
  PROVE  IndInv'
<1>1. CASE Skip
  BY <1>1, PassStep DEF Skip, Running
<1>2. CASE SocketFails
  BY <1>2, PassStep DEF SocketFails, Running
<1>3. CASE Socket
  BY <1>3, SocketStep
<1>4. CASE OptionsFail
  BY <1>4, CloseStep DEF OptionsFail, Is
<1>5. CASE Options
  BY <1>5, StageStep DEF Options, Is
<1>6. CASE BindFails \/ ListenFails
  BY <1>6, CloseStep DEF BindFails, ListenFails, Refused, Is
<1>7. CASE Bind
  <2>1. s # -1 /\ Now("bound")
    BY <1>7 DEF Bind, Is
  <2>2. CASE ls[i].type = "stream"
    BY <1>7, <2>1, <2>2, StageStep DEF Bind
  <2>3. CASE ls[i].type # "stream"
    <3>1. ls' = [ls EXCEPT ![i].fd = s] /\ Loop
      BY <1>7, <2>3 DEF Bind
    <3>2. i \in 1 .. Len(ls) /\ ls \in Seq(Listener) /\ s \in Descriptors
      BY <2>1, HandFacts
    <3>3. ls[i] \in Listener /\ ~ls[i].listen
      BY <3>2 DEF IndInv, Progress
    <3>4. /\ ls'[i].fd = s /\ ~ls'[i].listen /\ ls'[i].type = "dgram"
          /\ Len(ls') = Len(ls) /\ \A k \in 1 .. Len(ls) : k # i => ls'[k] = ls[k]
      BY <2>3, <3>1, <3>2, <3>3 DEF Listener
    <3>5. ls' \in Seq(Listener)
      <4>1. [ls[i] EXCEPT !.fd = s] \in Listener
        BY <3>2, <3>3 DEF Listener
      <4>2. QED
        BY <3>1, <3>2, <4>1
    <3>6. QED
      BY <2>1, <3>1, <3>4, <3>5, TakenStep
  <2>4. QED
    BY <2>2, <2>3
<1>8. CASE Listen
  <2>1. s # -1 /\ Now("listening") /\ Loop
    BY <1>8 DEF Listen, Is
  <2>2. i \in 1 .. Len(ls) /\ ls \in Seq(Listener) /\ s \in Descriptors
    BY <2>1, HandFacts
  <2>3. ls' = [ls EXCEPT ![i] = [@ EXCEPT !.fd = s, !.listen = TRUE]] /\ ls[i] \in Listener
    BY <1>8, <2>2 DEF Listen
  <2>4. /\ ls'[i].fd = s /\ ls'[i].listen
        /\ Len(ls') = Len(ls) /\ \A k \in 1 .. Len(ls) : k # i => ls'[k] = ls[k]
    BY <2>2, <2>3 DEF Listener
  <2>5. ls' \in Seq(Listener)
    <3>1. [ls[i] EXCEPT !.fd = s, !.listen = TRUE] \in Listener
      BY <2>2, <2>3 DEF Listener
    <3>2. QED
      BY <2>2, <2>3, <3>1
  <2>6. QED
    BY <2>1, <2>4, <2>5, TakenStep
<1>9. CASE Done
  <2>1. s = -1
    BY <1>9 DEF IndInv, AtHand, Typed, Done, Running
  <2>2. QED
    BY <1>9, <2>1, PassStep DEF Done
<1>10. CASE UNCHANGED vars
  BY <1>10 DEF vars, IndInv, Typed, SocketsAccounted, Ready, AtHand, Progress,
               Inherited, Running, Skipped
<1>11. QED
  BY <1>1, <1>2, <1>3, <1>4, <1>5, <1>6, <1>7, <1>8, <1>9, <1>10 DEF Next

----------------------------------------------------------------------------
(***************************************************************************)
(* The loop keeps its inductive invariant, whichever calls fail.           *)
(***************************************************************************)
THEOREM Invariance == Spec => []IndInv
<1>1. IndInv /\ [Next]_vars => IndInv'
  BY NextStep
<1>2. QED
  BY <1>1, InitOK, PTL DEF Spec

\* No error path loses an open socket or closes one that an entry has.
THEOREM Accounted == Spec => []SocketsAccounted
<1>1. IndInv => SocketsAccounted
  BY DEF IndInv
<1>2. QED
  BY <1>1, Invariance, PTL

\* An entry has a socket only once the socket can be used.
THEOREM SocketsReady == Spec => []Ready
<1>1. IndInv => Ready
  BY DEF IndInv
<1>2. QED
  BY <1>1, Invariance, PTL

\* CW_OK is returned only when no entry was left out.
THEOREM Complete == Spec => []NoneForgotten
<1>1. IndInv => NoneForgotten
  BY DEF IndInv, Typed, Progress, Skipped, NoneForgotten
<1>2. QED
  BY <1>1, Invariance, PTL

=============================================================================
