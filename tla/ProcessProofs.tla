--------------------------- MODULE ProcessProofs ----------------------------
(***************************************************************************)
(* Proofs about the process table, for any number of slots, processes and  *)
(* descriptors, whichever calls fail and whenever signals arrive.          *)
(***************************************************************************)
EXTENDS Process, NatFacts, FiniteSetTheorems

----------------------------------------------------------------------------
(***************************************************************************)
(* Facts about the operators the table is built from.                      *)
(***************************************************************************)

\* What the definitions of the constants mean.
LEMMA Constants ==
  /\ Len(Plan) \in Nat /\ \A n \in 1 .. Len(Plan) : Plan[n] \in -5 .. MaxProcesses - 1
  /\ MaxProcesses \in Nat \ {0}
  /\ Descriptors \subseteq Nat /\ IsFiniteSet(Descriptors)
  /\ Procs = 0 .. Len(Plan) /\ Workers = Procs \ {Master} /\ Master \in Procs
BY ProcessAssumption DEF Procs, Workers, Master

\* The kernel gives two descriptors that the master does not have yet.
LEMMA PairOK ==
  ASSUME Cardinality(Free) >= 2
  PROVE  /\ Pair[1] \in Free /\ Pair[2] \in Free
         /\ Pair \in Descriptors \X Descriptors
         /\ Pair # NoChannel
         /\ Pair[1] # -1 /\ Pair[2] # -1
<1>1. Free \subseteq Nat /\ IsFiniteSet(Free)
  BY Constants, FS_Subset DEF Free
<1>2. Free # {}
  BY FS_EmptySet
<1>3. Min(Free) \in Free
  BY <1>1, <1>2, MinOf
<1>4. Free \ {Min(Free)} # {}
  <2>1. Cardinality(Free) \in Nat
    BY <1>1, FS_CardinalityType
  <2>2. Cardinality(Free \ {Min(Free)}) = Cardinality(Free) - 1
    BY <1>1, <1>3, FS_RemoveElement
  <2>3. QED
    BY <2>1, <2>2, FS_EmptySet
<1>5. Min(Free \ {Min(Free)}) \in Free
  BY <1>1, <1>4, MinOf
<1>6. Pair[1] \in Free /\ Pair[2] \in Free /\ Pair \in Descriptors \X Descriptors
  BY <1>3, <1>5 DEF Pair, Free
<1>7. Pair[1] # -1 /\ Pair[2] # -1
  BY <1>1, <1>6
<1>8. QED
  BY <1>6, <1>7 DEF NoChannel

\* The search finds no free slot in use, since no pid is ever -1: a process
\* without a given slot gets the next one.
LEMMA SlotForOK ==
  ASSUME TypeOK, Counting, pc[Master] = "slot"
  PROVE  /\ i \in 1 .. Len(Plan) /\ respawn \in -5 .. MaxProcesses - 1
         /\ respawn < 0 => SlotFor = last
         /\ ~Full => SlotFor \in Slots
<1>1. i \in 1 .. Len(Plan)
  BY Constants DEF TypeOK, Counting
<1>2. respawn \in -5 .. MaxProcesses - 1
  BY <1>1, Constants DEF respawn
<1>3. last \in 0 .. MaxProcesses /\ MaxProcesses \in Nat
  BY Constants DEF TypeOK
<1>4. \A n \in 0 .. last - 1 : table[n].pid # -1
  <2>1. \A n \in 0 .. last - 1 : n \in Slots
    BY <1>3 DEF Slots
  <2>2. \A n \in Slots : table[n].pid \in 0 .. forks
    BY DEF TypeOK
  <2>3. QED
    BY <2>1, <2>2
<1>5. {n \in 0 .. last - 1 : table[n].pid = -1} \cup {last} = {last}
  BY <1>4
<1>6. Min({last}) = last
  BY <1>3, MinOf
<1>7. respawn < 0 => SlotFor = last
  <2>1. ASSUME respawn < 0
        PROVE  SlotFor = Min({n \in 0 .. last - 1 : table[n].pid = -1} \cup {last})
    <3>1. ~(respawn >= 0)
      BY <1>2, <2>1
    <3>2. QED
      BY <3>1 DEF SlotFor
  <2>2. QED
    BY <1>5, <1>6, <2>1
<1>8. ~Full => SlotFor \in Slots
  <2>1. CASE respawn < 0
    BY <1>2, <1>3, <1>7, <2>1 DEF Full, Slots
  <2>2. CASE respawn >= 0
    BY <1>2, <1>3, <2>2 DEF SlotFor, Slots
  <2>3. QED
    BY <1>2, <2>1, <2>2
<1>9. QED
  BY <1>1, <1>2, <1>7, <1>8

----------------------------------------------------------------------------
(***************************************************************************)
(* Types.                                                                  *)
(***************************************************************************)
LEMMA TypeInit == Init => TypeOK /\ Counting
<1>1. SUFFICES ASSUME Init
               PROVE  TypeOK /\ Counting
  OBVIOUS
<1>2. 0 \in Slots /\ 0 \in 0 .. Len(Plan) /\ 0 \in 0 .. MaxProcesses
  BY Constants DEF Slots
<1>3. table \in [Slots -> [pid : 0 .. forks, respawn : -5 .. 0, channel : ChannelT]]
  <2>1. [pid |-> 0, channel |-> <<0, 0>>, respawn |-> 0]
          \in [pid : 0 .. 0, respawn : -5 .. 0, channel : ChannelT]
    BY DEF ChannelT
  <2>2. QED
    BY <1>1, <2>1 DEF Init
<1>4. QED
  BY <1>1, <1>2, <1>3, Constants DEF Init, TypeOK, Counting, Master

\* A slot with n processes forked so far.
Process_t(n) == [pid : 0 .. n, respawn : -5 .. 0, channel : ChannelT]

\* The steps of the master that change a slot.
LEMMA TableTypes ==
  ASSUME NEW n \in Nat, NEW t \in [Slots -> Process_t(n)], NEW k \in Slots
  PROVE  /\ \A c \in ChannelT : [t EXCEPT ![k].channel = c] \in [Slots -> Process_t(n)]
         /\ [t EXCEPT ![k].pid = n] \in [Slots -> Process_t(n)]
         /\ \A r \in -5 .. 0 :
              [t EXCEPT ![k].pid = n, ![k].respawn = r] \in [Slots -> Process_t(n)]
         /\ t \in [Slots -> Process_t(n + 1)]
<1>1. t[k] \in Process_t(n) /\ n \in 0 .. n
  OBVIOUS
<1>2. \A c \in ChannelT : [t[k] EXCEPT !.channel = c] \in Process_t(n)
  BY <1>1 DEF Process_t
<1>3. [t[k] EXCEPT !.pid = n] \in Process_t(n)
  BY <1>1 DEF Process_t
<1>4. \A r \in -5 .. 0 : [t[k] EXCEPT !.pid = n, !.respawn = r] \in Process_t(n)
  BY <1>1 DEF Process_t
<1>5. Process_t(n) \subseteq Process_t(n + 1)
  BY DEF Process_t
<1>6. QED
  BY <1>2, <1>3, <1>4, <1>5

\* cw_spawn_process up to fork.
LEMMA PrepareTypes ==
  ASSUME TypeOK, Counting,
         SpawnStart \/ NoSlot \/ SocketpairFails \/ SetupFails \/ ChannelReady \/ ForkFails
  PROVE  TypeOK' /\ Counting'
<1>1. table \in [Slots -> Process_t(forks)] /\ forks \in Nat
  BY Constants DEF TypeOK, Process_t
<1>2. Master \in Procs /\ Len(Plan) \in Nat
  BY Constants
<1>3. CASE SpawnStart
  BY <1>2, <1>3 DEF SpawnStart, TypeOK, Counting, globals, flags
<1>4. CASE NoSlot \/ SocketpairFails
  BY <1>2, <1>4 DEF NoSlot, SocketpairFails, NextSpawn, TypeOK, Counting, spawning, globals, flags
<1>5. CASE SetupFails
  <2>1. SlotFor \in Slots /\ Pair \in ChannelT
    BY <1>5, SlotForOK, PairOK DEF SetupFails, ChannelT
  <2>2. table' \in [Slots -> Process_t(forks)]
    BY <1>1, <1>5, <2>1, TableTypes DEF SetupFails
  <2>3. QED
    BY <1>2, <1>5, <2>2 DEF SetupFails, NextSpawn, TypeOK, Counting, Process_t, globals, flags
<1>6. CASE ChannelReady
  <2>1. SlotFor \in Slots /\ s' = SlotFor
    BY <1>6, SlotForOK DEF ChannelReady
  <2>2. /\ table' \in [Slots -> Process_t(forks)]
        /\ fds' \in [Procs -> SUBSET Descriptors]
        /\ channel' \in [Procs -> Descriptors \cup {0}]
    <3>1. CASE respawn # CW_PROCESS_DETACHED
      <4>1. /\ Cardinality(Free) >= 2
            /\ table' = [table EXCEPT ![SlotFor].channel = Pair]
            /\ fds' = [fds EXCEPT ![Master] = @ \cup {Pair[1], Pair[2]}]
            /\ channel' = [channel EXCEPT ![Master] = ChildEnd(Pair)]
        BY <1>6, <3>1 DEF ChannelReady
      <4>2. Pair[1] \in Descriptors /\ Pair[2] \in Descriptors /\ Pair \in ChannelT
        BY <4>1, PairOK DEF ChannelT
      <4>3. table' \in [Slots -> Process_t(forks)]
        BY <1>1, <2>1, <4>1, <4>2, TableTypes
      <4>4. QED
        BY <1>2, <4>1, <4>2, <4>3 DEF TypeOK, ChildEnd
    <3>2. CASE respawn = CW_PROCESS_DETACHED
      <4>1. table' = [table EXCEPT ![SlotFor].channel = NoChannel] /\ UNCHANGED <<fds, channel>>
        BY <1>6, <3>2 DEF ChannelReady
      <4>2. NoChannel \in ChannelT
        BY DEF NoChannel, ChannelT
      <4>3. QED
        BY <1>1, <2>1, <4>1, <4>2, TableTypes DEF TypeOK
    <3>3. QED
      BY <3>1, <3>2
  <2>3. QED
    BY <1>2, <1>6, <2>1, <2>2 DEF ChannelReady, TypeOK, Counting, Process_t, flags
<1>7. CASE ForkFails
  BY <1>2, <1>7 DEF ForkFails, NextSpawn, TypeOK, Counting, spawning, flags
<1>8. QED
  BY <1>3, <1>4, <1>5, <1>6, <1>7

\* fork, and the record of the new process.
LEMMA ForkTypes ==
  ASSUME TypeOK, Counting, Fork \/ Record
  PROVE  TypeOK' /\ Counting'
<1>1. table \in [Slots -> Process_t(forks)] /\ forks \in Nat /\ s \in Slots
  BY Constants DEF TypeOK, Process_t
<1>2. Master \in Procs /\ Len(Plan) \in Nat
  BY Constants
<1>3. CASE Fork
  <2>1. forks' = forks + 1 /\ forks' \in Procs /\ forks' # Master /\ forks' \in 0 .. i
    BY <1>2, <1>3, Constants DEF Fork, TypeOK, Counting, Master
  <2>2. table' \in [Slots -> Process_t(forks')]
    BY <1>1, <1>3, <2>1, TableTypes DEF Fork
  <2>3. /\ slot' \in [Procs -> Slots] /\ channel' \in [Procs -> Descriptors \cup {0}]
        /\ fds' \in [Procs -> SUBSET Descriptors]
        /\ terminate' \in [Procs -> {0, 2}] /\ quit' \in [Procs -> {0, 1}]
    BY <1>2, <1>3, <2>1 DEF Fork, Inherits, TypeOK
  <2>4. pc' = [pc EXCEPT ![Master] = "record", ![forks'] = "init"]
    BY <1>3 DEF Fork
  <2>5. pc'[Master] = "record"
    BY <1>2, <2>1, <2>4 DEF TypeOK
  <2>6. Counting'
    BY <1>1, <2>1, <2>5 DEF Counting
  <2>7. QED
    BY <1>2, <1>3, <2>1, <2>2, <2>3, <2>4, <2>6 DEF Fork, TypeOK, Process_t
<1>4. CASE Record
  <2>1. i \in 1 .. Len(Plan) /\ respawn \in -5 .. MaxProcesses - 1
    BY <1>1, <1>2, <1>4, Constants DEF Record, TypeOK, Counting, respawn
  <2>2. table' \in [Slots -> Process_t(forks)] /\ last' \in 0 .. MaxProcesses
    <3>1. CASE respawn >= 0
      <4>1. table' = [table EXCEPT ![s].pid = forks] /\ last' = last
        BY <1>4, <3>1 DEF Record
      <4>2. QED
        BY <1>1, <4>1, TableTypes DEF TypeOK
    <3>2. CASE ~(respawn >= 0)
      <4>1. respawn \in -5 .. 0
        BY <2>1, <3>2, Constants
      <4>2. table' \in [Slots -> Process_t(forks)]
        <5>1. table' = [table EXCEPT ![s].pid = forks, ![s].respawn = respawn]
          BY <1>4, <3>2 DEF Record
        <5>2. QED
          BY <1>1, <4>1, <5>1, TableTypes
      <4>3. QED
        BY <1>1, <1>4, <3>2, <4>2, Constants DEF Record, TypeOK, Slots
    <3>3. QED
      BY <3>1, <3>2
  <2>3. QED
    BY <1>2, <1>4, <2>2 DEF Record, NextSpawn, TypeOK, Counting, Process_t, globals, flags
<1>5. QED
  BY <1>3, <1>4

\* The loops of the master and of the workers, and signals.
LEMMA LoopTypes ==
  ASSUME TypeOK, Counting,
         \/ StartupDone \/ Sigsuspend \/ CheckFlags
         \/ \E w \in Workers : WorkerStep(w)
         \/ \E p \in Procs : Sigterm(p) \/ Sigquit(p)
         \/ UNCHANGED vars
  PROVE  TypeOK' /\ Counting'
<1>1. Master \in Procs /\ Workers = Procs \ {Master}
  BY Constants
<1>2. CASE StartupDone \/ Sigsuspend \/ CheckFlags
  BY <1>1, <1>2 DEF StartupDone, Sigsuspend, CheckFlags, TypeOK, Counting, spawning, globals, flags
<1>3. ASSUME NEW w \in Workers, WorkerStep(w)
      PROVE  TypeOK' /\ Counting'
  BY <1>1, <1>3 DEF WorkerStep, WorkerInit, ProcessEvents, WorkerCheck, Gone,
                    TypeOK, Counting, spawning, globals, flags
<1>4. ASSUME NEW p \in Procs, Sigterm(p) \/ Sigquit(p)
      PROVE  TypeOK' /\ Counting'
  <2>1. pc' = [pc EXCEPT ![p] = IF @ = "suspended" THEN "check" ELSE @]
    BY <1>4 DEF Sigterm, Sigquit, Deliver
  <2>2. Counting'
    BY <1>1, <1>4, <2>1 DEF Sigterm, Sigquit, Deliver, Counting, TypeOK, spawning
  <2>3. QED
    BY <1>4, <2>1, <2>2 DEF Sigterm, Sigquit, Deliver, TypeOK, spawning, globals
<1>5. CASE UNCHANGED vars
  BY <1>5 DEF vars, spawning, globals, flags, TypeOK, Counting
<1>6. QED
  BY <1>2, <1>3, <1>4, <1>5

\* Whatever the plan, the calls that fail and the signals that arrive: every
\* variable has its type, and no call of cw_spawn_process, even with the
\* table full, touches a slot outside the table.
THEOREM TypeCorrect == Spec => []TypeOK
<1>1. TypeOK /\ Counting /\ [Next]_vars => TypeOK' /\ Counting'
  BY PrepareTypes, ForkTypes, LoopTypes DEF Next, MasterStep
<1>2. QED
  BY <1>1, TypeInit, PTL DEF Spec

----------------------------------------------------------------------------
(***************************************************************************)
(* Channels and the table.                                                 *)
(***************************************************************************)

\* In the beginning no slot is in use and there is no child.
LEMMA CoherentInit == Init => Filling /\ ChannelsAccounted /\ TableCoherent
<1>1. SUFFICES ASSUME Init
               PROVE  Filling /\ ChannelsAccounted /\ TableCoherent
  OBVIOUS
<1>2. pc[Master] = "spawn" /\ fds[Master] = {} /\ last = 0 /\ forks = 0
  BY <1>1, Constants DEF Init
<1>3. InUse = {}
  BY <1>2 DEF InUse
<1>4. QED
  BY <1>2, <1>3 DEF Filling, ChannelsAccounted, TableCoherent

\* A step that leaves the slots, the master's descriptors and what the
\* children know alone.
LEMMA QuietStep ==
  ASSUME Filling, ChannelsAccounted, TableCoherent,
         UNCHANGED <<s, last, table, forks, slot, channel>>,
         fds'[Master] = fds[Master],
         \/ pc'[Master] = pc[Master]
         \/ /\ pc[Master] \notin {"fork", "record"}
            /\ pc'[Master] \notin {"fork", "record"},
         \A w \in 1 .. forks : Running(w)' => Running(w) /\ fds'[w] = fds[w]
  PROVE  Filling' /\ ChannelsAccounted' /\ TableCoherent'
<1>1. InUse' = InUse
  BY DEF InUse
<1>2. Filling'
  BY DEF Filling
<1>3. ChannelsAccounted'
  BY <1>1 DEF ChannelsAccounted
<1>4. TableCoherent'
  BY DEF TableCoherent
<1>5. QED
  BY <1>2, <1>3, <1>4

\* The slots of the children do not change while the next one is prepared.
LEMMA OtherSlots ==
  ASSUME TypeOK, TableCoherent, pc[Master] # "record",
         NEW t, \A n \in 0 .. last - 1 : t[n] = table[n], NEW w \in 1 .. forks
  PROVE  slot[w] \in 0 .. last - 1 /\ t[slot[w]] = table[slot[w]] /\ table[slot[w]].pid = w
<1>1. w \in Procs /\ last \in Nat
  BY Constants DEF TypeOK
<1>2. slot[w] \in Nat
  BY <1>1, Constants DEF TypeOK, Slots
<1>3. slot[w] < last /\ table[slot[w]].pid = w
  BY DEF TableCoherent
<1>4. QED
  BY <1>1, <1>2, <1>3

\* The channel cannot be set up: the slot is not in use.
LEMMA SetupFailsStep ==
  ASSUME FreshSlots, IndInv, SetupFails
  PROVE  Filling' /\ ChannelsAccounted' /\ TableCoherent'
<1>1. /\ pc[Master] = "slot" /\ pc' = [pc EXCEPT ![Master] = "spawn"]
      /\ table' = [table EXCEPT ![SlotFor].channel = Pair]
      /\ UNCHANGED <<i, s, forks, last, slot, channel, fds>>
  BY DEF SetupFails, NextSpawn, globals
<1>2. SlotFor = last /\ last \in Slots /\ last \in Nat
  BY <1>1, SlotForOK, Constants DEF IndInv, FreshSlots, SetupFails, respawn, Slots
<1>3. pc'[Master] = "spawn" /\ \A w \in Procs : w # Master => pc'[w] = pc[w]
  BY <1>1, Constants DEF IndInv, TypeOK
<1>4. \A n \in 0 .. last - 1 : table'[n] = table[n]
  BY <1>1, <1>2 DEF IndInv, TypeOK
<1>5. InUse' = 0 .. last - 1 /\ InUse = 0 .. last - 1
  BY <1>1, <1>3 DEF InUse
<1>6. ChannelsAccounted'
  BY <1>1, <1>4, <1>5 DEF IndInv, ChannelsAccounted
<1>7. TableCoherent'
  <2>1. SUFFICES ASSUME NEW w \in 1 .. forks
                 PROVE  /\ slot[w] < last /\ table'[slot[w]].pid = w
                        /\ table'[slot[w]].channel # NoChannel =>
                             /\ channel[w] = table'[slot[w]].channel[2]
                             /\ Running(w)' => ChannelOf(table'[slot[w]]) \subseteq fds[w]
    BY <1>1 DEF TableCoherent
  <2>2. slot[w] \in 0 .. last - 1 /\ table'[slot[w]] = table[slot[w]] /\ table[slot[w]].pid = w
    BY <1>1, <1>4, OtherSlots DEF IndInv
  <2>3. Running(w)' = Running(w)
    BY <1>3, Constants DEF Running, IndInv, TypeOK, Master
  <2>4. QED
    BY <1>2, <2>2, <2>3 DEF IndInv, TableCoherent
<1>8. Filling'
  BY <1>3 DEF Filling
<1>9. QED
  BY <1>6, <1>7, <1>8

\* The next slot has a channel of its own, or none.
LEMMA ChannelReadyStep ==
  ASSUME FreshSlots, IndInv, ChannelReady
  PROVE  Filling' /\ ChannelsAccounted' /\ TableCoherent'
<1>1. /\ pc[Master] = "slot" /\ pc' = [pc EXCEPT ![Master] = "fork"]
      /\ s' = SlotFor /\ slot' = [slot EXCEPT ![Master] = SlotFor]
      /\ UNCHANGED <<forks, last>>
  BY DEF ChannelReady
<1>2. SlotFor = last /\ last \in Slots /\ last \in Nat
  BY <1>1, SlotForOK, Constants DEF IndInv, FreshSlots, ChannelReady, respawn, Slots
<1>3. /\ pc'[Master] = "fork" /\ slot'[Master] = last
      /\ \A w \in Procs : w # Master => pc'[w] = pc[w] /\ slot'[w] = slot[w]
  BY <1>1, <1>2, Constants DEF IndInv, TypeOK
<1>4. InUse' = (0 .. last - 1) \cup {last} /\ InUse = 0 .. last - 1
  BY <1>1, <1>2, <1>3 DEF InUse
<1>5. /\ \A n \in Slots : n # last => table'[n] = table[n]
      /\ \A w \in Procs : w # Master => channel'[w] = channel[w] /\ fds'[w] = fds[w]
      /\ fds'[Master] = fds[Master] \cup ChannelOf(table'[last])
      /\ ChannelOf(table'[last]) \cap fds[Master] = {}
      /\ table'[last].channel # NoChannel => channel'[Master] = table'[last].channel[2]
  <2>1. CASE respawn # CW_PROCESS_DETACHED
    <3>1. /\ Cardinality(Free) >= 2
          /\ table' = [table EXCEPT ![last].channel = Pair]
          /\ fds' = [fds EXCEPT ![Master] = @ \cup {Pair[1], Pair[2]}]
          /\ channel' = [channel EXCEPT ![Master] = Pair[2]]
      BY <1>2, <2>1 DEF ChannelReady, ChildEnd
    <3>2. Pair[1] \in Free /\ Pair[2] \in Free /\ Pair[1] # -1 /\ Pair[2] # -1
      BY <3>1, PairOK
    <3>3. table'[last].channel = Pair /\ \A n \in Slots : n # last => table'[n] = table[n]
      BY <1>2, <3>1 DEF IndInv, TypeOK
    <3>4. ChannelOf(table'[last]) = {Pair[1], Pair[2]}
      BY <3>2, <3>3 DEF ChannelOf
    <3>5. fds'[Master] = fds[Master] \cup {Pair[1], Pair[2]} /\ channel'[Master] = Pair[2]
      BY <3>1, Constants DEF IndInv, TypeOK
    <3>6. \A w \in Procs : w # Master => channel'[w] = channel[w] /\ fds'[w] = fds[w]
      BY <3>1 DEF IndInv, TypeOK
    <3>7. QED
      BY <3>2, <3>3, <3>4, <3>5, <3>6 DEF Free
  <2>2. CASE respawn = CW_PROCESS_DETACHED
    <3>1. table' = [table EXCEPT ![last].channel = NoChannel] /\ UNCHANGED <<fds, channel>>
      BY <1>2, <2>2 DEF ChannelReady
    <3>2. table'[last].channel = NoChannel /\ \A n \in Slots : n # last => table'[n] = table[n]
      BY <1>2, <3>1 DEF IndInv, TypeOK
    <3>3. ChannelOf(table'[last]) = {}
      BY <3>2 DEF ChannelOf, NoChannel
    <3>4. QED
      BY <3>1, <3>2, <3>3
  <2>3. QED
    BY <2>1, <2>2
<1>6. \A n \in 0 .. last - 1 : table'[n] = table[n]
  <2>1. \A n \in 0 .. last - 1 : n \in Slots /\ n # last
    BY <1>2, Constants DEF Slots
  <2>2. QED
    BY <1>5, <2>1
<1>7. Filling'
  BY <1>1, <1>2, <1>3, <1>5 DEF Filling
<1>8. ChannelsAccounted'
  <2>1. /\ fds[Master] = UNION {ChannelOf(table[n]) : n \in 0 .. last - 1}
        /\ \A n, k \in 0 .. last - 1 : n # k => ChannelOf(table[n]) \cap ChannelOf(table[k]) = {}
    BY <1>4 DEF IndInv, ChannelsAccounted
  <2>2. \A n \in 0 .. last - 1 :
          ChannelOf(table'[n]) = ChannelOf(table[n]) /\ ChannelOf(table[n]) \subseteq fds[Master]
    BY <1>6, <2>1
  <2>3. fds'[Master] = UNION {ChannelOf(table'[n]) : n \in (0 .. last - 1) \cup {last}}
    BY <1>5, <2>1, <2>2
  <2>4. \A n, k \in (0 .. last - 1) \cup {last} :
          n # k => ChannelOf(table'[n]) \cap ChannelOf(table'[k]) = {}
    BY <1>5, <2>1, <2>2
  <2>5. QED
    BY <1>4, <2>3, <2>4 DEF ChannelsAccounted
<1>9. TableCoherent'
  <2>1. SUFFICES ASSUME NEW w \in 1 .. forks
                 PROVE  /\ slot'[w] < last /\ table'[slot'[w]].pid = w
                        /\ table'[slot'[w]].channel # NoChannel =>
                             /\ channel'[w] = table'[slot'[w]].channel[2]
                             /\ Running(w)' => ChannelOf(table'[slot'[w]]) \subseteq fds'[w]
    BY <1>1 DEF TableCoherent
  <2>2. slot[w] \in 0 .. last - 1 /\ table'[slot[w]] = table[slot[w]] /\ table[slot[w]].pid = w
    BY <1>1, <1>6, OtherSlots DEF IndInv
  <2>3. w \in Procs /\ w # Master
    BY Constants DEF IndInv, TypeOK, Master
  <2>4. slot'[w] = slot[w] /\ channel'[w] = channel[w] /\ fds'[w] = fds[w] /\ pc'[w] = pc[w]
    BY <1>3, <1>5, <2>3
  <2>5. QED
    BY <1>2, <2>2, <2>4 DEF IndInv, TableCoherent, Running
<1>10. QED
  BY <1>7, <1>8, <1>9

\* fork fails: the channel is closed and the slot is not in use.
LEMMA ForkFailsStep ==
  ASSUME IndInv, ForkFails
  PROVE  Filling' /\ ChannelsAccounted' /\ TableCoherent'
<1>1. /\ pc[Master] = "fork" /\ pc' = [pc EXCEPT ![Master] = "spawn"]
      /\ fds' = [fds EXCEPT ![Master] = @ \ ChannelOf(table[s])]
      /\ UNCHANGED <<s, forks, table, last, slot, channel>>
  BY DEF ForkFails, NextSpawn, spawning
<1>2. s = last /\ last \in Nat
  BY <1>1, Constants DEF IndInv, Filling, TypeOK
<1>3. /\ pc'[Master] = "spawn" /\ fds'[Master] = fds[Master] \ ChannelOf(table[last])
      /\ \A w \in Procs : w # Master => pc'[w] = pc[w] /\ fds'[w] = fds[w]
  BY <1>1, <1>2, Constants DEF IndInv, TypeOK
<1>4. InUse = (0 .. last - 1) \cup {last} /\ InUse' = 0 .. last - 1 /\ last \notin 0 .. last - 1
  BY <1>1, <1>2, <1>3 DEF InUse
<1>5. ChannelsAccounted'
  <2>1. /\ fds[Master] = UNION {ChannelOf(table[n]) : n \in (0 .. last - 1) \cup {last}}
        /\ \A n, k \in (0 .. last - 1) \cup {last} :
             n # k => ChannelOf(table[n]) \cap ChannelOf(table[k]) = {}
    BY <1>4 DEF IndInv, ChannelsAccounted
  <2>2. \A n \in 0 .. last - 1 : ChannelOf(table[n]) \cap ChannelOf(table[last]) = {}
    BY <1>4, <2>1
  <2>3. fds[Master] = ChannelOf(table[last]) \cup UNION {ChannelOf(table[n]) : n \in 0 .. last - 1}
    BY <2>1
  <2>4. fds'[Master] = UNION {ChannelOf(table[n]) : n \in 0 .. last - 1}
    BY <1>3, <2>2, <2>3
  <2>5. QED
    BY <1>1, <1>4, <2>1, <2>4 DEF ChannelsAccounted
<1>6. \A w \in 1 .. forks : pc'[w] = pc[w] /\ fds'[w] = fds[w]
  BY <1>3, Constants DEF IndInv, TypeOK, Master
<1>7. TableCoherent'
  BY <1>1, <1>6 DEF IndInv, TableCoherent, Running
<1>8. Filling'
  BY <1>3 DEF Filling
<1>9. QED
  BY <1>5, <1>7, <1>8

\* fork: the child has the slot being filled and its channel.
LEMMA ForkStep ==
  ASSUME IndInv, Fork
  PROVE  Filling' /\ ChannelsAccounted' /\ TableCoherent'
<1> DEFINE c == forks + 1
<1>1. /\ pc[Master] = "fork" /\ forks' = c
      /\ slot' = [slot EXCEPT ![c] = slot[Master]]
      /\ channel' = [channel EXCEPT ![c] = channel[Master]]
      /\ fds' = [fds EXCEPT ![c] = fds[Master]]
      /\ pc' = [pc EXCEPT ![Master] = "record", ![c] = "init"]
      /\ UNCHANGED <<s, table, last>>
  BY DEF Fork, Inherits
<1>2. c \in Procs /\ c # Master /\ forks \in Nat /\ Master \in Procs
  BY <1>1, Constants DEF IndInv, TypeOK, Counting, Master
<1>3. s = last /\ slot[Master] = last /\ last \in Nat
  BY <1>1, Constants DEF IndInv, Filling, TypeOK
<1> HIDE DEF c
<1>4. /\ slot'[c] = slot[Master] /\ channel'[c] = channel[Master]
      /\ fds'[c] = fds[Master]
      /\ \A p \in Procs : p # c => slot'[p] = slot[p] /\ channel'[p] = channel[p] /\ fds'[p] = fds[p]
  BY <1>1, <1>2 DEF IndInv, TypeOK
<1>5. pc'[Master] = "record" /\ \A p \in Procs : p # c /\ p # Master => pc'[p] = pc[p]
  BY <1>1, <1>2 DEF IndInv, TypeOK
<1>6. Filling'
  BY <1>1, <1>2, <1>3, <1>4, <1>5 DEF Filling
<1>7. InUse' = InUse /\ last \in InUse
  BY <1>1, <1>3, <1>5 DEF InUse
<1>8. ChannelsAccounted'
  BY <1>1, <1>2, <1>4, <1>7 DEF IndInv, ChannelsAccounted
<1>9. ASSUME NEW w \in 1 .. forks'
      PROVE  /\ \/ slot'[w] < last /\ table[slot'[w]].pid = w
                \/ slot'[w] = s /\ w = forks'
             /\ table[slot'[w]].channel # NoChannel =>
                  /\ channel'[w] = table[slot'[w]].channel[2]
                  /\ Running(w)' => ChannelOf(table[slot'[w]]) \subseteq fds'[w]
  <2>1. CASE w = c
    <3>1. ChannelOf(table[last]) \subseteq fds[Master]
      BY <1>7 DEF IndInv, ChannelsAccounted
    <3>2. table[last].channel # NoChannel => channel[Master] = table[last].channel[2]
      BY <1>1, <1>3 DEF IndInv, Filling
    <3>3. QED
      BY <2>1, <3>1, <3>2, <1>1, <1>3, <1>4
  <2>2. CASE w # c
    <3>1. w \in 1 .. forks /\ w \in Procs /\ w # Master
      BY <2>2, <1>1, <1>2, Constants DEF c, Master, IndInv, TypeOK
    <3>2. slot'[w] = slot[w] /\ channel'[w] = channel[w] /\ fds'[w] = fds[w] /\ pc'[w] = pc[w]
      BY <2>2, <3>1, <1>4, <1>5
    <3>3. QED
      BY <3>1, <3>2, <1>1 DEF IndInv, TableCoherent, Running
  <2>3. QED
    BY <2>1, <2>2
<1>10. TableCoherent'
  BY <1>1, <1>5, <1>9 DEF TableCoherent
<1>11. QED
  BY <1>6, <1>8, <1>10

\* The new process is recorded in the slot that it believes to have.
LEMMA RecordStep ==
  ASSUME FreshSlots, IndInv, Record
  PROVE  Filling' /\ ChannelsAccounted' /\ TableCoherent'
<1>1. /\ pc[Master] = "record" /\ pc' = [pc EXCEPT ![Master] = "spawn"]
      /\ UNCHANGED <<i, s, forks, slot, channel, fds>>
  BY DEF Record, NextSpawn, globals
<1>2. s = last /\ last \in Nat /\ last \in Slots /\ forks \in Nat \ {0} /\ forks <= i
  BY <1>1, Constants DEF IndInv, Filling, Counting, TypeOK
<1>3. respawn \in Int /\ respawn < 0
  BY <1>2, Constants DEF FreshSlots, IndInv, TypeOK, respawn
<1>4. /\ table' = [table EXCEPT ![last].pid = forks, ![last].respawn = respawn]
      /\ last' = last + 1
  BY <1>2, <1>3 DEF Record
<1>5. /\ table'[last].pid = forks /\ table'[last].channel = table[last].channel
      /\ \A n \in Slots : n # last => table'[n] = table[n]
  BY <1>2, <1>4 DEF IndInv, TypeOK
<1>6. pc'[Master] = "spawn" /\ \A p \in Procs : p # Master => pc'[p] = pc[p]
  BY <1>1, Constants DEF IndInv, TypeOK
<1>7. InUse' = InUse /\ InUse = 0 .. last
  BY <1>1, <1>2, <1>4, <1>6 DEF InUse
<1>8. \A n \in 0 .. last : n \in Slots /\ ChannelOf(table'[n]) = ChannelOf(table[n])
  <2>1. \A n \in 0 .. last : n \in Slots
    BY <1>2, Constants DEF Slots
  <2>2. QED
    BY <2>1, <1>5 DEF ChannelOf
<1>9. ChannelsAccounted'
  <2>1. /\ fds[Master] = UNION {ChannelOf(table[n]) : n \in 0 .. last}
        /\ \A n, k \in 0 .. last : n # k => ChannelOf(table[n]) \cap ChannelOf(table[k]) = {}
    BY <1>7 DEF IndInv, ChannelsAccounted
  <2>2. {ChannelOf(table'[n]) : n \in 0 .. last} = {ChannelOf(table[n]) : n \in 0 .. last}
    BY <1>8
  <2>3. QED
    BY <1>1, <1>7, <1>8, <2>1, <2>2 DEF ChannelsAccounted
<1>10. Filling'
  BY <1>6 DEF Filling
<1>11. ASSUME NEW w \in 1 .. forks
       PROVE  /\ slot[w] < last' /\ table'[slot[w]].pid = w
              /\ table'[slot[w]].channel # NoChannel =>
                   /\ channel[w] = table'[slot[w]].channel[2]
                   /\ Running(w)' => ChannelOf(table'[slot[w]]) \subseteq fds[w]
  <2>1. w \in Procs /\ w # Master
    BY <1>2, Constants DEF IndInv, TypeOK, Master
  <2>2. slot[w] \in Slots /\ slot[w] \in Nat
    BY <2>1, Constants DEF IndInv, TypeOK, Slots
  <2>3. Running(w)' = Running(w)
    BY <1>6, <2>1 DEF Running
  <2>4. /\ \/ slot[w] < last /\ table[slot[w]].pid = w
           \/ slot[w] = last /\ w = forks
        /\ table[slot[w]].channel # NoChannel =>
             /\ channel[w] = table[slot[w]].channel[2]
             /\ Running(w) => ChannelOf(table[slot[w]]) \subseteq fds[w]
    BY <1>2 DEF IndInv, TableCoherent
  <2>5. slot[w] < last' /\ slot[w] \in 0 .. last
    BY <1>2, <1>4, <2>2, <2>4
  <2>6. table'[slot[w]].channel = table[slot[w]].channel
    BY <1>5, <2>2
  <2>7. ChannelOf(table'[slot[w]]) = ChannelOf(table[slot[w]])
    BY <1>8, <2>5
  <2>8. table'[slot[w]].pid = w
    BY <1>2, <1>5, <2>2, <2>4
  <2>9. QED
    BY <2>3, <2>4, <2>5, <2>6, <2>7, <2>8
<1>12. TableCoherent'
  BY <1>1, <1>11 DEF TableCoherent
<1>13. QED
  BY <1>9, <1>10, <1>12

\* Every step of the master, of the workers and of the signal handler.
LEMMA CoherentStep ==
  ASSUME FreshSlots, IndInv, [Next]_vars
  PROVE  Filling' /\ ChannelsAccounted' /\ TableCoherent'
<1>1. Master \in Procs /\ Workers = Procs \ {Master} /\ \A w \in 1 .. forks : w \in Workers
  BY Constants DEF IndInv, TypeOK, Master
<1>2. pc \in [Procs -> {"none", "spawn", "slot", "fork", "record", "loop", "suspended",
                       "init", "events", "check", "exited", "crashed"}]
  BY DEF IndInv, TypeOK
<1>3. fds \in [Procs -> SUBSET Descriptors]
  BY DEF IndInv, TypeOK
<1>4. CASE SpawnStart \/ NoSlot \/ SocketpairFails \/ StartupDone \/ Sigsuspend \/ CheckFlags
  <2>1. UNCHANGED <<s, last, table, forks, slot, channel, fds>>
    BY <1>4 DEF SpawnStart, NoSlot, SocketpairFails, StartupDone, Sigsuspend, CheckFlags,
                spawning, globals
  <2>2. /\ \A w \in Workers : pc'[w] = pc[w]
        /\ pc[Master] \notin {"fork", "record"} /\ pc'[Master] \notin {"fork", "record"}
    BY <1>1, <1>2, <1>4 DEF SpawnStart, NoSlot, SocketpairFails, StartupDone, Sigsuspend,
                CheckFlags, NextSpawn
  <2>3. \A w \in 1 .. forks : Running(w)' => Running(w)
    BY <1>1, <2>2 DEF Running
  <2>4. QED
    BY <2>1, <2>2, <2>3, QuietStep DEF IndInv
<1>5. CASE SetupFails
  BY <1>5, SetupFailsStep
<1>6. CASE ChannelReady
  BY <1>6, ChannelReadyStep
<1>7. CASE ForkFails
  BY <1>7, ForkFailsStep
<1>8. CASE Fork
  BY <1>8, ForkStep
<1>9. CASE Record
  BY <1>9, RecordStep
<1>10. ASSUME NEW w \in Workers, WorkerStep(w)
       PROVE  Filling' /\ ChannelsAccounted' /\ TableCoherent'
  <2>1. UNCHANGED <<s, last, table, forks, slot, channel>>
    BY <1>10 DEF WorkerStep, WorkerInit, ProcessEvents, WorkerCheck, spawning, globals
  <2>2. PICK at \in {"events", "check", "exited", "crashed"} : pc' = [pc EXCEPT ![w] = at]
    BY <1>10 DEF WorkerStep, WorkerInit, ProcessEvents, WorkerCheck, Gone
  <2>3. \/ UNCHANGED fds
        \/ fds' = [fds EXCEPT ![w] = {}] /\ pc'[w] \in {"exited", "crashed"}
    BY <1>1, <1>2, <1>10 DEF WorkerStep, WorkerInit, ProcessEvents, WorkerCheck, Gone, globals
  <2>4. Running(w)
    BY <1>10 DEF WorkerStep, WorkerInit, ProcessEvents, WorkerCheck, Running
  <2>5. w # Master /\ pc'[Master] = pc[Master] /\ fds'[Master] = fds[Master]
    BY <1>1, <1>2, <1>3, <2>2, <2>3
  <2>6. ASSUME NEW v \in 1 .. forks, Running(v)'
        PROVE  Running(v) /\ fds'[v] = fds[v]
    BY <1>1, <1>2, <1>3, <2>2, <2>3, <2>4, <2>6 DEF Running
  <2>7. QED
    BY <2>1, <2>5, <2>6, QuietStep DEF IndInv
<1>11. ASSUME NEW p \in Procs, Sigterm(p) \/ Sigquit(p)
       PROVE  Filling' /\ ChannelsAccounted' /\ TableCoherent'
  <2>1. /\ UNCHANGED <<s, last, table, forks, slot, channel, fds>>
        /\ pc' = [pc EXCEPT ![p] = IF pc[p] = "suspended" THEN "check" ELSE pc[p]]
        /\ Running(p)
    BY <1>11 DEF Sigterm, Sigquit, Deliver, spawning, globals
  <2>2. \/ pc'[Master] = pc[Master]
        \/ pc[Master] = "suspended" /\ pc'[Master] = "check"
    BY <1>1, <1>2, <2>1
  <2>3. \A w \in 1 .. forks : Running(w)' => Running(w)
    BY <1>1, <1>2, <2>1 DEF Running
  <2>4. QED
    BY <2>1, <2>2, <2>3, QuietStep DEF IndInv
<1>12. CASE UNCHANGED vars
  BY <1>12, QuietStep DEF vars, spawning, globals, IndInv, Running
<1>13. QED
  BY <1>4, <1>5, <1>6, <1>7, <1>8, <1>9, <1>10, <1>11, <1>12 DEF Next, MasterStep

(***************************************************************************)
(* When no caller gives a slot, as none in the program does, the table,    *)
(* the descriptors and what the children copied at fork keep the inductive *)
(* invariant.                                                              *)
(***************************************************************************)
THEOREM Invariance ==
  ASSUME FreshSlots
  PROVE  Spec => []IndInv
<1>1. Init => IndInv
  BY TypeInit, CoherentInit DEF IndInv
<1>2. IndInv /\ [Next]_vars => IndInv'
  <2>1. SUFFICES ASSUME IndInv, [Next]_vars
                 PROVE  IndInv'
    OBVIOUS
  <2>2. TypeOK' /\ Counting'
    BY <2>1, PrepareTypes, ForkTypes, LoopTypes DEF IndInv, Next, MasterStep
  <2>3. QED
    BY <2>1, <2>2, CoherentStep DEF IndInv
<1>3. QED
  BY <1>1, <1>2, PTL DEF Spec

\* Whichever call of cw_spawn_process fails, the master keeps no descriptor
\* but the channels of its processes, and no two processes share one.
THEOREM Accounted ==
  ASSUME FreshSlots
  PROVE  Spec => []ChannelsAccounted
<1>1. IndInv => ChannelsAccounted
  BY DEF IndInv
<1>2. QED
  BY <1>1, Invariance, PTL

\* Whoever runs first after fork, what the child knows of its slot and of its
\* channel is what the master records.
THEOREM Coherence ==
  ASSUME FreshSlots
  PROVE  Spec => []TableCoherent
<1>1. IndInv => TableCoherent
  BY DEF IndInv
<1>2. QED
  BY <1>1, Invariance, PTL

=============================================================================
