------------------------------ MODULE Process ------------------------------
(***************************************************************************)
(* The master process, its workers and their signals: src/os/unix/         *)
(* cw_process.c, cw_process_cycle.c and cw_channel.c, and the event loop   *)
(* of src/event/cw_event.c as far as the workers enter it.                 *)
(*                                                                         *)
(* The master spawns its processes one after the other, then loops around  *)
(* sigsuspend.  A child is a copy of the master: it runs on, next to the   *)
(* master, from the moment of fork, with the master's flags, descriptors   *)
(* and globals of that moment.  Signals may arrive at any process between  *)
(* any two steps: the program never blocks one.                            *)
(*                                                                         *)
(* The calls to the kernel that cw_spawn_process makes in a row see no     *)
(* other process, so they are three steps: the channel, fork, and the      *)
(* record of the new process.                                              *)
(***************************************************************************)
EXTENDS Integers, Sequences, FiniteSetsExt

CONSTANTS
  Plan,           \* the respawn arguments of the calls of cw_spawn_process
  MaxProcesses,   \* CW_MAX_PROCESSES
  Descriptors,    \* descriptors the kernel may give to a channel
  InitResults,    \* what a worker's init_process hooks may return
  EventActions,   \* whether cw_event_actions.process_events is set
  MaxSignals      \* bound: signals sent

CW_PROCESS_NORESPAWN    == -1
CW_PROCESS_JUST_SPAWN   == -2
CW_PROCESS_RESPAWN      == -3
CW_PROCESS_JUST_RESPAWN == -4
CW_PROCESS_DETACHED     == -5

ASSUME ProcessAssumption ==
  /\ Plan \in Seq(-5 .. MaxProcesses - 1)
  /\ MaxProcesses \in Nat \ {0}
  /\ Descriptors \subseteq Nat /\ IsFiniteSet(Descriptors)
  /\ InitResults \subseteq {"ok", "error"}
  /\ EventActions \in BOOLEAN
  /\ MaxSignals \in Nat

Master  == 0
Workers == 1 .. Len(Plan)
Procs   == {Master} \cup Workers
Slots   == 0 .. MaxProcesses - 1

VARIABLES
  pc,           \* where each process is; "none": not forked
  i,            \* calls of cw_spawn_process begun
  s,            \* the slot that the running call uses
  forks,        \* processes forked; the last one has this number
  table,        \* the master's cw_processes
  last,         \* cw_last_process
  slot,         \* cw_process_slot of each process
  channel,      \* cw_channel of each process
  fds,          \* the descriptors each process has open
  terminate,    \* cw_terminate of each process
  quit,         \* cw_quit of each process
  sent          \* signals sent

spawning == <<i, s, forks, table, last>>
globals  == <<slot, channel, fds>>
flags    == <<terminate, quit>>
vars     == <<pc, spawning, globals, flags, sent>>

NoChannel  == <<-1, -1>>
ChannelOf(t) == {t.channel[1], t.channel[2]} \ {-1}

----------------------------------------------------------------------------
(***************************************************************************)
(* cw_spawn_process.                                                       *)
(***************************************************************************)
respawn == Plan[i]

\* The slot given, or else the first one whose pid is -1, or a new one.
SlotFor == IF respawn >= 0
             THEN respawn
             ELSE Min({n \in 0 .. last - 1 : table[n].pid = -1} \cup {last})

\* Fault: the table is taken to have one more slot.
Full_late == respawn < 0 /\ SlotFor > MaxProcesses
Full      == respawn < 0 /\ SlotFor = MaxProcesses

\* cw_start_worker_processes ignores what cw_spawn_process returns.
NextSpawn == pc' = [pc EXCEPT ![Master] = "spawn"]

SpawnStart ==
  /\ pc[Master] = "spawn"
  /\ i < Len(Plan)
  /\ i' = i + 1
  /\ pc' = [pc EXCEPT ![Master] = "slot"]
  /\ UNCHANGED <<s, forks, table, last, globals, flags, sent>>

NoSlot ==
  /\ pc[Master] = "slot"
  /\ Full
  /\ NextSpawn
  /\ UNCHANGED <<spawning, globals, flags, sent>>

\* The kernel gives the lowest two descriptors that are free.
Free == Descriptors \ fds[Master]
Pair == <<Min(Free), Min(Free \ {Min(Free)})>>

\* Fault: the child is told the master's end of its channel.
ChildEnd_master(pair) == pair[1]

\* cw_channel: the end of the channel that the child is to use.
ChildEnd(pair) == pair[2]

SocketpairFails ==
  /\ pc[Master] = "slot"
  /\ ~Full
  /\ respawn # CW_PROCESS_DETACHED
  /\ NextSpawn
  /\ UNCHANGED <<spawning, globals, flags, sent>>

\* Fault: the channel stays open when it cannot be set up.
SetupFails_open ==
  /\ pc[Master] = "slot"
  /\ ~Full
  /\ respawn # CW_PROCESS_DETACHED
  /\ Cardinality(Free) >= 2
  /\ table' = [table EXCEPT ![SlotFor].channel = Pair]
  /\ fds' = [fds EXCEPT ![Master] = @ \cup {Pair[1], Pair[2]}]
  /\ NextSpawn
  /\ UNCHANGED <<i, s, forks, last, slot, channel, flags, sent>>

\* One of nonblocking, FIOASYNC, F_SETOWN and F_SETFD fails: cw_close_channel.
SetupFails ==
  /\ pc[Master] = "slot"
  /\ ~Full
  /\ respawn # CW_PROCESS_DETACHED
  /\ Cardinality(Free) >= 2
  /\ table' = [table EXCEPT ![SlotFor].channel = Pair]
  /\ NextSpawn
  /\ UNCHANGED <<i, s, forks, last, globals, flags, sent>>

ChannelReady ==
  /\ pc[Master] = "slot"
  /\ ~Full
  /\ s' = SlotFor
  /\ IF respawn # CW_PROCESS_DETACHED
       THEN /\ Cardinality(Free) >= 2
            /\ table' = [table EXCEPT ![SlotFor].channel = Pair]
            /\ fds' = [fds EXCEPT ![Master] = @ \cup {Pair[1], Pair[2]}]
            /\ channel' = [channel EXCEPT ![Master] = ChildEnd(Pair)]
       ELSE /\ table' = [table EXCEPT ![SlotFor].channel = NoChannel]
            /\ UNCHANGED <<fds, channel>>
  /\ slot' = [slot EXCEPT ![Master] = SlotFor]
  /\ pc' = [pc EXCEPT ![Master] = "fork"]
  /\ UNCHANGED <<i, forks, last, flags, sent>>

\* Fault: a failed fork is tried again.
ForkFails_retry ==
  /\ pc[Master] = "fork"
  /\ fds' = [fds EXCEPT ![Master] = @ \ ChannelOf(table[s])]
  /\ pc' = [pc EXCEPT ![Master] = "slot"]
  /\ UNCHANGED <<spawning, slot, channel, flags, sent>>

ForkFails ==
  /\ pc[Master] = "fork"
  /\ fds' = [fds EXCEPT ![Master] = @ \ ChannelOf(table[s])]
  /\ NextSpawn
  /\ UNCHANGED <<spawning, slot, channel, flags, sent>>

\* The child starts with the master's memory and descriptors.
Inherits(f, c) == [f EXCEPT ![c] = f[Master]]

Fork ==
  /\ pc[Master] = "fork"
  /\ forks' = forks + 1
  /\ slot' = Inherits(slot, forks')
  /\ channel' = Inherits(channel, forks')
  /\ fds' = Inherits(fds, forks')
  /\ terminate' = Inherits(terminate, forks')
  /\ quit' = Inherits(quit, forks')
  /\ pc' = [pc EXCEPT ![Master] = "record", ![forks'] = "init"]
  /\ UNCHANGED <<i, s, table, last, sent>>

\* Fault: the number of slots in use is not counted.
Record_uncounted ==
  /\ pc[Master] = "record"
  /\ table' = [table EXCEPT ![s].pid = forks, ![s].respawn = respawn]
  /\ NextSpawn
  /\ UNCHANGED <<i, s, forks, last, globals, flags, sent>>

\* A process put into a slot of its own leaves the slot's other fields alone.
Record ==
  /\ pc[Master] = "record"
  /\ IF respawn >= 0
       THEN /\ table' = [table EXCEPT ![s].pid = forks]
            /\ UNCHANGED last
       ELSE /\ table' = [table EXCEPT ![s].pid = forks, ![s].respawn = respawn]
            /\ last' = IF s = last THEN last + 1 ELSE last
  /\ NextSpawn
  /\ UNCHANGED <<i, s, forks, globals, flags, sent>>

----------------------------------------------------------------------------
(***************************************************************************)
(* cw_master_process_cycle after the workers were started.                 *)
(***************************************************************************)

\* The variable live of the loop, which is never cleared.
live == TRUE

StartupDone ==
  /\ pc[Master] = "spawn"
  /\ i = Len(Plan)
  /\ pc' = [pc EXCEPT ![Master] = "loop"]
  /\ UNCHANGED <<spawning, globals, flags, sent>>

\* sigsuspend waits for a signal that arrives from now on.
Sigsuspend ==
  /\ pc[Master] = "loop"
  /\ pc' = [pc EXCEPT ![Master] = "suspended"]
  /\ UNCHANGED <<spawning, globals, flags, sent>>

\* Both flags are only logged, then the loop goes on.
CheckFlags ==
  /\ pc[Master] = "check"
  /\ pc' = [pc EXCEPT ![Master] =
              IF ~live /\ (terminate[Master] # 0 \/ quit[Master] # 0)
                THEN "exited" ELSE "loop"]
  /\ UNCHANGED <<spawning, globals, flags, sent>>

----------------------------------------------------------------------------
(***************************************************************************)
(* cw_worker_process_cycle.                                                *)
(***************************************************************************)
Gone(w, how) ==
  /\ pc' = [pc EXCEPT ![w] = how]
  /\ fds' = [fds EXCEPT ![w] = {}]

WorkerInit(w) ==
  /\ pc[w] = "init"
  /\ \/ /\ "ok" \in InitResults
        /\ pc' = [pc EXCEPT ![w] = "events"]
        /\ UNCHANGED fds
     \/ /\ "error" \in InitResults
        /\ Gone(w, "exited")
  /\ UNCHANGED <<spawning, slot, channel, flags, sent>>

\* cw_process_events_and_timers calls through cw_event_actions, and a call
\* through NULL ends the process.
ProcessEvents(w) ==
  /\ pc[w] = "events"
  /\ IF EventActions
       THEN pc' = [pc EXCEPT ![w] = "check"] /\ UNCHANGED fds
       ELSE Gone(w, "crashed")
  /\ UNCHANGED <<spawning, slot, channel, flags, sent>>

\* With cw_terminate set it logs "exiting" and calls cw_worker_process_exit,
\* which does nothing: the loop goes on either way.
WorkerCheck(w) ==
  /\ pc[w] = "check"
  /\ pc' = [pc EXCEPT ![w] = "events"]
  /\ UNCHANGED <<spawning, globals, flags, sent>>

----------------------------------------------------------------------------
(***************************************************************************)
(* cw_signal_handler.                                                      *)
(***************************************************************************)
Running(p) == pc[p] \notin {"none", "exited", "crashed"}

\* The handler runs in the middle of whatever the process does; sigsuspend
\* returns after it.
Deliver(p) ==
  /\ Running(p)
  /\ sent < MaxSignals
  /\ sent' = sent + 1
  /\ pc' = [pc EXCEPT ![p] = IF @ = "suspended" THEN "check" ELSE @]
  /\ UNCHANGED <<spawning, globals>>

Sigterm(p) ==
  /\ Deliver(p)
  /\ terminate' = [terminate EXCEPT ![p] = 2]
  /\ UNCHANGED quit

Sigquit(p) ==
  /\ Deliver(p)
  /\ quit' = [quit EXCEPT ![p] = 1]
  /\ UNCHANGED terminate

----------------------------------------------------------------------------
Init ==
  /\ pc = [p \in Procs |-> IF p = Master THEN "spawn" ELSE "none"]
  /\ i = 0 /\ s = 0 /\ forks = 0 /\ last = 0 /\ sent = 0
  /\ table = [n \in Slots |-> [pid |-> 0, channel |-> <<0, 0>>, respawn |-> 0]]
  /\ slot = [p \in Procs |-> 0]
  /\ channel = [p \in Procs |-> 0]
  /\ fds = [p \in Procs |-> {}]
  /\ terminate = [p \in Procs |-> 0]
  /\ quit = [p \in Procs |-> 0]

MasterStep ==
  \/ SpawnStart \/ NoSlot \/ SocketpairFails \/ SetupFails \/ ChannelReady
  \/ ForkFails \/ Fork \/ Record
  \/ StartupDone \/ Sigsuspend \/ CheckFlags

WorkerStep(w) == WorkerInit(w) \/ ProcessEvents(w) \/ WorkerCheck(w)

Next ==
  \/ MasterStep
  \/ \E w \in Workers : WorkerStep(w)
  \/ \E p \in Procs : Sigterm(p) \/ Sigquit(p)

Spec == Init /\ [][Next]_vars

\* Every process that can run is given the processor again and again.
Fairness == WF_vars(MasterStep) /\ \A w \in Workers : WF_vars(WorkerStep(w))

FairSpec == Spec /\ Fairness

----------------------------------------------------------------------------
(***************************************************************************)
(* Properties.                                                             *)
(***************************************************************************)

\* What channel[0] and channel[1] of a slot may be: 0 before it is used.
ChannelT == (Descriptors \cup {-1, 0}) \X (Descriptors \cup {-1, 0})

\* Every variable has its type, and the slot in use is one of the table.
TypeOK ==
  /\ pc \in [Procs -> {"none", "spawn", "slot", "fork", "record", "loop", "suspended",
                       "init", "events", "check", "exited", "crashed"}]
  /\ i \in 0 .. Len(Plan) /\ s \in Slots /\ forks \in 0 .. i
  /\ table \in [Slots -> [pid : 0 .. forks, respawn : -5 .. 0, channel : ChannelT]]
  /\ last \in 0 .. MaxProcesses
  /\ slot \in [Procs -> Slots]
  /\ channel \in [Procs -> Descriptors \cup {0}]
  /\ fds \in [Procs -> SUBSET Descriptors]
  /\ terminate \in [Procs -> {0, 2}] /\ quit \in [Procs -> {0, 1}]

\* The slots with a process, and the one being filled.
InUse == (0 .. last - 1) \cup (IF pc[Master] \in {"fork", "record"} THEN {s} ELSE {})

\* Whichever call fails, every descriptor the master has open is the channel
\* of one of its slots in use, and no two of them share one: a process that
\* could not be spawned leaves none behind.
ChannelsAccounted ==
  /\ fds[Master] = UNION {ChannelOf(table[n]) : n \in InUse}
  /\ \A n, k \in InUse : n # k => ChannelOf(table[n]) \cap ChannelOf(table[k]) = {}

\* What a child believes of itself is what the master records, whether the
\* child or the master runs first after fork: its slot, and its end of its
\* channel, which it has open while it runs.
TableCoherent ==
  \A w \in 1 .. forks :
    /\ \/ slot[w] < last /\ table[slot[w]].pid = w
       \/ slot[w] = s /\ w = forks /\ pc[Master] = "record"
    /\ table[slot[w]].channel # NoChannel =>
         /\ channel[w] = table[slot[w]].channel[2]
         /\ Running(w) => ChannelOf(table[slot[w]]) \subseteq fds[w]

(***************************************************************************)
(* The inductive invariant behind these properties, when every process is  *)
(* put into a slot of its own: the program's only caller of                *)
(* cw_spawn_process, cw_start_worker_processes, never gives a slot.        *)
(***************************************************************************)
FreshSlots == \A n \in 1 .. Len(Plan) : Plan[n] < 0

\* A call that may still fork has not forked.
Counting ==
  /\ pc[Master] \in {"slot", "fork"} => forks < i
  /\ pc[Master] = "record" => forks > 0

\* The slot being filled is the first that is not in use, and the master's
\* globals, which the child will copy, are those of this slot.
Filling ==
  /\ pc[Master] \in {"fork", "record"} => s = last /\ slot[Master] = last
  /\ pc[Master] = "fork" /\ table[s].channel # NoChannel =>
       channel[Master] = table[s].channel[2]

IndInv == TypeOK /\ Counting /\ Filling /\ ChannelsAccounted /\ TableCoherent

\* Every child is eventually in the master's table, even one that is gone
\* before the master gets to it.
EveryChildRecorded ==
  \A w \in Workers : pc[w] # "none" ~> \E n \in 0 .. last - 1 : table[n].pid = w

\* However many calls fail, the master gets to its signal loop.
StartupCompletes == <>(pc[Master] = "suspended")

\* A process that has logged the receipt of SIGTERM with ", exiting" is gone
\* in the end.
TerminateExits == \A p \in Procs : terminate[p] # 0 ~> ~Running(p)

\* When the master has logged the receipt of SIGQUIT with ", shutting down",
\* its loop gets to look at cw_quit.
QuitNoticed == quit[Master] # 0 ~> pc[Master] = "check"

=============================================================================
