--------------------------- MODULE StartupProofs ---------------------------
(***************************************************************************)
(* The properties of module Startup, for every value of its constants.     *)
(*                                                                         *)
(* The inductive invariant says of every call of main what there is when   *)
(* it is made.  What it says of the parser is the inductive invariant of   *)
(* ConfParse, whose proof is used through an instance; that of Listening   *)
(* is used in the same way for the sockets.                                *)
(***************************************************************************)
EXTENDS Startup, NatFacts, SequenceTheorems

\* The parser with its proofs: the same definitions as those of Conf.
CP == INSTANCE ConfParseProofs WITH fds <- files

\* And the sockets with theirs.
LP == INSTANCE ListeningProofs WITH
  Descriptors <- Sockets, i <- entry, s <- socket, rc <- sockets_rc

----------------------------------------------------------------------------
(***************************************************************************)
(* The parser within main.                                                 *)
(***************************************************************************)

\* A step of cw_conf_parse in main is one of module ConfParse.
LEMMA ConfNext == Conf!Next => CP!Next
<1> USE DEF Conf!settings, CP!settings, Conf!Call, CP!Call, Conf!Ends, CP!Ends, Conf!Top,
            CP!Top, Conf!Parsing, CP!Parsing, Conf!Reading, CP!Reading, Conf!t, CP!t,
            Conf!Taken, CP!Taken, Conf!OpenFile, CP!OpenFile, Conf!OpenFails, CP!OpenFails
<1> USE DEF Conf!Directive, CP!Directive, Conf!Refused, CP!Refused, Conf!Accepted,
            CP!Accepted, Conf!Candidates, CP!Candidates, Conf!Chosen, CP!Chosen, Conf!Min,
            CP!Min, Conf!Terminated, CP!Terminated, Conf!Counted, CP!Counted,
            Conf!CW_CONF_MAX_ARGS, CP!CW_CONF_MAX_ARGS, Conf!Runs, CP!Runs
<1>1. Conf!ParseParam => CP!ParseParam
  BY Zenon DEF Conf!ParseParam, CP!ParseParam
<1>2. Conf!ParseFile => CP!ParseFile
  BY Zenon DEF Conf!ParseFile, CP!ParseFile
<1>3. Conf!Done => CP!Done
  BY Zenon DEF Conf!Done, CP!Done
<1>4. Conf!TokenError => CP!TokenError
  BY Zenon DEF Conf!TokenError, CP!TokenError
<1>5. Conf!BlockDone => CP!BlockDone
  BY Zenon DEF Conf!BlockDone, CP!BlockDone
<1>6. Conf!FileDone => CP!FileDone
  BY Zenon DEF Conf!FileDone, CP!FileDone
<1>7. Conf!Refuse => CP!Refuse
  BY Zenon DEF Conf!Refuse, CP!Refuse
<1>8. Conf!RunHandler => CP!RunHandler
  BY Zenon DEF Conf!RunHandler, CP!RunHandler, Conf!Skipped, CP!Skipped
<1>9. Conf!RunWorkerProcesses => CP!RunWorkerProcesses
  BY Zenon DEF Conf!RunWorkerProcesses, CP!RunWorkerProcesses,
     Conf!cw_set_worker_processes, CP!cw_set_worker_processes, Conf!auto, CP!auto,
     Conf!cw_atoi, CP!cw_atoi, Conf!CW_ERROR, CP!CW_ERROR, Conf!CW_CONF_UNSET,
     CP!CW_CONF_UNSET, Conf!Accumulate, CP!Accumulate
<1>10. Conf!RunHttp => CP!RunHttp
  BY Zenon DEF Conf!RunHttp, CP!RunHttp
<1>11. Conf!RunBlock => CP!RunBlock
  BY Zenon DEF Conf!RunBlock, CP!RunBlock
<1>12. Conf!RunInclude => CP!RunInclude
  BY Zenon DEF Conf!RunInclude, CP!RunInclude, Conf!Cardinality, CP!Cardinality
<1>13. Conf!Return => CP!Return
  BY Zenon DEF Conf!Return, CP!Return, Conf!Released, CP!Released, Conf!Front, CP!Front
<1>14. QED
  BY <1>1, <1>2, <1>3, <1>4, <1>5, <1>6, <1>7, <1>8, <1>9, <1>10, <1>11, <1>12, <1>13,
     Zenon DEF Conf!Next, CP!Next

\* What ConfParse proves of itself holds of the parser in main.
LEMMA ConfInv == Conf!IndInv <=> CP!IndInv
<1>1. Conf!Typed <=> CP!Typed
  BY Zenon DEF Conf!Typed, CP!Typed, Conf!Frame, CP!Frame, Conf!ConfFile, CP!ConfFile,
     Conf!Contexts, CP!Contexts, Conf!Inputs, CP!Inputs, Conf!Range, CP!Range, Conf!Main,
     CP!Main, Conf!Level, CP!Level, Conf!FileCalls, CP!FileCalls
<1>2. Conf!Chained <=> CP!Chained
  BY Zenon DEF Conf!Chained, CP!Chained, Conf!Level, CP!Level, Conf!FileCalls,
     CP!FileCalls
<1>3. Conf!Held <=> CP!Held
  BY Zenon DEF Conf!Held, CP!Held, Conf!Cardinality, CP!Cardinality, Conf!Level, CP!Level,
     Conf!FileCalls, CP!FileCalls
<1>4. Conf!Begun <=> CP!Begun
  BY Zenon DEF Conf!Begun, CP!Begun, Conf!Level, CP!Level, Conf!FileCalls, CP!FileCalls
<1>5. Conf!Paired <=> CP!Paired
  BY Zenon DEF Conf!Paired, CP!Paired, Conf!OpenBlocks, CP!OpenBlocks,
     Conf!Parsed, CP!Parsed, Conf!Closed, CP!Closed, Conf!ParsesBlock, CP!ParsesBlock,
     Conf!Cardinality, CP!Cardinality, Conf!Level, CP!Level, Conf!FileCalls, CP!FileCalls
<1>6. QED
  BY <1>1, <1>2, <1>3, <1>4, <1>5, Zenon DEF Conf!IndInv, CP!IndInv
\* The same after a step.
LEMMA ConfInvNext == Conf!IndInv' <=> CP!IndInv'
<1>1. Conf!Typed' <=> CP!Typed'
  BY Zenon DEF Conf!Typed, CP!Typed, Conf!Frame, CP!Frame, Conf!ConfFile, CP!ConfFile,
     Conf!Contexts, CP!Contexts, Conf!Inputs, CP!Inputs, Conf!Range, CP!Range, Conf!Main,
     CP!Main, Conf!Level, CP!Level, Conf!FileCalls, CP!FileCalls
<1>2. Conf!Chained' <=> CP!Chained'
  BY Zenon DEF Conf!Chained, CP!Chained, Conf!Level, CP!Level, Conf!FileCalls,
     CP!FileCalls
<1>3. Conf!Held' <=> CP!Held'
  BY Zenon DEF Conf!Held, CP!Held, Conf!Cardinality, CP!Cardinality, Conf!Level, CP!Level,
     Conf!FileCalls, CP!FileCalls
<1>4. Conf!Begun' <=> CP!Begun'
  BY Zenon DEF Conf!Begun, CP!Begun, Conf!Level, CP!Level, Conf!FileCalls, CP!FileCalls
<1>5. Conf!Paired' <=> CP!Paired'
  BY Zenon DEF Conf!Paired, CP!Paired, Conf!OpenBlocks, CP!OpenBlocks,
     Conf!Parsed, CP!Parsed, Conf!Closed, CP!Closed, Conf!ParsesBlock, CP!ParsesBlock,
     Conf!Cardinality, CP!Cardinality, Conf!Level, CP!Level, Conf!FileCalls, CP!FileCalls
<1>6. QED
  BY <1>1, <1>2, <1>3, <1>4, <1>5, Zenon DEF Conf!IndInv, CP!IndInv

\* Its assumption is among those of main.
LEMMA ConfAssumed == CP!ConfParseAssumption
BY PartsAssumption, Zenon DEF Conf!ConfParseAssumption, CP!ConfParseAssumption, Conf!Range, CP!Range

\* The parser's invariant is established before it starts.
LEMMA ParserFresh == Conf!Fresh => Conf!IndInv
<1>1. Conf!Fresh => CP!Fresh
  BY DEF Conf!Fresh, CP!Fresh, Conf!Main, CP!Main, Conf!CW_CONF_UNSET, CP!CW_CONF_UNSET
<1>2. QED
  BY <1>1, ConfAssumed, CP!FreshInv, ConfInv

\* The parser keeps its invariant.
LEMMA ParserStep ==
  ASSUME Conf!IndInv, Conf!Next
  PROVE  Conf!IndInv'
BY ConfAssumed, CP!StepInv, ConfNext, ConfInv, ConfInvNext

\* So does whoever leaves the parser alone.
LEMMA ParserIdle ==
  ASSUME Conf!IndInv, UNCHANGED <<parser, cw_ncpu>>
  PROVE  Conf!IndInv'
<1>1. UNCHANGED CP!vars
  BY DEF parser, CP!vars, CP!settings
<1>2. QED
  BY <1>1, ConfAssumed, CP!StutterInv, ConfInv, ConfInvNext

\* A parser that has returned has closed its files and freed its buffers.
LEMMA ParserDone ==
  ASSUME Conf!IndInv, stage = "done"
  PROVE  stack = <<>> /\ files = {} /\ buffers = {}
<1>1. stack = <<>>
  BY DEF Conf!IndInv, Conf!Begun
<1>2. Conf!FileCalls = {}
  BY <1>1 DEF Conf!FileCalls
<1>3. QED
  BY <1>1, <1>2 DEF Conf!IndInv, Conf!Held

\* The setting that the parser makes is the one of module ConfParse.
LEMMA ConfSetting == (Conf!Configured <=> CP!Configured) /\ (Conf!Configured' <=> CP!Configured')
<1> USE DEF Conf!Given, CP!Given, Conf!Obeyed, CP!Obeyed, Conf!auto, CP!auto, Conf!Decimal,
            CP!Decimal, Conf!Range, CP!Range, Conf!CW_CONF_UNSET, CP!CW_CONF_UNSET
<1>1. Conf!Configured <=> CP!Configured
  BY Zenon DEF Conf!Configured, CP!Configured
<1>2. Conf!Configured' <=> CP!Configured'
  BY Zenon DEF Conf!Configured, CP!Configured
<1>3. QED
  BY <1>1, <1>2

\* There is none before anything was parsed.
LEMMA SettingFresh == Conf!Fresh => Conf!Configured
<1>1. Conf!Fresh => confs = <<>> /\ worker_processes = Conf!CW_CONF_UNSET
  BY DEF Conf!Fresh
<1>2. Len(<<>>) = 0 /\ 1 .. 0 = {}
  OBVIOUS
<1>3. QED
  BY <1>1, <1>2, Zenon DEF Conf!Configured

\* The parser keeps it what the directive says.
LEMMA SettingStep ==
  ASSUME Conf!IndInv, Conf!Configured, cw_ncpu \in 1 .. CW_MAX_INT_T_VALUE, Conf!Next
  PROVE  Conf!Configured'
<1>1. CP!SomeProcessor
  BY DEF CP!SomeProcessor
<1>2. CP!IndInv /\ CP!Configured /\ CP!Next
  BY ConfInv, ConfSetting, ConfNext
<1>3. CP!Configured'
  BY <1>1, <1>2, ConfAssumed, CP!ConfiguredStep
<1>4. QED
  BY <1>3, ConfSetting

\* Nobody else changes it.
LEMMA SettingIdle ==
  ASSUME Conf!Configured, UNCHANGED <<parser, cw_ncpu>>
  PROVE  Conf!Configured'
<1>1. UNCHANGED <<rv, confs, worker_processes, cw_ncpu>>
  BY DEF parser
<1>2. (\A n : Conf!Given(n)' = Conf!Given(n)) /\ (\A w : Conf!Obeyed(w)' <=> Conf!Obeyed(w))
  BY <1>1, Zenon DEF Conf!Given, Conf!Obeyed
<1>3. QED
  BY <1>1, <1>2 DEF Conf!Configured

----------------------------------------------------------------------------
(***************************************************************************)
(* The sockets within main.                                                *)
(***************************************************************************)

\* What Listening assumes is among what main assumes.
LEMMA SockAssumed == LP!ListeningAssumption
BY PartsAssumption, Zenon DEF Sock!ListeningAssumption, LP!ListeningAssumption,
   Sock!Listener, LP!Listener

\* A step of cw_open_listening_sockets in main is one of module Listening.
LEMMA SockNext == [Sock!Next]_Sock!vars => [LP!Next]_LP!vars
<1> USE DEF Sock!Loop, LP!Loop, Sock!Fails, LP!Fails, Sock!Running, LP!Running, Sock!Is, LP!Is,
            Sock!Now, LP!Now, Sock!Closed, LP!Closed, Sock!Skipped, LP!Skipped, Sock!Refused,
            LP!Refused
<1>1. (Sock!Skip => LP!Skip) /\ (Sock!SocketFails => LP!SocketFails)
  BY Zenon DEF Sock!Skip, LP!Skip, Sock!SocketFails, LP!SocketFails
<1>2. Sock!Socket => LP!Socket
  BY Zenon DEF Sock!Socket, LP!Socket
<1>3. (Sock!OptionsFail => LP!OptionsFail) /\ (Sock!Options => LP!Options)
  BY Zenon DEF Sock!OptionsFail, LP!OptionsFail, Sock!Options, LP!Options
<1>4. (Sock!BindFails => LP!BindFails) /\ (Sock!Bind => LP!Bind)
  BY Zenon DEF Sock!BindFails, LP!BindFails, Sock!Bind, LP!Bind
<1>5. (Sock!ListenFails => LP!ListenFails) /\ (Sock!Listen => LP!Listen)
  BY Zenon DEF Sock!ListenFails, LP!ListenFails, Sock!Listen, LP!Listen
<1>6. Sock!Done => LP!Done
  BY Zenon DEF Sock!Done, LP!Done
<1>7. UNCHANGED Sock!vars => UNCHANGED LP!vars
  BY DEF Sock!vars, LP!vars
<1>8. QED
  BY <1>1, <1>2, <1>3, <1>4, <1>5, <1>6, <1>7, Zenon DEF Sock!Next, LP!Next

\* What Listening proves of itself holds of the sockets in main.
LEMMA SockInv == (Sock!IndInv <=> LP!IndInv) /\ (Sock!IndInv' <=> LP!IndInv')
<1> USE DEF Sock!IndInv, LP!IndInv, Sock!Typed, LP!Typed, Sock!SocketsAccounted,
            LP!SocketsAccounted, Sock!Ready, LP!Ready, Sock!AtHand, LP!AtHand, Sock!Progress,
            LP!Progress, Sock!Listener, LP!Listener, Sock!Inherited, LP!Inherited,
            Sock!Running, LP!Running, Sock!Skipped, LP!Skipped
<1>1. Sock!IndInv <=> LP!IndInv
  BY Zenon
<1>2. Sock!IndInv' <=> LP!IndInv'
  BY Zenon
<1>3. QED
  BY <1>1, <1>2

\* The sockets are those of Listening when main begins.
LEMMA SocketsInit == Sock!Init => Sock!IndInv
<1>1. Sock!Init => LP!Init
  BY Zenon DEF Sock!Init, LP!Init, Sock!Inherited, LP!Inherited
<1>2. QED
  BY <1>1, SockAssumed, LP!InitOK, SockInv

----------------------------------------------------------------------------
(***************************************************************************)
(* What the helpers compute.                                               *)
(***************************************************************************)

\* cw_cpystrn with room for the NUL copies the whole name.
LEMMA NameCopy ==
  ASSUME NEW p \in Paths
  PROVE  cw_cpystrn(Append(p, NUL), Len(p) + 1) = Append(p, NUL)
<1> DEFINE src == Append(p, NUL)
           n   == Len(p) + 1
           S   == {j \in 1 .. n - 1 : src[j] = NUL} \cup {n}
<1>1. p \in Seq(STRING \ {NUL})
  BY StartupAssumption
<1>2. n \in Nat \ {0} /\ \A j \in 1 .. n - 1 : src[j] # NUL
  BY <1>1
<1>3. S = {n}
  BY <1>2
<1>4. Min(S) = n
  BY <1>2, <1>3, MinOf
<1>5. SubSeq(src, 1, n - 1) = p
  <2>1. src \in Seq(STRING \cup {NUL}) /\ Len(src) = n
    BY <1>1
  <2>2. /\ SubSeq(src, 1, n - 1) \in Seq(STRING \cup {NUL})
        /\ Len(SubSeq(src, 1, n - 1)) = Len(p)
        /\ \A j \in 1 .. Len(p) : SubSeq(src, 1, n - 1)[j] = p[j]
    BY <1>1, <2>1
  <2>3. QED
    BY <1>1, <2>2, SeqEqual
<1>6. QED
  BY <1>2, <1>4, <1>5 DEF cw_cpystrn

\* cw_os_init takes at least one processor.
LEMMA NcpuAtLeastOne ==
  ASSUME NEW n \in Int, n <= CW_MAX_INT_T_VALUE
  PROVE  Conf!cw_os_init(n) \in 1 .. CW_MAX_INT_T_VALUE
BY ConfAssumed DEF Conf!cw_os_init, CP!ConfParseAssumption

\* sysconf and sysctlbyname give numbers.
LEMMA OnlineInt ==
  /\ CW_MAX_INT_T_VALUE \in Nat \ {0}
  /\ \A n \in Online : n \in Int /\ n <= CW_MAX_INT_T_VALUE
BY ConfAssumed DEF CP!ConfParseAssumption

----------------------------------------------------------------------------
(***************************************************************************)
(* The steps.  Those of main until it runs the master's cycle leave the    *)
(* workers alone.                                                          *)
(***************************************************************************)
\* A call that succeeds before anything is parsed.
LEMMA BootStep ==
  ASSUME IndInv,
         LogInit \/ CreateInitPool \/ ProcessOptions \/ PreinitModules \/ CreateCyclePool
           \/ AllocCycle \/ CycleModules \/ CreateConf \/ CreateConfDone
  PROVE  IndInv'
<1> USE DEF Serving, Parsed, Cycling, Named, Counted, Booting
<1>1. at \in Booting /\ at' \in Booting /\ Running /\ UNCHANGED <<parts, handlers>>
  BY DEF LogInit, CreateInitPool, ProcessOptions, PreinitModules, CreateCyclePool,
         AllocCycle, CycleModules, CreateConf, CreateConfDone, Goes
<1>2. UNCHANGED <<parser, pc, forks, cw_ncpu, handlers>>
  BY <1>1 DEF parts, processes, counts
<1>3. Alone' /\ Parsing'
  BY <1>1, <1>2 DEF IndInv, Alone, Parsing, ReleasedOnReject, SettingTrue, Conf!Fresh, parser,
     Running, Proc!Running, Master, Proc!Master
<1>4. Equipped' /\ Owned'
  BY <1>1, <1>2 DEF IndInv, Equipped, Owned,
         LogInit, CreateInitPool, ProcessOptions, PreinitModules, CreateCyclePool,
         AllocCycle, CycleModules, CreateConf, CreateConfDone, Goes, setup
<1>5. NameCopied'
  BY <1>1, <1>2, NameCopy DEF IndInv, NameCopied,
         LogInit, CreateInitPool, ProcessOptions, PreinitModules, CreateCyclePool,
         AllocCycle, CycleModules, CreateConf, CreateConfDone, Goes, setup
<1>6. ModulesCounted'
  <2>1. ModulesCounted /\ Len(Modules) \in Nat /\ cw_max_module \in Nat
                       /\ Len(Modules) <= cw_max_module
    BY StartupAssumption DEF IndInv, cw_max_module
  <2>2. CASE LogInit \/ CreateInitPool \/ ProcessOptions \/ PreinitModules \/ CreateCyclePool
    BY <2>1, <2>2 DEF ModulesCounted, LogInit, CreateInitPool, ProcessOptions,
       PreinitModules, CreateCyclePool, Goes, setup
  <2>3. CASE AllocCycle
    BY <2>1, <2>3 DEF ModulesCounted, AllocCycle, Goes
  <2>4. CASE CycleModules
    BY <2>1, <2>4 DEF ModulesCounted, CycleModules, Goes
  <2>5. CASE CreateConf
    <3>1. /\ at = "create_conf" /\ at' = "create_conf"
          /\ modules[k] # 0 /\ k' = k + 1
          /\ UNCHANGED <<index, modules>>
      BY <2>5 DEF CreateConf, Goes
    <3>2. k \in 1 .. Len(Modules) /\ modules[k] = k /\ index[k] + 1 = k
      BY <2>1, <3>1 DEF ModulesCounted
    <3>3. conf_ctx' = IF Creates(k) THEN [conf_ctx EXCEPT ![k] = "conf"] ELSE conf_ctx
      BY <2>5, <3>2 DEF CreateConf
    <3>4. conf_ctx' \in [1 .. cw_max_module -> {"NULL", "conf"}]
      BY <2>1, <3>1, <3>3 DEF ModulesCounted
    <3>5. \A m \in 1 .. k' - 1 : Creates(m) => conf_ctx'[m] = "conf"
      BY <2>1, <3>1, <3>2, <3>3 DEF ModulesCounted
    <3>6. QED
      BY <2>1, <3>1, <3>2, <3>4, <3>5 DEF ModulesCounted, Creates
  <2>6. CASE CreateConfDone
    BY <2>1, <2>6 DEF ModulesCounted, CreateConfDone, Goes, setup
  <2>7. QED
    BY <2>2, <2>3, <2>4, <2>5, <2>6
<1>7. NcpuCounted'
  BY <1>1, <1>2 DEF IndInv, NcpuCounted,
         LogInit, CreateInitPool, ProcessOptions, PreinitModules, CreateCyclePool,
         AllocCycle, CycleModules, CreateConf, CreateConfDone, Goes, setup
<1>8. QED
  BY <1>3, <1>4, <1>5, <1>6, <1>7 DEF IndInv

\* cw_os_specific_init and cw_os_init, which count the processors.
LEMMA CountStep ==
  ASSUME IndInv, OsInit \/ (OsSpecificInit /\ Goes("os_specific", "os"))
  PROVE  IndInv'
<1> USE DEF Serving, Parsed, Cycling, Named, Counted, Booting
<1>1. /\ at \in {"os_specific", "os"} /\ at' \in {"os", "modules"} /\ Running
      /\ UNCHANGED <<parser, listening, processes, setup, log, pools, cw_cycle, handlers>>
      /\ cw_ncpu' \in Int /\ cw_ncpu' <= CW_MAX_INT_T_VALUE
      /\ at' = "modules" => cw_ncpu' >= 1
  <2>1. CASE OsInit
    <3>1. PICK n \in Online :
            SetNcpu(Conf!cw_os_init(IF cw_ncpu = 0 THEN n ELSE cw_ncpu))
      BY <2>1 DEF OsInit
    <3>2. /\ cw_ncpu \in Int /\ cw_ncpu <= CW_MAX_INT_T_VALUE
          /\ n \in Int /\ n <= CW_MAX_INT_T_VALUE
      BY <3>1, OnlineInt DEF IndInv, NcpuCounted
    <3>3. cw_ncpu' \in 1 .. CW_MAX_INT_T_VALUE
      BY <3>1, <3>2, NcpuAtLeastOne DEF SetNcpu
    <3>4. QED
      BY <2>1, <3>1, <3>3, OnlineInt DEF OsInit, Goes, SetNcpu
  <2>2. CASE OsSpecificInit /\ Goes("os_specific", "os")
    <3>1. at = "os_specific" /\ at' = "os" /\ Running
      BY <2>2 DEF Goes
    <3>2. \E n \in Online, hw_ncpu \in Sysctl : SetNcpu(IF hw_ncpu = "ok" THEN n ELSE 0)
      BY <2>2, <3>1 DEF OsSpecificInit, Returns
    <3>3. QED
      BY <3>1, <3>2, OnlineInt DEF SetNcpu
  <2>3. QED
    BY <2>1, <2>2
<1>2. UNCHANGED <<pc, forks, sockets_rc>>
  BY <1>1 DEF processes, counts, listening
<1>3. Alone' /\ Parsing'
  BY <1>1, <1>2 DEF IndInv, Alone, Parsing, ReleasedOnReject, SettingTrue, Conf!Fresh, parser,
     Running, Proc!Running, Master, Proc!Master
<1>4. Equipped' /\ Owned' /\ NameCopied' /\ ModulesCounted' /\ NcpuCounted'
  BY <1>1, <1>2 DEF IndInv, Equipped, Owned, NameCopied, ModulesCounted, NcpuCounted, setup
<1>5. QED
  BY <1>3, <1>4 DEF IndInv

\* The step from one call to the next, from the preparation of the parser on,
\* where only the pools, cw_cycle and the handlers may change.
LEMMA CallStep ==
  ASSUME IndInv, PrepareConf \/ ParseAccepted \/ SocketsOpened \/ InitSignal
  PROVE  IndInv'
<1> USE DEF Serving, Parsed, Cycling, Named, Counted, Booting, PrepareConf, ParseAccepted,
            SocketsOpened, InitSignal, Goes
<1>1. /\ at \in {"conf", "parse", "sockets", "signals"}
      /\ at' \in {"parse", "sockets", "signals", "run"}
      /\ Running /\ UNCHANGED <<parts, setup, log>>
  OBVIOUS
<1>2. UNCHANGED <<parser, pc, forks, cw_ncpu, sockets_rc>>
  BY <1>1 DEF parts, processes, counts, listening
<1>3. Alone'
  BY <1>1, <1>2 DEF IndInv, Alone, Running, Proc!Running, Master, Proc!Master
<1>4. Equipped' /\ Owned' /\ NcpuCounted'
  BY <1>1, <1>2 DEF IndInv, Equipped, Owned, NcpuCounted
<1>5. NameCopied' /\ ModulesCounted'
  BY <1>1, <1>2 DEF IndInv, NameCopied, ModulesCounted, setup
<1>6. Parsing'
  <2>1. CASE PrepareConf
    <3>1. Conf!IndInv
      BY <2>1, ParserFresh DEF IndInv, Parsing
    <3>2. Conf!IndInv'
      BY <1>2, <3>1, ParserIdle
    <3>3. Conf!Configured'
      BY <1>2, <2>1, SettingFresh, SettingIdle DEF IndInv, Parsing
    <3>4. QED
      BY <2>1, <3>2, <3>3 DEF Parsing, ReleasedOnReject, SettingTrue
  <2>2. CASE ParseAccepted
    <3>1. stack = <<>> /\ stage = "done" /\ rv = "ok"
      BY <2>2, ParserDone DEF IndInv, Parsing
    <3>2. SettingTrue'
      BY <1>2, <2>2, SettingIdle DEF IndInv, Parsing, SettingTrue
    <3>3. QED
      BY <1>2, <2>2, <3>1, <3>2 DEF Parsing, ReleasedOnReject, parser
  <2>3. CASE SocketsOpened \/ InitSignal
    <3>1. SettingTrue'
      BY <1>2, <2>3, SettingIdle DEF IndInv, Parsing, SettingTrue
    <3>2. QED
      BY <1>2, <2>3, <3>1 DEF IndInv, Parsing, ReleasedOnReject, parser
  <2>4. QED
    BY <2>1, <2>2, <2>3
<1>7. QED
  BY <1>3, <1>4, <1>5, <1>6 DEF IndInv

\* A call fails and main returns: there is no worker yet, and what the parser
\* had is given back if it was the parser that failed.
LEMMA ReturnStep ==
  ASSUME IndInv, NEW a, NEW d, Returns(a, d),
         a # "run", stack = <<>>,
         rv = "error" => pools \ d = {"init"} /\ files = {} /\ buffers = {}
  PROVE  IndInv'
<1> USE DEF Serving, Parsed, Cycling, Named, Counted, Booting
<1>1. /\ at = a /\ at' = "returned" /\ pools' = pools \ d
      /\ pc' = [pc EXCEPT ![Master] = "exited"]
      /\ UNCHANGED <<parser, cw_ncpu, counts, handlers>>
  BY DEF Returns, Dies, Proc!Gone
<1>2. UNCHANGED <<forks, stage, stack, rv, files, buffers>>
  BY <1>1 DEF counts, parser
<1>3. Alone'
  BY <1>1, <1>2 DEF IndInv, Alone, Running, Proc!Running, Master, Proc!Master, Proc!Procs
<1>4. Parsing'
  BY <1>1, <1>2 DEF IndInv, Parsing, ReleasedOnReject, SettingTrue
<1>5. Equipped' /\ Owned' /\ NameCopied' /\ ModulesCounted' /\ NcpuCounted'
  BY <1>1 DEF IndInv, Equipped, Owned, NameCopied, ModulesCounted, NcpuCounted
<1>6. QED
  BY <1>3, <1>4, <1>5 DEF IndInv

\* The failing calls.
LEMMA FailStep ==
  ASSUME IndInv,
         \/ LogFails \/ CreateInitPoolFails \/ CreateCyclePoolFails \/ AllocCycleFails
         \/ CycleModulesFails \/ CreateConfFails \/ PrepareConfFails
         \/ OsSpecificInit /\ Returns("os_specific", {})
         \/ ParseRejected \/ SocketsFail \/ SigactionFails
  PROVE  IndInv'
<1> USE DEF Serving, Parsed, Cycling, Named, Booting
<1>1. ASSUME NEW a \in Booting \cup Parsed, a # "run", NEW d, Returns(a, d)
      PROVE  IndInv'
  <2>1. at = a
    BY <1>1 DEF Returns
  <2>2. stack = <<>> /\ rv # "error"
    BY <1>1, <2>1 DEF IndInv, Parsing, Conf!Fresh
  <2>3. QED
    BY <1>1, <2>2, ReturnStep
<1>2. CASE ParseRejected
  <2>1. stage = "done" /\ at = "parse" /\ Returns("parse", {"cycle", "temp"})
    BY <1>2 DEF ParseRejected, Returns
  <2>2. stack = <<>> /\ files = {} /\ buffers = {} /\ pools = {"init", "cycle", "temp"}
    BY <2>1, ParserDone DEF IndInv, Parsing, Owned
  <2>3. QED
    BY <2>1, <2>2, ReturnStep
<1>3. QED
  BY <1>1, <1>2 DEF LogFails, CreateInitPoolFails, CreateCyclePoolFails, AllocCycleFails,
     CycleModulesFails, CreateConfFails, PrepareConfFails, SocketsFail, SigactionFails, Fails

\* A step that leaves main where it is, and what it owns alone.
LEMMA Elsewhere ==
  ASSUME IndInv, Alone',
         UNCHANGED <<parser, cw_ncpu, listening, setup, at, log, pools, cw_cycle, handlers>>
  PROVE  IndInv'
<1>1. Parsing'
  <2>1. UNCHANGED <<stage, stack, rv, conf_file, confs, files, buffers, ctx,
                    worker_processes, http>>
    BY DEF parser
  <2>2. at = "parse" => Conf!IndInv'
    BY ParserIdle DEF IndInv, Parsing
  <2>3. SettingTrue'
    BY SettingIdle DEF IndInv, Parsing, SettingTrue
  <2>4. QED
    BY <2>1, <2>2, <2>3 DEF IndInv, Parsing, ReleasedOnReject, Conf!Fresh
<1>2. Equipped' /\ Owned' /\ NcpuCounted'
  BY DEF IndInv, Equipped, Owned, NcpuCounted, listening
<1>3. NameCopied' /\ ModulesCounted'
  BY DEF IndInv, NameCopied, ModulesCounted, setup
<1>4. QED
  BY <1>1, <1>2, <1>3 DEF IndInv

\* The parser and the sockets, which main waits for.
LEMMA PartStep ==
  ASSUME IndInv, Parse \/ OpenSockets
  PROVE  IndInv'
<1> USE DEF Serving, Parsed, Cycling, Named, Counted, Booting
<1>1. CASE Parse
  <2>1. /\ at = "parse" /\ at' = "parse" /\ Conf!Next
        /\ UNCHANGED <<listening, processes, setup, log, pools, cw_cycle, handlers>>
    BY <1>1 DEF Parse, Goes
  <2>2. Conf!IndInv'
    BY <2>1, ParserStep DEF IndInv, Parsing
  <2>3. cw_ncpu' = cw_ncpu
    BY <2>1 DEF Conf!Next, Conf!ParseParam, Conf!ParseFile, Conf!Done, Conf!TokenError,
       Conf!BlockDone, Conf!FileDone, Conf!Refuse, Conf!RunHandler, Conf!RunWorkerProcesses,
       Conf!RunHttp, Conf!RunBlock, Conf!RunInclude, Conf!Return, Conf!Ends, Conf!settings
  <2>4. Parsing'
    <3>1. cw_ncpu \in 1 .. CW_MAX_INT_T_VALUE
      BY <2>1, OnlineInt DEF IndInv, NcpuCounted
    <3>2. Conf!Configured'
      BY <2>1, <3>1, SettingStep DEF IndInv, Parsing, SettingTrue
    <3>3. QED
      BY <2>1, <2>2, <3>2 DEF Parsing, ReleasedOnReject, SettingTrue
  <2>5. Alone' /\ Equipped' /\ Owned' /\ NcpuCounted'
    BY <2>1, <2>3 DEF IndInv, Alone, Equipped, Owned, NcpuCounted, listening, processes,
       counts, Running, Proc!Running
  <2>6. NameCopied' /\ ModulesCounted'
    BY <2>1 DEF IndInv, NameCopied, ModulesCounted, setup
  <2>7. QED
    BY <2>4, <2>5, <2>6 DEF IndInv
<1>2. CASE OpenSockets
  <2>1. /\ at = "sockets" /\ at' = "sockets"
        /\ UNCHANGED <<parser, cw_ncpu, processes, setup, log, pools, cw_cycle, handlers>>
    BY <1>2 DEF OpenSockets, Goes
  <2>2. Parsing'
    <3>1. SettingTrue'
      BY <2>1, SettingIdle DEF IndInv, Parsing, SettingTrue
    <3>2. QED
      BY <2>1, <3>1 DEF IndInv, Parsing, ReleasedOnReject, parser
  <2>3. Alone' /\ Equipped' /\ Owned' /\ NcpuCounted'
    BY <2>1 DEF IndInv, Alone, Equipped, Owned, NcpuCounted, processes, counts, Running,
       Proc!Running
  <2>4. NameCopied' /\ ModulesCounted'
    BY <2>1 DEF IndInv, NameCopied, ModulesCounted, setup
  <2>5. QED
    BY <2>2, <2>3, <2>4 DEF IndInv
<1>3. QED
  BY <1>1, <1>2

\* The master's cycle: none of its steps ends the process.
LEMMA MasterCycleStep ==
  ASSUME IndInv, MasterProcessCycle
  PROVE  IndInv'
<1>1. /\ at = "run" /\ at' = "run" /\ Running /\ Proc!MasterStep
      /\ UNCHANGED <<parser, cw_ncpu, listening, setup, at, log, pools, cw_cycle, handlers>>
  BY DEF MasterProcessCycle, Goes
<1>2. DOMAIN pc = Proc!Procs /\ Master \in Proc!Procs
  BY DEF IndInv, Alone, Proc!Procs, Master
<1>3. DOMAIN pc' = Proc!Procs /\ Running'
  <2>1. CASE Proc!Fork
    BY <1>2, <2>1 DEF Proc!Fork, Running, Proc!Running, Master
  <2>2. CASE Proc!CheckFlags
    BY <1>2, <2>2 DEF Proc!CheckFlags, Proc!live, Running, Proc!Running, Master
  <2>3. CASE Proc!SpawnStart \/ Proc!ChannelReady \/ Proc!StartupDone \/ Proc!Sigsuspend
    BY <1>2, <2>3 DEF Proc!SpawnStart, Proc!ChannelReady, Proc!StartupDone, Proc!Sigsuspend,
       Running, Proc!Running, Master
  <2>4. CASE \/ Proc!NoSlot \/ Proc!SocketpairFails \/ Proc!SetupFails
             \/ Proc!ForkFails \/ Proc!Record
    <3>1. Proc!NextSpawn
      BY <2>4 DEF Proc!NoSlot, Proc!SocketpairFails, Proc!SetupFails, Proc!ForkFails, Proc!Record
    <3>2. QED
      BY <1>2, <3>1 DEF Proc!NextSpawn, Running, Proc!Running, Master
  <2>5. QED
    BY <1>1, <2>1, <2>2, <2>3, <2>4 DEF Proc!MasterStep
<1>4. Alone'
  BY <1>1, <1>3 DEF IndInv, Alone, Serving
<1>5. QED
  BY <1>1, <1>4, Elsewhere

\* A worker, and a signal that has its handler, leave the master running.
LEMMA OtherStep ==
  ASSUME IndInv, \/ \E w \in Proc!Workers : Worker(w)
                 \/ \E p \in Proc!Procs : Handled(p)
  PROVE  IndInv'
<1>1. UNCHANGED <<parser, cw_ncpu, listening, setup, at, log, pools, cw_cycle, handlers>>
  BY DEF Worker, Handled
<1>2. DOMAIN pc = Proc!Procs /\ Master \in Proc!Procs
  BY DEF IndInv, Alone, Proc!Procs, Master
<1>3. DOMAIN pc' = Proc!Procs /\ (Running' <=> Running) /\ forks' = forks
  <2>1. ASSUME NEW w \in Proc!Workers, Worker(w)
        PROVE  DOMAIN pc' = Proc!Procs /\ pc'[Master] = pc[Master] /\ forks' = forks
    <3>1. w # Master
      BY DEF Proc!Workers, Master, Proc!Master
    <3>2. QED
      BY <1>2, <2>1, <3>1 DEF Worker, Proc!WorkerStep, Proc!WorkerInit, Proc!ProcessEvents,
         Proc!WorkerCheck, Proc!Gone, Proc!spawning
  <2>2. ASSUME NEW p \in Proc!Procs, Handled(p)
        PROVE  DOMAIN pc' = Proc!Procs /\ (Running' <=> Running) /\ forks' = forks
    <3>1. Proc!Deliver(p)
      BY <2>2 DEF Handled, Proc!Sigquit, Proc!Sigterm
    <3>2. QED
      BY <1>2, <3>1 DEF Proc!Deliver, Proc!spawning, Running, Proc!Running
  <2>3. QED
    BY <2>1, <2>2 DEF Running, Proc!Running
<1>4. Alone'
  BY <1>1, <1>3 DEF IndInv, Alone
<1>5. QED
  BY <1>1, <1>4, Elsewhere

\* A signal without its handler ends the process, which has no worker yet.
LEMMA KilledStep ==
  ASSUME IndInv, Killed
  PROVE  IndInv'
<1>1. /\ handlers # Signals /\ pc' = [pc EXCEPT ![Master] = "crashed"]
      /\ UNCHANGED <<parser, cw_ncpu, listening, counts, setup, at, log, pools, cw_cycle, handlers>>
  BY DEF Killed, Dies, Proc!Gone
<1>2. Alone'
  BY <1>1 DEF IndInv, Alone, counts, Running, Proc!Running, Master, Proc!Master, Proc!Procs
<1>3. QED
  BY <1>1, <1>2, Elsewhere

\* Main before its first call.
LEMMA InitInv == Init => IndInv
<1> SUFFICES ASSUME Init
             PROVE  IndInv
  OBVIOUS
<1>1. /\ at = "log" /\ handlers = {} /\ cw_cycle = "NULL" /\ cw_ncpu = 0
      /\ Conf!Fresh /\ Proc!Init
  BY DEF Init
<1>2. Alone
  BY <1>1 DEF Alone, Booting, Proc!Init, Running, Proc!Running, Master
<1>3. Parsing /\ Equipped /\ Owned /\ NcpuCounted
  BY <1>1, OnlineInt DEF Parsing, ReleasedOnReject, SettingTrue, Equipped, Owned, NcpuCounted,
     Conf!Fresh, Named, Serving, Parsed, Cycling, Counted
<1>4. NameCopied /\ ModulesCounted
  BY <1>1 DEF NameCopied, ModulesCounted, Named, Serving, Parsed, Cycling, Counted
<1>5. QED
  BY <1>2, <1>3, <1>4 DEF IndInv

----------------------------------------------------------------------------
(***************************************************************************)
(* The theorems.                                                           *)
(***************************************************************************)

\* What main relies on before each of its calls is there, whichever call
\* fails and whenever a signal arrives.
THEOREM Invariance == Spec => []IndInv
<1>1. ASSUME IndInv, Next
      PROVE  IndInv'
  <2>1. CASE OsSpecificInit
    <3>1. Goes("os_specific", "os") \/ Returns("os_specific", {})
      BY <2>1 DEF OsSpecificInit
    <3>2. QED
      BY <1>1, <2>1, <3>1, CountStep, FailStep
  <2>2. QED
    BY <1>1, <2>1, BootStep, CountStep, CallStep, FailStep, PartStep, MasterCycleStep,
       OtherStep, KilledStep DEF Next, MainStep
<1>2. ASSUME IndInv, UNCHANGED vars
      PROVE  IndInv'
  <2>1. UNCHANGED <<parser, cw_ncpu, listening, setup, at, log, pools, cw_cycle, handlers,
                    pc, forks>>
    BY <1>2 DEF vars, parts, processes, counts
  <2>2. Alone'
    BY <1>2, <2>1 DEF IndInv, Alone, Running, Proc!Running
  <2>3. QED
    BY <1>2, <2>1, <2>2, Elsewhere
<1>3. QED
  BY <1>1, <1>2, InitInv, PTL DEF Spec

\* Once cw_master_process_cycle has forked a worker, neither a signal nor a
\* failing call ends the master.
THEOREM NoneOrphaned == Spec => []NoOrphans
<1>1. IndInv => NoOrphans
  BY DEF IndInv, NoOrphans, Alone
<1>2. QED
  BY <1>1, Invariance, PTL

\* No code runs on a pool that was destroyed, the signal handler included.
THEOREM AlwaysAlive == Spec => []MemoryAlive
<1>1. IndInv => MemoryAlive
  BY DEF IndInv, MemoryAlive, Alone, Equipped, Owned, Parsing, Serving, Parsed
<1>2. QED
  BY <1>1, Invariance, PTL

\* cw_conf_handler finds the configuration that every module created.
THEOREM ContextsReady == Spec => []ContextsSet
<1>1. IndInv => ContextsSet
  BY DEF IndInv, ContextsSet, ModulesCounted, Named, Cycling
<1>2. QED
  BY <1>1, Invariance, PTL

\* main returns 1 for a configuration that is rejected with everything given
\* back: files, buffers and pools.
THEOREM AllReleased == Spec => []ReleasedOnReject
<1>1. IndInv => ReleasedOnReject
  BY DEF IndInv, ReleasedOnReject, Parsing
<1>2. QED
  BY <1>1, Invariance, PTL

\* The number of workers that the server starts with is the one its
\* configuration asks for, whatever the system says of its processors.
THEOREM SettingProved == Spec => []SettingTrue
<1>1. IndInv => SettingTrue
  BY DEF IndInv, Parsing
<1>2. QED
  BY <1>1, Invariance, PTL

\* cw_init_cycle opens the file that CW_CONF_PATH names.
THEOREM SameName == Spec => []NameKept
<1>1. IndInv => NameKept
  BY DEF IndInv, NameKept, NameCopied, Named, Cycling
<1>2. QED
  BY <1>1, Invariance, PTL

\* No call, no failure and no signal changes the sockets, except
\* cw_open_listening_sockets.
LEMMA SocketsStep ==
  ASSUME [Next]_vars
  PROVE  [Sock!Next]_Sock!vars
<1>1. UNCHANGED listening => UNCHANGED Sock!vars
  BY DEF listening, Sock!vars
<1>2. CASE OpenSockets
  BY <1>2 DEF OpenSockets
<1>3. ASSUME NEW a, NEW d, Returns(a, d)
      PROVE  UNCHANGED listening
  BY <1>3 DEF Returns, Dies
<1>4. CASE \/ LogFails \/ CreateInitPoolFails \/ CreateCyclePoolFails \/ AllocCycleFails
           \/ CycleModulesFails \/ CreateConfFails \/ PrepareConfFails
           \/ ParseRejected \/ SocketsFail \/ SigactionFails
  BY <1>1, <1>3, <1>4 DEF LogFails, CreateInitPoolFails, CreateCyclePoolFails, AllocCycleFails,
     CycleModulesFails, CreateConfFails, PrepareConfFails, ParseRejected, SocketsFail,
     SigactionFails, Fails
<1>5. CASE OsSpecificInit \/ OsInit
  BY <1>1, <1>3, <1>5 DEF OsSpecificInit, OsInit, SetNcpu
<1>6. CASE \/ LogInit \/ CreateInitPool \/ ProcessOptions \/ PreinitModules
           \/ CreateCyclePool \/ AllocCycle \/ CycleModules \/ CreateConf \/ CreateConfDone
           \/ PrepareConf \/ ParseAccepted \/ SocketsOpened \/ InitSignal
  BY <1>1, <1>6 DEF LogInit, CreateInitPool, ProcessOptions, PreinitModules, CreateCyclePool,
     AllocCycle, CycleModules, CreateConf, CreateConfDone, PrepareConf, ParseAccepted,
     SocketsOpened, InitSignal, parts
<1>7. CASE Parse \/ MasterProcessCycle
  BY <1>1, <1>7 DEF Parse, MasterProcessCycle
<1>8. CASE \/ \E w \in Proc!Workers : Worker(w)
           \/ \E p \in Proc!Procs : Handled(p)
           \/ Killed
  BY <1>1, <1>8 DEF Worker, Handled, Killed, Dies
<1>9. CASE UNCHANGED vars
  BY <1>1, <1>9 DEF vars, parts
<1>10. QED
  BY <1>2, <1>4, <1>5, <1>6, <1>7, <1>8, <1>9 DEF Next, MainStep

\* What main does with the listening sockets is what cw_open_listening_sockets
\* does: no other call, no failure and no signal changes them, so that what is
\* proved of the function holds within the program.
THEOREM SocketsRefinement == Spec => Sock!Spec
<1>1. Init => Sock!Init
  BY DEF Init
<1>2. [Next]_vars => [Sock!Next]_Sock!vars
  BY SocketsStep
<1>3. QED
  BY <1>1, <1>2, PTL DEF Spec, Sock!Spec

\* So the invariant of cw_open_listening_sockets holds all along.
LEMMA SocketsKept == Spec => []Sock!IndInv
<1>1. Init => Sock!IndInv
  BY SocketsInit DEF Init
<1>2. ASSUME Sock!IndInv, [Next]_vars
      PROVE  Sock!IndInv'
  BY <1>2, SocketsStep, SockNext, SockInv, SockAssumed, LP!NextStep
<1>3. QED
  BY <1>1, <1>2, PTL DEF Spec

\* Every worker is forked into a server that is complete: configured, with the
\* sockets open that are to be, but for addresses that are in use, and with its
\* signal handlers.
THEOREM ForkedReady == Spec => []WorkersReady
<1>1. ASSUME IndInv, Sock!IndInv
      PROVE  WorkersReady
  <2>1. SUFFICES ASSUME forks > 0
                 PROVE  WorkersReady
    BY DEF WorkersReady
  <2>2. at = "run" /\ sockets_rc = "CW_OK"
    BY <1>1, <2>1 DEF IndInv, Alone, Equipped, Serving
  <2>3. Sock!Ready /\ Sock!Typed /\ Sock!SocketsAccounted /\ Sock!Progress
    BY <1>1 DEF Sock!IndInv
  <2>4. ASSUME NEW n \in 1 .. Len(ls)
        PROVE  ls[n].ignore \/ n \in in_use \/ ls[n].fd \in DOMAIN sock
    <3>1. n \in 1 .. entry - 1
      BY <2>2, <2>3 DEF Sock!Typed, Sock!Progress
    <3>2. ls[n].ignore \/ ls[n].fd # -1 \/ n \in in_use
      BY <2>3, <3>1 DEF Sock!Progress, Sock!Skipped
    <3>3. ls[n].fd # -1 => ls[n].fd \in DOMAIN sock
      BY <2>3 DEF Sock!SocketsAccounted, Sock!Inherited
    <3>4. QED
      BY <3>2, <3>3
  <2>5. QED
    BY <1>1, <2>2, <2>3, <2>4 DEF WorkersReady, IndInv, Alone, Equipped, Owned, Parsing,
       Serving, Parsed
<1>2. QED
  BY <1>1, Invariance, SocketsKept, PTL

=============================================================================
