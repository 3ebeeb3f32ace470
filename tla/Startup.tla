------------------------------ MODULE Startup ------------------------------
(***************************************************************************)
(* main of src/core/cw.c and what it calls, in the order in which it calls *)
(* it: cw_log_init, cw_os_init, cw_preinit_modules, cw_init_cycle with the *)
(* parser (module ConfParse) and the listening sockets (Listening), then   *)
(* cw_init_signals and cw_master_process_cycle with the workers (Process). *)
(* Any call may fail, and a signal may arrive between any two steps.       *)
(*                                                                         *)
(* The variables of the three parts are renamed where they would clash;    *)
(* "at" is the call that main is about to make.                            *)
(***************************************************************************)
EXTENDS Integers, Sequences, SequencesExt, FiniteSetsExt

CONSTANTS
  Commands, Params, Files, CW_MAX_INT_T_VALUE, Online, Failures, MaxOpen,
  Entries, Sockets,
  Plan, MaxProcesses, Channels, InitResults, EventActions, MaxSignals,
  Modules,                    \* cw_modules, which the configure scripts write
  CW_MAX_DYNAMIC_MODULES,
  Paths,                      \* the characters of what CW_CONF_PATH may be
  CW_HAVE_OS_SPECIFIC_INIT

NUL == "\\0"

\* A name is a string of C, which ends where its NUL is.
ASSUME StartupAssumption ==
  /\ Modules \in Seq([type : {"CORE", "CONF"}, create_conf : BOOLEAN])
  /\ CW_MAX_DYNAMIC_MODULES \in Nat
  /\ \A p \in Paths : p \in Seq(STRING \ {NUL})
  /\ CW_HAVE_OS_SPECIFIC_INIT \in BOOLEAN

VARIABLES
  stage, stack, rv, conf_file, confs, files, buffers, ctx, cw_ncpu, worker_processes, http
VARIABLES
  ls, entry, socket, sock, in_use, sockets_rc
VARIABLES
  pc, spawns, spawn_slot, forks, table, last, slot, channel, fds, terminate, quit, sent
VARIABLES
  at,           \* the next call of main or cw_init_cycle, or "returned"
  log,          \* whether zlog is initialised
  pools,        \* the pools there are: of init_cycle, of the cycle, temp_pool
  cw_cycle,     \* which cycle the global points to: "NULL", "init" or "cycle"
  path,         \* init_cycle.conf_file
  name,         \* the bytes of cycle->conf_file
  index,        \* the index field of every module, -1 until it is set
  conf_ctx,     \* cycle->conf_ctx
  modules,      \* cycle->modules
  k,            \* the module at hand when the modules create their configuration
  handlers      \* the signals that have cw_signal_handler installed

Conf == INSTANCE ConfParse WITH fds <- files
Sock == INSTANCE Listening WITH
  Descriptors <- Sockets, i <- entry, s <- socket, rc <- sockets_rc
Proc == INSTANCE Process WITH
  Descriptors <- Channels, i <- spawns, s <- spawn_slot

\* What these modules assume of the constants holds for main's.
ASSUME PartsAssumption ==
  Conf!ConfParseAssumption /\ Sock!ListeningAssumption /\ Proc!ProcessAssumption

counts    == <<spawns, spawn_slot, forks, table, last>>
parser    == <<stage, stack, rv, conf_file, confs, files, buffers, ctx, worker_processes, http>>
listening == <<ls, entry, socket, sock, in_use, sockets_rc>>
processes == <<pc, counts, slot, channel, fds, terminate, quit, sent>>

parts == <<parser, cw_ncpu, listening, processes>>
setup == <<path, name, index, conf_ctx, modules, k>>
vars  == <<parts, setup, at, log, pools, cw_cycle, handlers>>

Master  == Proc!Master
Running == Proc!Running(Master)

----------------------------------------------------------------------------
\* The call succeeds and the next one is b.
Goes(a, b) == Running /\ at = a /\ at' = b

\* The process is gone.
Dies(how) ==
  /\ Proc!Gone(Master, how)
  /\ UNCHANGED <<parser, cw_ncpu, listening, counts, slot, channel, terminate, quit>>

\* The call fails and main returns 1, after the pools d were destroyed.
Returns(a, d) ==
  /\ Running /\ at = a /\ at' = "returned"
  /\ pools' = pools \ d
  /\ Dies("exited")
  /\ UNCHANGED <<setup, log, cw_cycle, handlers, sent>>

Fails(a, d) == Failures /\ Returns(a, d)

----------------------------------------------------------------------------
(***************************************************************************)
(* main, up to cw_init_cycle.                                              *)
(***************************************************************************)
LogInit ==
  /\ Goes("log", "init_pool")
  /\ log' = "open"
  /\ cw_cycle' = "init"
  /\ UNCHANGED <<parts, setup, pools, handlers>>

\* zlog_init fails, or the category is not there and zlog_fini undoes it.
LogFails == Fails("log", {})

CreateInitPool ==
  /\ Goes("init_pool", "options")
  /\ pools' = {"init"}
  /\ UNCHANGED <<parts, setup, log, cw_cycle, handlers>>

CreateInitPoolFails == Fails("init_pool", {})

\* Nothing sets cw_conf_file, so it is always CW_CONF_PATH.
ProcessOptions ==
  /\ Goes("options", IF CW_HAVE_OS_SPECIFIC_INIT THEN "os_specific" ELSE "os")
  /\ path' \in Paths
  /\ UNCHANGED <<parts, name, index, conf_ctx, modules, k, log, pools, cw_cycle, handlers>>

\* What a call of sysctlbyname may return.
Sysctl == IF Failures THEN {"ok", "ENOENT", "ENOMEM", "other"} ELSE {"ok"}

SetNcpu(n) ==
  /\ cw_ncpu' = n
  /\ UNCHANGED <<parser, listening, processes, setup, log, pools, cw_cycle, handlers>>

\* cw_os_specific_init of Darwin.  A string that is too long is cut, a value
\* that is too long is an error; what is not there stays as it was, which for
\* hw.ncpu is zero.  The table sysctls is not in the repository: its entries
\* are taken to be the two values that the function uses afterwards.
OsSpecificInit ==
  /\ at = "os_specific"
  /\ \E ostype, osrelease, hw_ncpu, somaxconn \in Sysctl, large \in {FALSE, Failures} :
       IF /\ "other" \notin {ostype, osrelease}
          /\ {hw_ncpu, somaxconn} \subseteq {"ok", "ENOENT"}
          /\ ~(somaxconn = "ok" /\ large)
         THEN /\ Goes("os_specific", "os")
              /\ \E n \in Online : SetNcpu(IF hw_ncpu = "ok" THEN n ELSE 0)
         ELSE Returns("os_specific", {})

\* Fault: the number is looked at before sysconf is asked.
OsInit_early ==
  /\ Goes("os", "modules")
  /\ \E n \in Online : SetNcpu(IF cw_ncpu = 0 THEN n ELSE Conf!cw_os_init(cw_ncpu))

\* Without the name for it sysconf is not asked, which leaves zero.
OsInit ==
  /\ Goes("os", "modules")
  /\ \E n \in Online : SetNcpu(Conf!cw_os_init(IF cw_ncpu = 0 THEN n ELSE cw_ncpu))

cw_max_module == Len(Modules) + CW_MAX_DYNAMIC_MODULES

PreinitModules ==
  /\ Goes("modules", "cycle_pool")
  /\ index' = [m \in 1 .. Len(Modules) |-> m - 1]
  /\ UNCHANGED <<parts, path, name, conf_ctx, modules, k, log, pools, cw_cycle, handlers>>

----------------------------------------------------------------------------
(***************************************************************************)
(* cw_init_cycle.                                                          *)
(***************************************************************************)
CreateCyclePool ==
  /\ Goes("cycle_pool", "cycle")
  /\ pools' = pools \cup {"cycle"}
  /\ UNCHANGED <<parts, setup, log, cw_cycle, handlers>>

CreateCyclePoolFails == Fails("cycle_pool", {})

\* Fault: one character less is copied than there is room for.
cw_cpystrn_short(src, n) ==
  LET end == Min({j \in 1 .. n - 2 : src[j] = NUL} \cup {n - 1})
  IN  IF n <= 1 THEN <<>> ELSE Append(SubSeq(src, 1, end - 1), NUL)

\* The bytes written: the string up to its end, but no more than n with the
\* NUL that is put behind what was copied.
cw_cpystrn(src, n) ==
  LET end == Min({j \in 1 .. n - 1 : src[j] = NUL} \cup {n})
  IN  IF n = 0 THEN <<>> ELSE Append(SubSeq(src, 1, end - 1), NUL)

\* The cycle itself, conf_ctx and the copy of the name.
AllocCycle ==
  /\ Goes("cycle", "cycle_modules")
  /\ conf_ctx' = [m \in 1 .. cw_max_module |-> "NULL"]
  /\ name' = cw_cpystrn(Append(path, NUL), Len(path) + 1)
  /\ UNCHANGED <<parts, path, index, modules, k, log, pools, cw_cycle, handlers>>

AllocCycleFails == Fails("cycle", {"cycle"})

\* cycle->modules is zeroed, and longer than the list copied to it.
CycleModules ==
  /\ Goes("cycle_modules", "create_conf")
  /\ modules' = [m \in 1 .. cw_max_module + 1 |-> IF m <= Len(Modules) THEN m ELSE 0]
  /\ k' = 1
  /\ UNCHANGED <<parts, path, name, index, conf_ctx, log, pools, cw_cycle, handlers>>

\* The pool is not destroyed.
CycleModulesFails == Fails("cycle_modules", {})

Creates(m) == Modules[m].type = "CORE" /\ Modules[m].create_conf

CreateConf ==
  /\ Goes("create_conf", "create_conf")
  /\ modules[k] # 0
  /\ conf_ctx' = IF Creates(modules[k])
                   THEN [conf_ctx EXCEPT ![index[modules[k]] + 1] = "conf"] ELSE conf_ctx
  /\ k' = k + 1
  /\ UNCHANGED <<parts, path, name, index, modules, log, pools, cw_cycle, handlers>>

\* Fault: that a module has no configuration is not noticed.
CreateConfFails_ignored ==
  /\ Failures
  /\ Goes("create_conf", "create_conf")
  /\ modules[k] # 0 /\ Creates(modules[k])
  /\ k' = k + 1
  /\ UNCHANGED <<parts, path, name, index, conf_ctx, modules, log, pools, cw_cycle, handlers>>

CreateConfFails ==
  /\ Fails("create_conf", {"cycle"})
  /\ modules[k] # 0 /\ Creates(modules[k])

CreateConfDone ==
  /\ Goes("create_conf", "conf")
  /\ modules[k] = 0
  /\ UNCHANGED <<parts, setup, log, pools, cw_cycle, handlers>>

\* conf.args, then conf.temp_pool.
PrepareConf ==
  /\ Goes("conf", "parse")
  /\ pools' = pools \cup {"temp"}
  /\ UNCHANGED <<parts, setup, log, cw_cycle, handlers>>

PrepareConfFails == Fails("conf", {"cycle"})

Parse ==
  /\ Goes("parse", "parse")
  /\ Conf!Next
  /\ UNCHANGED <<listening, processes, setup, log, pools, cw_cycle, handlers>>

\* Fault: both pools are destroyed, where only temp_pool is no longer needed.
ParseAccepted_freed ==
  /\ Goes("parse", "sockets")
  /\ stage = "done" /\ rv = "ok"
  /\ pools' = {"init"}
  /\ UNCHANGED <<parts, setup, log, cw_cycle, handlers>>

\* temp_pool stays for good.
ParseAccepted ==
  /\ Goes("parse", "sockets")
  /\ stage = "done" /\ rv = "ok"
  /\ UNCHANGED <<parts, setup, log, pools, cw_cycle, handlers>>

\* Fault: the temporary pool is left.
ParseRejected_leak == stage = "done" /\ rv = "error" /\ Returns("parse", {"cycle"})

\* cw_destroy_cycle_pools.
ParseRejected == stage = "done" /\ rv = "error" /\ Returns("parse", {"cycle", "temp"})

OpenSockets ==
  /\ Goes("sockets", "sockets")
  /\ Sock!Next
  /\ UNCHANGED <<parser, cw_ncpu, processes, setup, log, pools, cw_cycle, handlers>>

\* cw_init_cycle returns, and main sets cw_cycle.
SocketsOpened ==
  /\ Goes("sockets", "signals")
  /\ sockets_rc = "CW_OK"
  /\ cw_cycle' = "cycle"
  /\ UNCHANGED <<parts, setup, log, pools, handlers>>

\* Fault: what cw_open_listening_sockets returns is not looked at.
SocketsFail_ignored ==
  /\ Goes("sockets", "signals")
  /\ sockets_rc = "CW_ERROR"
  /\ cw_cycle' = "cycle"
  /\ UNCHANGED <<parts, setup, log, pools, handlers>>

\* The pools are not destroyed.
SocketsFail == sockets_rc = "CW_ERROR" /\ Returns("sockets", {})

----------------------------------------------------------------------------
(***************************************************************************)
(* cw_init_signals, the process cycles, and signals.                       *)
(***************************************************************************)
Signals == {"SIGQUIT", "SIGTERM"}

\* The entry of the table signals that is next.
NextSignal == IF "SIGQUIT" \notin handlers THEN "SIGQUIT" ELSE "SIGTERM"

InitSignal ==
  /\ Goes("signals", IF handlers \cup {NextSignal} = Signals THEN "run" ELSE "signals")
  /\ handlers' = handlers \cup {NextSignal}
  /\ UNCHANGED <<parts, setup, log, pools, cw_cycle>>

\* Fault: the signal is left to its default action.
SigactionFails_ignored ==
  /\ Failures
  /\ Goes("signals", "run")
  /\ UNCHANGED <<parts, setup, log, pools, cw_cycle, handlers>>

\* Fault: sigaction is called for all signals again.
SigactionFails_retry ==
  /\ Failures
  /\ Goes("signals", "signals")
  /\ handlers' = {}
  /\ UNCHANGED <<parts, setup, log, pools, cw_cycle>>

SigactionFails == Fails("signals", {})

MasterProcessCycle ==
  /\ Goes("run", "run")
  /\ Proc!MasterStep
  /\ UNCHANGED <<parser, cw_ncpu, listening, setup, log, pools, cw_cycle, handlers>>

Worker(w) ==
  /\ Proc!WorkerStep(w)
  /\ UNCHANGED <<parser, cw_ncpu, listening, setup, at, log, pools, cw_cycle, handlers>>

\* The handlers are the same in all processes: they are there before fork.
Handled(p) ==
  /\ \/ "SIGQUIT" \in handlers /\ Proc!Sigquit(p)
     \/ "SIGTERM" \in handlers /\ Proc!Sigterm(p)
  /\ UNCHANGED <<parser, cw_ncpu, listening, setup, at, log, pools, cw_cycle, handlers>>

\* Until its handler is there, a signal ends the process.
Killed ==
  /\ Running /\ handlers # Signals
  /\ sent < MaxSignals /\ sent' = sent + 1
  /\ Dies("crashed")
  /\ UNCHANGED <<setup, at, log, pools, cw_cycle, handlers>>

----------------------------------------------------------------------------
Init ==
  /\ Conf!Fresh /\ cw_ncpu = 0
  /\ Sock!Init
  /\ Proc!Init
  /\ at = "log" /\ log = "closed" /\ pools = {} /\ cw_cycle = "NULL"
  /\ path = <<>> /\ name = <<>>
  /\ index = [m \in 1 .. Len(Modules) |-> -1]
  /\ conf_ctx = <<>> /\ modules = <<>> /\ k = 0
  /\ handlers = {}

MainStep ==
  \/ LogInit \/ LogFails \/ CreateInitPool \/ CreateInitPoolFails \/ ProcessOptions
  \/ OsSpecificInit \/ OsInit \/ PreinitModules
  \/ CreateCyclePool \/ CreateCyclePoolFails \/ AllocCycle \/ AllocCycleFails
  \/ CycleModules \/ CycleModulesFails
  \/ CreateConf \/ CreateConfFails \/ CreateConfDone \/ PrepareConf \/ PrepareConfFails
  \/ Parse \/ ParseAccepted \/ ParseRejected
  \/ OpenSockets \/ SocketsOpened \/ SocketsFail
  \/ InitSignal \/ SigactionFails
  \/ MasterProcessCycle

Next ==
  \/ MainStep
  \/ \E w \in Proc!Workers : Worker(w)
  \/ \E p \in Proc!Procs : Handled(p)
  \/ Killed

Spec == Init /\ [][Next]_vars

\* The kernel lets a process run that can run.
FairSpec == Spec /\ WF_vars(MainStep)

----------------------------------------------------------------------------
(***************************************************************************)
(* Properties.                                                             *)
(***************************************************************************)

\* No process is forked into a server that is not complete: by then the
\* configuration was accepted, every entry of cycle->listening has an open
\* socket that can be used, except those to be ignored and those whose address
\* is in use, every signal has its handler and nothing that a worker inherits
\* was given back.
WorkersReady ==
  forks > 0 =>
    /\ stage = "done" /\ rv = "ok"
    /\ \A n \in 1 .. Len(ls) : ls[n].ignore \/ n \in in_use \/ ls[n].fd \in DOMAIN sock
    /\ Sock!Ready
    /\ handlers = Signals
    /\ log = "open" /\ cw_cycle = "cycle" /\ "cycle" \in pools

\* Whatever is still running runs on memory that is there: the parser on both
\* pools, the sockets, the handlers and the workers on the cycle, which
\* cw_signal_handler reaches through cw_cycle at any moment.
MemoryAlive ==
  /\ stack # <<>> => {"cycle", "temp"} \subseteq pools
  /\ Running /\ at \in {"sockets", "signals", "run"} => "cycle" \in pools
  /\ Running /\ handlers # {} => cw_cycle # "NULL" /\ log = "open"
  /\ Running /\ cw_cycle = "cycle" => "cycle" \in pools

\* When the parser runs, every module that has a configuration created it, in
\* the slot where cw_conf_handler looks for it: no setter is called with NULL.
ContextsSet ==
  at = "parse" =>
    \A m \in 1 .. Len(Modules) : Creates(m) => conf_ctx[index[m] + 1] = "conf"

\* A configuration that is rejected, in the parameter or in whichever file and
\* block, leaves neither a file nor a buffer nor a pool behind.
ReleasedOnReject ==
  at = "returned" /\ rv = "error" => pools = {"init"} /\ files = {} /\ buffers = {}

\* While the file is parsed and once the server has its configuration, the
\* number of workers is what the one directive says: whatever sysctlbyname and
\* sysconf say of the processors, "auto" is a number of workers, which is not
\* taken for a setting that was not made.
SettingTrue == at \in {"parse", "sockets", "signals", "run"} => Conf!Configured

\* The file that is opened is the file that was named, and its name ends.
NameKept == at = "parse" => name = Append(path, NUL)

\* A process that forks workers stays with them: neither of the signals that it
\* handles kills the master and no failure makes it return once there is a
\* worker.
NoOrphans == ~Running => forks = 0

----------------------------------------------------------------------------
(***************************************************************************)
(* The inductive invariant behind these properties: what there is when     *)
(* main is about to make a call.                                           *)
(***************************************************************************)
Serving == {"signals", "run"}
Parsed  == {"sockets"} \cup Serving
Cycling == {"cycle_modules", "create_conf", "conf"}
Named   == Cycling \cup {"parse"} \cup Parsed
Counted == {"modules", "cycle_pool", "cycle"} \cup Named
Booting == {"log", "init_pool", "options", "os_specific", "os",
            "modules", "cycle_pool", "cycle"} \cup Cycling

\* There is one process until main calls cw_master_process_cycle, which does
\* not return and which no signal ends.
Alone ==
  /\ at \in Booting \cup Named \cup {"returned"}
  /\ DOMAIN pc = Proc!Procs
  /\ at = "returned" => ~Running
  /\ at = "run" => Running /\ handlers = Signals
  /\ at # "run" => forks = 0
  /\ handlers # {} => at \in Serving \cup {"returned"}

Equipped ==
  /\ at \notin {"log", "returned"} => log = "open" /\ cw_cycle # "NULL"
  /\ at \in Serving => cw_cycle = "cycle" /\ sockets_rc = "CW_OK"
  /\ cw_cycle = "cycle" => at \in Serving \cup {"returned"}

\* The pools that there are.
Owned ==
  /\ at \in {"options", "os_specific", "os", "modules", "cycle_pool"} => pools = {"init"}
  /\ at \in {"cycle"} \cup Cycling => pools = {"init", "cycle"}
  /\ at \in {"parse"} \cup Parsed => pools = {"init", "cycle", "temp"}

\* Nothing is parsed before its time and the parser has returned after it.
Parsing ==
  /\ at \in Booting => Conf!Fresh
  /\ at = "parse" => Conf!IndInv
  /\ at \in Parsed => stage = "done" /\ rv = "ok"
  /\ at # "parse" => stack = <<>>
  /\ ReleasedOnReject /\ SettingTrue

NameCopied ==
  /\ at \in {"os_specific", "os"} \cup Counted => path \in Paths
  /\ at \in Named => name = Append(path, NUL)

\* The modules before the one at hand have their configuration.
ModulesCounted ==
  /\ at \in {"cycle_pool", "cycle"} \cup Named => index = [m \in 1 .. Len(Modules) |-> m - 1]
  /\ at \in Named => conf_ctx \in [1 .. cw_max_module -> {"NULL", "conf"}]
  /\ at \in Named \ {"cycle_modules"} =>
       /\ modules = [m \in 1 .. cw_max_module + 1 |-> IF m <= Len(Modules) THEN m ELSE 0]
       /\ k \in 1 .. Len(Modules) + 1
       /\ \A m \in 1 .. k - 1 : Creates(m) => conf_ctx[m] = "conf"
  /\ at \in {"conf", "parse"} => k = Len(Modules) + 1

\* cw_os_init has found at least one processor.
NcpuCounted ==
  /\ cw_ncpu \in Int /\ cw_ncpu <= CW_MAX_INT_T_VALUE
  /\ at \in Counted => cw_ncpu >= 1

IndInv ==
  Alone /\ Equipped /\ Owned /\ Parsing /\ NameCopied /\ ModulesCounted /\ NcpuCounted

\* Whatever fails, the program comes to an end or to its signal loop.
Boots == <>(pc[Master] \in {"suspended", "exited", "crashed"})

=============================================================================
