----------------------------- MODULE MCStartup -----------------------------
(***************************************************************************)
(* The program for TLC.                                                    *)
(***************************************************************************)
EXTENDS Startup

MainContext == [module_type |-> "CORE", cmd_type |-> "MAIN", handler |-> FALSE]

\* cw_core_commands.
CoreCommands ==
  <<[name |-> "worker_processes", module_type |-> "CORE", where |-> {"MAIN"}, block |-> FALSE,
     kind |-> "takes", takes |-> {1}, set |-> "worker_processes", inside |-> MainContext]>>

Workers(value) == [rc |-> "ok", name |-> "worker_processes", nelts |-> 2, value |-> value]

\* The word that Conf!auto is.
Auto == <<-2, -3, -4, -5>>

\* worker_processes with a number, with "auto", twice; an empty file.
SomeFiles == {<<>>, <<Workers(<<1>>)>>, <<Workers(Auto)>>,
              <<Workers(<<2>>), Workers(<<1>>)>>}

ASSUME AutoAssumption == Auto = Conf!auto

\* The program has no option for a parameter.
NoParam == {<<>>}

\* sysconf fails, or finds four processors.
Processors == {-1, 4}

Entry(type) == [type |-> type, ignore |-> FALSE, fd |-> -1, listen |-> FALSE]

\* No socket, or two of both types.
SomeEntries == {<<>>, <<Entry("stream"), Entry("dgram")>>}

\* What cw_master_process_cycle starts.
TwoWorkers == <<-3, -3>>

\* The module of the build, the http module, which is not in it, and another
\* one that creates a configuration.
Module(create_conf) == [type |-> "CORE", create_conf |-> create_conf]
AllModules == <<Module(TRUE), Module(FALSE), Module(TRUE)>>

\* CW_CONF_PATH is one constant of the build; its length is what matters.
OnePath == {<<"c", "w">>}

=============================================================================
