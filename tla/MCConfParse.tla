---------------------------- MODULE MCConfParse ----------------------------
(***************************************************************************)
(* Commands and configuration files for TLC.                               *)
(***************************************************************************)
EXTENDS ConfParse

Command(name, module, where, block, kind, takes, set, inside) ==
  [name |-> name, module_type |-> module, where |-> where, block |-> block,
   kind |-> kind, takes |-> takes, set |-> set, inside |-> inside]

Events == [module_type |-> "EVNT", cmd_type |-> "EVENT", handler |-> FALSE]
Types  == [module_type |-> "CORE", cmd_type |-> "NONE", handler |-> TRUE]

\* cw_core_commands, the commands of the program.
Core == <<Command("worker_processes", "CORE", {"MAIN"}, FALSE, "takes", {1},
                  "worker_processes", Main)>>

\* And with cw_http_commands.
WithHttp == Core \o <<Command("http", "CORE", {"MAIN"}, TRUE, "takes", {0}, "http", Main)>>

\* With a block, one with a handler, and a directive that includes a file: one
\* that may stand anywhere, after one of the same name that may not stand in a
\* block.
More == WithHttp \o
  <<Command("events", "CORE", {"MAIN"}, TRUE, "takes", {0}, "block", Events),
    Command("types", "CORE", {"MAIN"}, TRUE, "takes", {0}, "block", Types),
    Command("include", "CORE", {"MAIN"}, FALSE, "flag", {}, "include", Main),
    Command("include", "CONF", {"MAIN", "EVENT"}, FALSE, "1more", {}, "include", Main)>>

Token(rc, name, nelts, value) == [rc |-> rc, name |-> name, nelts |-> nelts, value |-> value]

Line(name, nelts)    == Token("ok", name, nelts, <<-1>>)
Workers(digits)      == Token("ok", "worker_processes", 2, digits)
Block(name, nelts)   == Token("block", name, nelts, <<>>)
Close                == Token("block_done", "", 0, <<>>)

Tokens == {Workers(<<0, 4, 7>>), Workers(<<4, 8>>), Workers(auto), Workers(<<2, -1>>),
           Block("events", 1), Block("types", 1), Block("http", 1), Close,
           Line("include", 2), Line("include", 3)}

UpTo(n) == UNION {[1 .. k -> Tokens] : k \in 0 .. n}

ManyFiles  == UpTo(2) \cup {<<Block("events", 1), Line("include", 3), Close>>,
                            <<Line("include", 2), Block("events", 1), Close>>,
                            <<Block("types", 1), Line("any", 2), Close>>}
SomeParams == {<<>>, <<Workers(<<4, 7>>)>>, <<Workers(<<>>)>>, <<Workers(<<-1, -1, -1, -1>>)>>,
               <<Block("events", 1)>>,
               <<Block("worker_processes", 2)>>, <<Line("worker_processes", 3)>>}

\* sysconf fails, or finds four processors.
Processors == {-1, 4}

=============================================================================
