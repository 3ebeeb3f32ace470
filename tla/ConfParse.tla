----------------------------- MODULE ConfParse -----------------------------
(***************************************************************************)
(* cw_conf_param, cw_conf_parse and cw_conf_handler of                     *)
(* src/core/cw_conf_file.c, called by cw_init_cycle, and the setters of    *)
(* the directives there are: cw_set_worker_processes of src/core/cw.c and  *)
(* cw_http_block of src/http/cw_http.c, which the build leaves out.        *)
(*                                                                         *)
(* The input is what cw_conf_read_token returns (module ConfToken): a      *)
(* token has the return code, the number of words, the first word and the  *)
(* second one.  cw_conf_parse calls itself through the setters of block    *)
(* directives, which go on with the same file and may set a handler of     *)
(* their own for what is in the block, and of directives that include      *)
(* another file; the repository has neither, so these setters and handlers *)
(* are external.  stack holds the calls that have not returned.            *)
(***************************************************************************)
EXTENDS Integers, Sequences, SequencesExt, FiniteSetsExt

CONSTANTS
  Commands,             \* the commands of all modules, in the order they are searched
  Params,               \* what the parameter of -g may consist of
  Files,                \* what a file may consist of
  CW_MAX_INT_T_VALUE,
  Online,               \* what sysconf may say of the number of processors
  Failures,             \* whether calls to the system may fail
  MaxOpen               \* bound: a directive does not include a file beyond this

CW_CONF_UNSET    == -1
CW_ERROR         == -1
CW_CONF_MAX_ARGS == 8

\* The main context, which cw_init_cycle begins with.
Main == [module_type |-> "CORE", cmd_type |-> "MAIN", handler |-> FALSE]

\* A command is one for a block when its setter is cw_http_block or one that
\* parses the block, and commands of one name that are for blocks have the same
\* setter.  cw_set_worker_processes is the setter of the one directive that is
\* called so.
ASSUME ConfParseAssumption ==
  /\ \A k \in 1 .. Len(Commands) :
       /\ Commands[k].set \in {"worker_processes", "http", "block", "include"}
       /\ Commands[k].block = (Commands[k].set \in {"http", "block"})
       /\ Commands[k].block =>
            \A j \in 1 .. Len(Commands) :
              Commands[j].name = Commands[k].name => Commands[j].set = Commands[k].set
       /\ Commands[k].set = "worker_processes" <=> Commands[k].name = "worker_processes"
  /\ Len(Commands) \in Nat
  /\ \A f \in Params \cup Files :
       f \in Seq(Range(f)) /\ \A x \in Range(f) : x.value \in Seq(Int)
  /\ CW_MAX_INT_T_VALUE \in Nat \ {0}
  /\ \A n \in Online : n \in Int /\ n <= CW_MAX_INT_T_VALUE
  /\ Failures \in BOOLEAN
  /\ MaxOpen \in Nat

VARIABLES
  stage,               \* what cw_init_cycle does: "param", "file" or "done"
  stack,               \* the running calls of cw_conf_parse
  rv,                  \* "parsing", or what the last call is about to return
  conf_file,           \* cf->conf_file: the place in confs, 0 if NULL
  confs,               \* the conf_file structures: the tokens that are unread, and
                       \* those seen except what a handler took
  fds, buffers,        \* the files that are open and the buffers allocated
  ctx,                 \* cf->module_type, cf->cmd_type and whether cf->handler is set
  cw_ncpu,
  worker_processes,    \* of the core module's configuration
  http                 \* whether the http module has a configuration

settings == <<cw_ncpu, worker_processes, http>>
vars     == <<stage, stack, rv, conf_file, confs, fds, buffers, ctx, settings>>

----------------------------------------------------------------------------
(***************************************************************************)
(* cw_set_worker_processes.                                                *)
(***************************************************************************)

\* Fault: the limit itself is refused, and ten more than it are not.
Accumulate_off(value, d) ==
  IF value = CW_ERROR \/ d \notin 0 .. 9 \/ value > CW_MAX_INT_T_VALUE \div 10
    THEN CW_ERROR
    ELSE 10 * value + d

\* One turn of the loop of cw_atoi; a character that is no digit is negative.
Accumulate(value, d) ==
  LET cutoff == CW_MAX_INT_T_VALUE \div 10
      cutlim == CW_MAX_INT_T_VALUE % 10
  IN  IF \/ value = CW_ERROR
         \/ d \notin 0 .. 9
         \/ value >= cutoff /\ (value > cutoff \/ d > cutlim)
        THEN CW_ERROR
        ELSE 10 * value + d

cw_atoi(line) ==
  LET value[n \in 0 .. Len(line)] == IF n = 0 THEN 0 ELSE Accumulate(value[n - 1], line[n])
  IN  IF line = <<>> THEN CW_ERROR ELSE value[Len(line)]

\* The word "auto": four letters, -1 being any other character.
auto == <<-2, -3, -4, -5>>

cw_set_worker_processes(value) ==
  LET n == IF value = auto THEN cw_ncpu ELSE cw_atoi(value)
  IN  IF worker_processes # CW_CONF_UNSET
        THEN [rv |-> "error", n |-> worker_processes]
        ELSE [rv |-> IF value # auto /\ n = CW_ERROR THEN "error" ELSE "ok", n |-> n]

----------------------------------------------------------------------------
(***************************************************************************)
(* cw_conf_handler.                                                        *)
(***************************************************************************)

\* The commands that have the directive's name and may stand here.
Candidates(t) ==
  {k \in 1 .. Len(Commands) :
     /\ Commands[k].name = t.name
     /\ Commands[k].module_type \in {"CONF", ctx.module_type}
     /\ ctx.cmd_type \in Commands[k].where}

\* A block directive ends with "{", any other with ";".
Terminated(cmd, t) == cmd.block = (t.rc = "block")

\* The number of words, which includes the name, is one that the command takes.
Counted(cmd, nelts) ==
  CASE cmd.kind = "any"   -> TRUE
    [] cmd.kind = "flag"  -> nelts = 2
    [] cmd.kind = "1more" -> nelts >= 2
    [] cmd.kind = "2more" -> nelts >= 3
    [] cmd.kind = "takes" -> nelts <= CW_CONF_MAX_ARGS /\ nelts - 1 \in cmd.takes

\* The command that is run for t, if it is run at all.
Chosen(t)   == Commands[Min(Candidates(t))]
Accepted(t) ==
  /\ Candidates(t) # {}
  /\ Terminated(Chosen(t), t)
  /\ Counted(Chosen(t), t.nelts)

----------------------------------------------------------------------------
(***************************************************************************)
(* cw_conf_parse: its calls and what it does with a token.                 *)
(***************************************************************************)
Top     == stack[Len(stack)]
Parsing == stack # <<>> /\ rv = "parsing"

\* A call remembers cf->conf_file, and its caller the context.
Call(type) == stack' = Append(stack, [type |-> type, prev |-> conf_file, ctx |-> ctx])

\* The next token; the file is done when there is none.
Reading == Parsing /\ confs[conf_file].unread # <<>>
t       == Head(confs[conf_file].unread)
Taken   == [confs EXCEPT ![conf_file] = [seen |-> Append(@.seen, t), unread |-> Tail(@.unread)]]
Skipped == [confs EXCEPT ![conf_file].unread = Tail(@)]

Ends(how) ==
  /\ rv' = how
  /\ UNCHANGED <<stage, stack, conf_file, fds, buffers, ctx, settings>>

\* cw_conf_read_token returns CW_ERROR.
TokenError ==
  /\ Failures
  /\ Parsing
  /\ UNCHANGED confs
  /\ Ends("error")

BlockDone ==
  /\ Reading
  /\ t.rc = "block_done"
  /\ confs' = Taken
  /\ Ends(IF Top.type = "block" THEN "ok" ELSE "error")

\* Fault: the end of the file ends a block.
FileDone_lax ==
  /\ Parsing
  /\ confs[conf_file].unread = <<>>
  /\ UNCHANGED confs
  /\ Ends("ok")

FileDone ==
  /\ Parsing
  /\ confs[conf_file].unread = <<>>
  /\ UNCHANGED confs
  /\ Ends(IF Top.type = "block" THEN "error" ELSE "ok")

\* A directive is refused by cw_conf_parse, as a block in a parameter or where
\* a handler takes the directives, or by cw_conf_handler.
Directive == Reading /\ t.rc \in {"ok", "block"}
Refused   ==
  \/ t.rc = "block" /\ (Top.type = "param" \/ ctx.handler)
  \/ ~ctx.handler /\ ~Accepted(t)

Refuse ==
  /\ Directive
  /\ Refused
  /\ confs' = Taken
  /\ Ends("error")

\* The handler takes the directive, or does not like it.
RunHandler ==
  /\ Directive
  /\ ~Refused /\ ctx.handler
  /\ confs' = Skipped
  /\ \E ok \in {TRUE, ~Failures} : rv' = IF ok THEN rv ELSE "error"
  /\ UNCHANGED <<stage, stack, conf_file, fds, buffers, ctx, settings>>

Runs(set) == Directive /\ ~Refused /\ ~ctx.handler /\ Chosen(t).set = set

RunWorkerProcesses ==
  /\ Runs("worker_processes")
  /\ confs' = Taken
  /\ LET r == cw_set_worker_processes(t.value)
     IN  /\ worker_processes' = r.n
         /\ rv' = IF r.rv = "error" THEN "error" ELSE rv
  /\ UNCHANGED <<stage, stack, conf_file, fds, buffers, ctx, cw_ncpu, http>>

\* cw_http_block, which does not parse the block.
RunHttp ==
  /\ Runs("http")
  /\ confs' = Taken
  /\ \E ok \in {TRUE, ~Failures} :
       /\ http' = (http \/ ok)
       /\ rv' = IF http \/ ~ok THEN "error" ELSE rv
  /\ UNCHANGED <<stage, stack, conf_file, fds, buffers, ctx, cw_ncpu, worker_processes>>

\* A block directive calls cw_conf_parse(cf, NULL) in a context of its own.
RunBlock ==
  /\ Runs("block")
  /\ confs' = Taken
  /\ Call("block")
  /\ ctx' = Chosen(t).inside
  /\ UNCHANGED <<stage, rv, conf_file, fds, buffers, settings>>

\* The file is opened, then the buffer allocated.  cs: the conf_file
\* structures there are already.
OpenFile(cs) ==
  LET n == Len(cs) + 1
  IN  \E f \in Files, ok \in {TRUE, ~Failures} :
        /\ Call("file")
        /\ confs' = Append(cs, [seen |-> <<>>, unread |-> f])
        /\ conf_file' = n
        /\ fds' = fds \cup {n}
        /\ buffers' = IF ok THEN buffers \cup {n} ELSE buffers
        /\ rv' = IF ok THEN "parsing" ELSE "error"

OpenFails(cs) ==
  /\ Failures
  /\ confs' = cs
  /\ rv' = "error"
  /\ UNCHANGED <<stack, conf_file, fds, buffers>>

\* A directive that calls cw_conf_parse with the name of another file.
RunInclude ==
  /\ Runs("include")
  /\ Cardinality(fds) < MaxOpen
  /\ OpenFile(Taken) \/ OpenFails(Taken)
  /\ UNCHANGED <<stage, ctx, settings>>

\* Fault: a file is closed only when it was parsed to its end.
Released_late(set) == IF Top.type = "file" /\ rv = "ok" THEN set \ {conf_file} ELSE set

\* done: the file and the buffer of a call with a file name are given back.
Released(set) == IF Top.type = "file" THEN set \ {conf_file} ELSE set

\* The call returns to the setter that made it, which puts its caller's
\* context back; an error is returned by that caller too.  cw_conf_param sets
\* cf->conf_file to NULL.
Return ==
  /\ stack # <<>>
  /\ rv \in {"ok", "error"}
  /\ fds' = Released(fds)
  /\ buffers' = Released(buffers)
  /\ conf_file' = CASE Top.type = "file"  -> Top.prev
                    [] Top.type = "param" -> 0
                    [] Top.type = "block" -> conf_file
  /\ ctx' = Top.ctx
  /\ stack' = Front(stack)
  /\ \E closed \in {TRUE, ~(Failures /\ Top.type = "file")} :
       rv' = IF rv = "ok" /\ closed THEN (IF Len(stack) > 1 THEN "parsing" ELSE "ok")
                                    ELSE "error"
  /\ UNCHANGED <<stage, confs, settings>>

----------------------------------------------------------------------------
(***************************************************************************)
(* cw_init_cycle: first the parameter, then the file.                      *)
(***************************************************************************)

\* cw_conf_param does nothing without a parameter.
ParseParam ==
  /\ stage = "param" /\ rv = "none"
  /\ \E p \in Params :
       IF p = <<>>
         THEN rv' = "ok" /\ UNCHANGED <<stack, conf_file, confs>>
         ELSE /\ Call("param")
              /\ confs' = <<[seen |-> <<>>, unread |-> p]>>
              /\ conf_file' = 1
              /\ rv' = "parsing"
  /\ UNCHANGED <<stage, fds, buffers, ctx, settings>>

ParseFile ==
  /\ stage = "param" /\ rv = "ok" /\ stack = <<>>
  /\ stage' = "file"
  /\ OpenFile(confs) \/ OpenFails(confs)
  /\ UNCHANGED <<ctx, settings>>

Done ==
  /\ stack = <<>>
  /\ rv = "error" \/ (stage = "file" /\ rv = "ok")
  /\ stage # "done"
  /\ stage' = "done"
  /\ UNCHANGED <<stack, rv, conf_file, confs, fds, buffers, ctx, settings>>

\* cw_os_init: at least one processor.
cw_os_init(n) == IF n < 1 THEN 1 ELSE n

\* Before anything was parsed.
Fresh ==
  /\ stage = "param" /\ stack = <<>> /\ rv = "none"
  /\ conf_file = 0 /\ confs = <<>> /\ fds = {} /\ buffers = {}
  /\ ctx = Main
  /\ worker_processes = CW_CONF_UNSET /\ http = FALSE

Init == Fresh /\ \E n \in Online : cw_ncpu = cw_os_init(n)

Next ==
  \/ ParseParam \/ ParseFile \/ Done
  \/ TokenError \/ BlockDone \/ FileDone \/ Refuse
  \/ RunHandler \/ RunWorkerProcesses \/ RunHttp \/ RunBlock \/ RunInclude
  \/ Return

Spec == Init /\ [][Next]_vars

----------------------------------------------------------------------------
(***************************************************************************)
(* Properties.                                                             *)
(***************************************************************************)

\* The calls that opened a file.
FileCalls == {k \in 1 .. Len(stack) : stack[k].type = "file"}

\* Whatever fails and however the calls are nested, the files that are open
\* are those of the calls that have not returned, each is read through a
\* buffer of its own, and cf->conf_file is the innermost of them: never the
\* structure of a call that has returned.
FilesClosed ==
  /\ Cardinality(fds) = Cardinality(FileCalls)
  /\ buffers \subseteq fds
  /\ FileCalls # {} => /\ conf_file = Max(fds)
                       /\ rv = "parsing" => buffers = fds
  /\ stack = <<>> => conf_file = 0

\* How many "{" and "}" of file n were seen.
Opened(n) == Cardinality({k \in 1 .. Len(confs[n].seen) : confs[n].seen[k].rc = "block"})
Closed(n) == Cardinality({k \in 1 .. Len(confs[n].seen) : confs[n].seen[k].rc = "block_done"})

\* The calls that parse a block of file n and have not come to its end.
OpenBlocks(n) ==
  {k \in 1 .. Len(stack) : /\ stack[k].type = "block" /\ stack[k].prev = n
                           /\ rv = "ok" => k # Len(stack)}

\* Where in file n a block was opened that its setter leaves: cw_http_block
\* returns without a call of cw_conf_parse.
LeavesBlock(x) ==
  x.rc = "block" /\ \E k \in 1 .. Len(Commands) :
    Commands[k].name = x.name /\ Commands[k].set = "http"
Left(n) == {k \in 1 .. Len(confs[n].seen) : LeavesBlock(confs[n].seen[k])}

\* Every "{" of a file that was seen has been closed by a "}" of the same file
\* or belongs to a block that is being parsed, except the one of http, of which
\* there is at most one in all files: so a file is accepted only when every
\* other "{" in it has its "}", no "}" of an included file closes a block of
\* another, and "http {" is accepted without a "}" of its own.
BracesMatch ==
  rv \in {"parsing", "ok"} =>
    /\ \A n \in 1 .. Len(confs) :
         Opened(n) = Closed(n) + Cardinality(OpenBlocks(n)) + Cardinality(Left(n))
    /\ \A m, n \in 1 .. Len(confs) : \A j \in Left(m), k \in Left(n) : m = n /\ j = k

(***************************************************************************)
(* What the two need to be inductive.                                      *)
(***************************************************************************)
Inputs   == UNION {Range(f) : f \in Params \cup Files}
Contexts == {Main} \cup {Commands[k].inside : k \in 1 .. Len(Commands)}

Frame    == [type : {"param", "file", "block"}, prev : Nat, ctx : Contexts]
ConfFile == [seen : Seq(Inputs), unread : Seq(Inputs)]

Typed ==
  /\ stage \in {"param", "file", "done"}
  /\ stack \in Seq(Frame)
  /\ rv \in {"none", "parsing", "ok", "error"}
  /\ conf_file \in Nat
  /\ confs \in Seq(ConfFile)
  /\ ctx \in Contexts

\* What cf->conf_file is while the k-th call is the innermost one.
Level(k) == IF k = Len(stack) THEN conf_file ELSE stack[k + 1].prev

\* A call with a file name goes on with a file of its own, a later one than
\* those of its callers, a block with the file it is in.
Chained ==
  /\ Level(0) = 0
  /\ \A k \in 1 .. Len(stack) :
       /\ Level(k) \in 1 .. Len(confs)
       /\ stack[k].type = "param" => k = 1
       /\ stack[k].type = "block" => Level(k) = Level(k - 1)
  /\ \A j, k \in 0 .. Len(stack) :
       j < k => Level(j) <= Level(k) /\ (k \in FileCalls => Level(j) < Level(k))
  /\ \A k \in 1 .. Len(stack) :
       (\E j \in FileCalls : j <= k) => \E j \in FileCalls : j <= k /\ Level(j) = Level(k)

\* The files that are open are those of the calls.
Held ==
  /\ fds = {Level(k) : k \in FileCalls}
  /\ Cardinality(fds) = Cardinality(FileCalls)
  /\ buffers \subseteq fds
  /\ rv # "error" => buffers = fds

Begun ==
  /\ rv = "none" => stack = <<>> /\ confs = <<>> /\ stage = "param"
  /\ stage = "done" => stack = <<>>
  /\ rv = "parsing" => stack # <<>>

\* How many blocks of file n were opened for their setter to parse.
ParsesBlock(x) ==
  x.rc = "block" /\ \E k \in 1 .. Len(Commands) :
    Commands[k].name = x.name /\ Commands[k].set = "block"
Parsed(n) == Cardinality({k \in 1 .. Len(confs[n].seen) : ParsesBlock(confs[n].seen[k])})

\* Those that were not closed again are the ones that are being parsed.
Paired ==
  rv \in {"parsing", "ok"} =>
    \A n \in 1 .. Len(confs) : Cardinality(OpenBlocks(n)) = Parsed(n) - Closed(n)

IndInv == Typed /\ Chained /\ Held /\ Begun /\ Paired

\* A block that was opened is one that is parsed or the one that is left, and
\* after that one the http module has its configuration.
LeftOnce ==
  rv # "error" =>
    /\ \A n \in 1 .. Len(confs) : \A k \in 1 .. Len(confs[n].seen) :
         confs[n].seen[k].rc = "block" =>
           ParsesBlock(confs[n].seen[k]) \/ LeavesBlock(confs[n].seen[k])
    /\ \A m, n \in 1 .. Len(confs) : \A j \in Left(m), k \in Left(n) : m = n /\ j = k
    /\ \A n \in 1 .. Len(confs) : Left(n) # {} => http

\* The number that a word of decimal digits stands for.
Decimal(word) ==
  LET value[n \in 0 .. Len(word)] == IF n = 0 THEN 0 ELSE 10 * value[n - 1] + word[n]
  IN  value[Len(word)]

\* Where in file n directives worker_processes were read.
Given(n) == {k \in 1 .. Len(confs[n].seen) :
               /\ confs[n].seen[k].rc # "block_done"
               /\ confs[n].seen[k].name = "worker_processes"}

\* What such a directive says is the setting.
Obeyed(word) ==
  /\ worker_processes \in 0 .. CW_MAX_INT_T_VALUE
  /\ worker_processes = IF word = auto THEN cw_ncpu ELSE Decimal(word)
  /\ word # auto => word # <<>> /\ Range(word) \subseteq 0 .. 9

\* As long as there is no error the setting is what the one directive says
\* that there was so far, in whichever file and block: a second one is an
\* error and so is a number that is none or is too large, and a setting never
\* looks as if it had not been made.
Configured ==
  rv # "error" =>
    /\ \A m, n \in 1 .. Len(confs) : \A j \in Given(m), k \in Given(n) : m = n /\ j = k
    /\ (\A n \in 1 .. Len(confs) : Given(n) = {}) => worker_processes = CW_CONF_UNSET
    /\ \A n \in 1 .. Len(confs) : \A k \in Given(n) : Obeyed(confs[n].seen[k].value)

\* What that needs besides: "auto" is a number of workers.
SomeProcessor == cw_ncpu \in 1 .. CW_MAX_INT_T_VALUE

=============================================================================
