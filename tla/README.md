# api-capwap: specification and verification

TLA+ models of the server skeleton in `src/` (a master process with workers, in
the manner of nginx), the TLC configurations that check them on small instances,
and TLAPS proofs of every invariant that they check. Paths below are relative to the
repository's `src/` directory of C sources unless they say otherwise.

## The system

`main` (core/cw.c) creates a pool, asks the system for the number of processors,
numbers the modules, and calls `cw_init_cycle` (core/cw_cycle.c), which creates
the cycle's pool, lets every core module create its configuration, parses the
`-g` parameter and the configuration file, and opens the listening sockets. Then
`main` installs the signal handlers and enters `cw_master_process_cycle`, which
forks two workers and loops around `sigsuspend`. Only the core module is
compiled in: `auto/sources` leaves the http and epoll modules out.

| part | state it keeps | operations | interacts with | what makes it correct |
|---|---|---|---|---|
| memory pool (core/cw_palloc.c) | chain of blocks with bump pointers and failure counts, list of large chunks | create, palloc / pnalloc / pcalloc, destroy | malloc; every other part allocates from it | no byte handed out twice, nothing outside a block, all memory freed, short searches |
| array (core/cw_array.c) | header, elements, `nelts`, `nalloc` | create, init, push, push_n, destroy | reads and moves the pool's bump pointer | its elements fit memory it alone holds |
| process table (os/unix/cw_process.c) | `cw_processes`, `cw_last_process`, `cw_process_slot`, `cw_channel` | spawn, signal handler | kernel; children inherit the state of the moment of fork | descriptors accounted for on every failure, children and table agree |
| master and worker cycles (os/unix/cw_process_cycle.c, event/cw_event.c) | `cw_terminate`, `cw_quit` | start workers, signal loop, worker loop | signals at any moment; event module through `cw_event_actions` | start-up completes, requests to stop are noticed and obeyed |
| tokenizer (core/cw_conf_file.c) | buffer window, flags, line, words | `cw_conf_read_token` | file, pool, array | what is returned is what was written, whatever the buffer's size; ends |
| parser (core/cw_conf_file.c, core/cw.c) | stack of calls, `cf->conf_file`, context, settings | `cw_conf_param`, `cw_conf_parse`, `cw_conf_handler`, setters | tokenizer, modules' commands, recursion through setters | files closed, braces matched, settings as written |
| listening sockets (core/cw_connection.c) | `fd` and `listen` of each entry | `cw_open_listening_sockets` | kernel | no socket lost, none forgotten |
| start-up (core/cw.c, core/cw_cycle.c, core/cw_module.c, os/unix/cw_posix_init.c) | cycle, pools, handlers | `main`, `cw_init_cycle`, `cw_init_signals` | all of the above, signals | workers forked only by a complete server, on live memory; pools released on failure; it ends |
| code generator (script/interface.js) | `context.type`, `context.last` | `parseLine` for each line of head.h | writes C that the capwap programs build | what it writes compiles and has every member |

What is hard: failure of any single call in a series of them (pool, spawning,
sockets, parser); the child running from fork next to the master; signals
between any two steps, none of which is ever blocked; a buffer that ends in the
middle of a word; arrays that move the pool's bump pointer back; sizes at the
edge of a block or of an integer. `PROJECT.json` lists each hazard at its line.

## Modules

| module | models | state and actions |
|---|---|---|
| `Pool` | core/cw_palloc.c, core/cw_array.c | The pool is a record with the bump pointer (`last`) and failure count (`failed`) of each block of the chain, `current`, and the list nodes `large`. Operators carry the names of the functions and return the new pool and the memory handed out; the actions are the calls that other code makes. `held` (pieces in use) and `heap` (chunks malloc has outstanding) are not program state; the properties are about them. |
| `Allocator` | what the pool promises | Memory is a set of extents, each of one owner or shared; `Allocate`, `Serve` (an owner's memory is changed: it grows, moves or is given back) and `Destroy`. Extents in use are apart before and after each step. |
| `Process` | os/unix/cw_process.c, cw_process_cycle.c, cw_channel.c, event/cw_event.c | `pc` says where each process is; `table`, `last` are the master's `cw_processes`, `cw_last_process`; `slot`, `channel`, `fds`, `terminate`, `quit` are per process, copied by `Fork`. `cw_spawn_process` is the actions from `SpawnStart` to `Record`, one for each way it can go. `Sigterm` and `Sigquit` run the handler at any moment. |
| `Token` | `cw_conf_read_token`, what it does with a character | One operator for each branch of its loop. Characters are classes of characters. `mode` stands for the flags `last_space`, `need_space`, `d_quoted`, `s_quoted`, of which at most one is set. |
| `ConfToken` | `cw_conf_read_token`, its buffer | `buf` is the part of the buffer up to `b->last`, `pos` and `start` the pointers into it; actions take a character, refill the buffer, end the file. |
| `Document` | what a configuration file says | A grammar, told from how files are written and not from how they are read: a document is a sequence of pieces (gaps with comments, bare and quoted words with the place of each letter, ends of directives) with the directives it says. `ConfToken` is compared with it; it models no code. |
| `Scanner` | what the tokenizer promises | The same branches of `Token` on a file that is simply there, without a buffer. |
| `ConfParse` | `cw_conf_param`, `cw_conf_parse`, `cw_conf_handler`, `cw_set_worker_processes`, `cw_atoi`, `cw_http_block` | `stack` holds the calls of `cw_conf_parse` that have not returned, `ctx` the context and whether a block set `cf->handler`. The input is what `ConfToken` returns. |
| `Listening` | `cw_open_listening_sockets` | `sock` says how far each open socket has been set up; one action for each call to the kernel and each failure. |
| `Startup` | `main`, `cw_init_cycle`, `cw_preinit_modules`, `cw_cycle_modules`, `cw_os_init`, `cw_os_specific_init`, `cw_log_init`, `cw_cpystrn`, `cw_init_signals` | Composes `ConfParse`, `Listening` and `Process` (INSTANCE with renamed variables). `at` is the call that `main` is about to make; each call is an action, its failure another; `Parse`, `OpenSockets` and `MasterProcessCycle` take the steps of the parts. Until its handler is installed a signal ends the process (`Killed`), afterwards the handler runs (`Handled`). |
| `Generator` | script/interface.js | `lines` and `index` are the lines of head.h; a line is what the regular expressions tell apart. `source` and `header` are the files written: statements with the names they use and declare. `Begin` writes the function of `addToolInterface`; one action for each branch of `parseLine`. |
| `MC...` | | Instances for TLC. |
| `PoolProofs`, `ProcessProofs`, `ConfTokenProofs`, `ConfParseProofs`, `ListeningProofs`, `StartupProofs`, `GeneratorProofs` | | The proofs about the module of that name. |
| `NatFacts` | | Lemmas about sets of numbers that several of them use. |

Definitions named after another with an underscore and a word (`Mem_down`,
`Refill_stale`, ...) are faults: the definition they stand before, changed as a
plausible error in the code would change it. Nothing uses them; each property
is shown to fail when one of them takes the place of the original.

Outside the repository, and modelled from how the code uses it: malloc and the
kernel's calls (any may fail), `fork` (the child gets a copy), `close`, which
gives the descriptor back even when it reports an error, the default action of
a signal, `sysctlbyname` and the table of values that the Darwin initialisation
walks, head.h, and the setters of block and include directives with the handlers
they set, which the parser is written for and this program does not have.

### Abstract specifications

`Allocates` says that `Pool` implements `Allocator`: the extents of an array are
its own, all others shared, and every step of the pool, the ones that move the
bump pointer back or grow an array in place included, is one that leaves extents
apart and changes the memory of one owner only. `AsIfUnbuffered` says that
`ConfToken` implements `Scanner`: a position in the buffer is mapped to a position
in the file (`Base` plus the position), refilling and moving the buffer are
stuttering steps, and the length at which a parameter is refused is the buffer's.
The parts of the state that are in `Token` map to themselves, so the refinement
compares every flag and every word that is returned.

## Runs

| run | what it shows | bounds |
|---|---|---|
| `pool_arrays` | `TypeOK`, `NoOverlap`, `InBounds`, `ArrayFits`, `Aligned`, the inductive invariant `IndInv`, and that `Pool` implements `Allocator` (`Allocates`), with two arrays in one pool | 64-bit structure sizes in blocks of 144 bytes, so that the second block is needed at once; three chunks of malloc; one size that is small and one that stays small only unaligned; elements of which an array of more than one is large. Every path of `Grown` is taken. |
| `pool_chain` | `SearchBounded`, `NoLeak` | eleven chunks: `failed` passes 4 after six blocks and `current` has to move several times |
| `process_spawn` | `TypeOK`, `ChannelsAccounted`, `TableCoherent`, `EveryChildRecorded`, `StartupCompletes` | four calls of several kinds, three slots, a worker's initialisation may fail, one signal to any process |
| `process_terminate`, `process_quit` | violated: `TerminateExits`, `QuitNoticed` | as built, one signal |
| `token_texts` | `TypeOK`, `Window`, `LineTrue`, `NeverEmpty`, `Terminates`, and that `ConfToken` implements `Scanner` (`AsIfUnbuffered`) | all texts of three characters of all classes and of five of a few, cut anywhere, a buffer of two: it is refilled in the middle of everything |
| `token_files` | `Faithful`, `NothingLost`, `ValidAccepted` and the inductive invariant `Understood` | two directives written in every combination of 14 spellings of words, two kinds of gap (one with a comment), both terminators; cut anywhere; a buffer of seven characters for files of up to 30. TLC evaluates that all of them are documents (`WrittenAssumption`). |
| `token_stat` | violated: `FileDoneMeansDone` | as `token_files`, with a failing fstat |
| `parse_nested` | `FilesClosed`, `BracesMatch`, `Configured` | files of up to three tokens of ten kinds, with blocks of three kinds (parsed, with a handler, http), which include each other to depth two; a largest integer of 47; sysconf may fail |
| `listening` | `SocketsAccounted`, `Ready`, `NoneForgotten` | up to three entries, three descriptors |
| `startup` | `WorkersReady`, `MemoryAlive`, `ContextsSet`, `ReleasedOnReject`, `SettingTrue`, `NameKept`, `NoOrphans`, `Boots` | the program as built, with the Darwin initialisation, the http module (which has no configuration to create) and a third core module, which creates one after the core module's, added; every call may fail; two signals to any process at any moment; four files (empty, a number, "auto", a directive twice); no listening socket or one of each type; two workers without an event module, so that they crash |
| `generator` | `Compiles`, `FieldsBuilt` | two structures in either order: one of up to three members of ten kinds, with a comment line between them, and an element of a list with up to one member more; and files that are not `Structured` or `Declared`: members before the first structure, structures that begin with an array, `next` or a pointer `cnt`, that do not end or end twice, arrays of unknown length, unknown types |

Deadlock is checked for the pool. The other programs really stop: the master may
sleep in `sigsuspend` for ever, and the parsers and `cw_open_listening_sockets`
return. A child of `Startup` is as in `Process`, whose own runs have the larger
tables.

The properties of `Startup` are about the order of its steps. No worker is forked
before the configuration was accepted, every listening socket is open that is
neither to be ignored nor had its address in use (which core/cw_connection.c:78
passes over), and both handlers are installed, so that neither signal can kill a
master that has workers (`WorkersReady`, `NoOrphans`); the parser, the sockets and the handler, which may
run between any two steps, use pools and a cycle that are there (`MemoryAlive`); and the number of workers is
what the file says with the processors counted long before it (`SettingTrue`).
The four files are what the start-up tells apart: one that sets nothing, one that
sets a number, one that takes the number of processors, and one that is refused.

`BracesMatch` counts every "{" and "}" of a file. The exception is http: its command
is declared as a block (http/cw_http.c:10), but `cw_http_block` returns without
parsing one, so that "http {" is accepted without a "}" and refused with one. A
second http is a duplicate: there is at most one such "{" in all files.

head.h is not in the repository, so the properties of `generator` say themselves
for which files they hold. `Structured`: structures one after the other, each of
which begins with a member that opens the function, a list if and only if it begins
with the counter and ends with `next`. For others the script writes C without a
declaration of `obj` or `array`. `Declared`: the types of the members and the top
interfaces are structures of the file; the script calls `UnsupportType_...` or a
function that nobody writes for others. `Sized`: no array of length 0 but rates, ie
and key, which are the ones written (script/interface.js:98). Of a list,
`FieldsBuilt` says that the objects have all members, not where their values come
from: the script gets that wrong (see below).

### What the violations show

* `TerminateExits`: the handler logs ", exiting" (os/unix/cw_process.c:70), but
  `live` is never cleared, so the master never exits, and
  `cw_worker_process_exit` is empty.
* `QuitNoticed`: SIGQUIT that arrives outside `sigsuspend` is remembered in
  `cw_quit`, which nobody looks at until another signal arrives.
* `FileDoneMeansDone`: a failed fstat is only logged, and the size it did not
  fill in decides where the file ends.

### What the models say without a run

Some disagreements are plain from a definition, so no run states them:

* the script is to "build struct into json object" (script/interface.js:1), but the
  loop that it writes for a list advances `e` (line 164) and reads every member from
  the parameter (lines 130 and 138, `Add` of `Generator`), which stays at the first
  element: all objects of the array show the first one.
* a list whose counter is a pointer (script/interface.js:150-155) gets a loop without
  the declaration of `obj` that the branch for a value writes (line 129): the
  function does not compile. `Opens` of `Generator` leaves such structures out.
* conf/cw.conf opens an `events` block (line 12), for which no command is compiled
  in: `Refuse` of `ConfParse` rejects the file, and the program does not start
  with it.
* `RunHttp`: with the http module, whose command is declared as a block
  (http/cw_http.c:10), `cw_http_block` returns without parsing its block, and the
  "}" is refused by the caller (core/cw_conf_file.c:161).
* `Plan`: the master starts two workers (os/unix/cw_process_cycle.c:25, where
  `ccf->worker_processes` is commented out), whatever `worker_processes` says.
* When `cw_cycle_modules` or `cw_open_listening_sockets` fails the pools are left,
  and `temp_pool` is never destroyed after a successful parse: `CycleModulesFails`,
  `SocketsFail`, `ParseAccepted`.

### Fairness

`Process` assumes weak fairness of the master's own steps and of each worker's
own steps: the kernel schedules a process that can run. Signals and failures
are never required. A master in `sigsuspend` has no step of its own, so fairness
does not wake it. `ConfToken` assumes weak fairness of the parser's steps except
the failures of reading and of memory: it is one thread without a wait. `Startup`
assumes weak fairness of the steps of `main` taken together, the failing ones
included: the process runs on, and which way a call goes is left open.

## Proofs

TLAPS proves, for every value of the constants:

| module | theorems | property |
|---|---|---|
| `PoolProofs` | `Invariance`, `TypeCorrect`, `Separation`, `Containment`, `BoundedSearch`, `Leakless`, `ArraysFit`, `Alignment` | `IndInv`, `TypeOK`, `NoOverlap`, `InBounds`, `SearchBounded`, `NoLeak`, `ArrayFits`, `Aligned` |
| | `Refinement` | `Allocates` |
| `ProcessProofs` | `TypeCorrect`; with `FreshSlots`: `Accounted`, `Coherence` | `TypeOK`; `ChannelsAccounted`, `TableCoherent` |
| `ConfTokenProofs` | `TypeCorrect`, `WindowTrue`, `LinesTrue`, `NoneEmpty`; without failures of fstat: `Refinement`; of documents too: `Understanding`, `ReadsFaithfully`, `LosesNothing`, `AcceptsValid` | `TypeOK`, `Window`, `LineTrue`, `NeverEmpty`; `AsIfUnbuffered`; `Understood`, `Faithful`, `NothingLost`, `ValidAccepted` |
| `ConfParseProofs` | `AllClosed`, `AllMatched`, `WorkersConfigured`; `AtoiAccepts` | `FilesClosed`, `BracesMatch`, `Configured`; (what `cw_atoi` accepts) |
| `ListeningProofs` | `Accounted`, `SocketsReady`, `Complete` | `SocketsAccounted`, `Ready`, `NoneForgotten` |
| `StartupProofs` | `NoneOrphaned`, `ForkedReady`, `AlwaysAlive`, `ContextsReady`, `AllReleased`, `SettingProved`, `SameName` | `NoOrphans`, `WorkersReady`, `MemoryAlive`, `ContextsSet`, `ReleasedOnReject`, `SettingTrue`, `NameKept` |
| `GeneratorProofs` | `GeneratorCompiles`, `GeneratorFieldsBuilt` | `Compiles`, `FieldsBuilt` |

Each of these modules first proves its own `Invariance` (`GeneratorIndInv` in
`GeneratorProofs`), that the `IndInv` of the module it is about is an invariant; the
other theorems follow from it. Bounds of
the models (`MaxHeap`, `MaxOpen`, `MaxSignals`) are arbitrary constants there:
nothing depends on their values. TLC checked every `IndInv` on the instances of
the runs before it was proved (that of `Process` with plans as `FreshSlots` says).

### From which assumptions

* `SizesAssumption` of `Pool`: the pool's size is a multiple of the alignment and
  has room for its header and one list node, and callers ask for at least one byte
  and one element. All pools and callers of the program satisfy it.
* `FreshSlots` of `Process`: no call of `cw_spawn_process` names a slot of its own.
  The one caller, `cw_start_worker_processes`, passes `CW_PROCESS_RESPAWN`. With a
  slot named the channel of the process that was in it is overwritten and never
  closed, so that `ChannelsAccounted` would not hold. `TypeCorrect` does not need
  the assumption.
* `StatFails = FALSE` in the refinement of `Scanner` and in what is proved about
  documents: if fstat may fail these are false, as the run `token_stat` shows. The
  other invariants do not need it.
* `IsWritten(d)` for the documents of `Understanding` and the three theorems that
  follow from it: the file was cut from a text that the grammar of `Document` tells
  what it says. The grammar leaves out what the code would read in a way that nobody
  means: a word right behind a closing quote (`need_space`), "${" at the end of a
  word, a comment without a line feed before the next directive. Any other text
  is in `token_texts`, and in `AsIfUnbuffered`.
* `ConfParseAssumption`: the commands declared as blocks are those whose setter
  parses a block, and http; two of the same name have the same setter. `BracesMatch`
  tells them apart by their names.
  Files and parameters are sequences of tokens, of any length. For `Configured`: the
  command named worker_processes is the one with that setter, a word is a sequence of
  digits and other characters, and sysconf returns no number beyond the largest
  integer; how large that is is left open.
* `ListeningAssumption`: no entry has its `listen` flag set before the loop, as
  nothing else in the program sets it, and no two inherit the same descriptor.
* `StartupAssumption`: CW_CONF_PATH is a string of C. `PartsAssumption` repeats
  those of the three parts for the constants they get.
* `GeneratorAssumption`: a head.h is a sequence of lines, and the top interfaces are
  names. What else the theorems need of a file is in the properties.

### Along which argument

*Pool.* None of the properties is inductive by itself. That no two pieces overlap
needs that every piece is below its block's bump pointer, and that destroying an
array frees only its own memory needs that `nalloc * size` is exactly the length
of the piece it holds and that no other array holds it. That the search is short
needs the exact value of the counters: a block that is still searched has failed
as often as there are blocks behind it, less one (`SearchOK`). `IndInv` is the
conjunction of these. The proof has a lemma for each operator (`BumpOK`,
`NewBlockOK`, `LinkedOK`, `ExtendedOK`, `MovedOK`, `BackOK`: the pool it returns
is sound and what others hold stays held), which the lemmas on allocation and on
arrays combine, and one step for each action. The refinement follows from `IndInv`
before the step and `Separate` after it: each action is an `Allocate`, `Serve` or
`Destroy` of the extents that it adds and removes, or changes none.

*Process.* The descriptors are accounted for because the slot that is being filled
is the first one that is not in use (`Filling`) and its channel was free when it
was taken. A child agrees with the table because the master's globals, which it
copies, are those of that slot. That there is a child number for every fork is
counted by `Counting`.

*ConfToken.* `Window` needs that the part of the buffer that is kept when it is
refilled is the word at hand, so that `start` is never behind `pos`; `LineTrue`
needs that the line where the word began is true too (`StartLineTrue`), which is
what an unterminated quotation is reported with; after a closing quote the word is
already behind the pointer (`NeedBehindWord`). The refinement maps a position in
the buffer to one in the file; taking a character is a step of `Scanner`, all that
moves the buffer is a stuttering step. `Unescaped` is a recursive function: that
it is defined, and a sequence of characters, is proved by an induction that is
stated for a set (`SetInduction` of `NatFacts`), which the provers can instantiate.
That the directives returned are those written is inductive only together with
where the parser is in the document (`Understood`): between directives, in a gap
(and in a comment of it or not), before a letter of a word or behind its backslash,
or behind a closing quote; with `start` at the word's first letter, and with the
words and directives before that place in `args` and `out`. The proof has a lemma
for each place that a character may be in (`GapChar`, `WordChar`, `InsideChar`,
`BareEnds`, `QuotedEnds`, `BehindQuoteChar`, `EndChar`), and `CopiesSpelt`, that
`Unescaped` undoes the spelling of a word letter by letter. At the end of the file
the order of the pieces (`PiecesOrdered`) tells that nothing was lost.

*ConfParse.* The calls on the stack are chained (`Chained`): `prev` of the call
above is what `cf->conf_file` was, a file's number is larger than those of its
callers, a block goes on with the file it is in. The open files are then exactly
those of the file calls (`Held`). For the braces of a file, each block call whose
`prev` is that file stands for one "{" without its "}" (`Paired`), and the "{" that
no call stands for is that of http, which has its configuration from then on
(`LeftOnce`). `Configured` is inductive
once "auto" is known to be a number of workers (`SomeProcessor`): the setter only
writes a setting that is unset, and records the directive in the same step. That
`cw_atoi` refuses a word or returns the number that its digits stand for, within the
limit, is proved by an induction over the digits (`AtoiDecimal`): its test for
overflow is made before the multiplication. That it refuses no number that is within
the limit, the limit itself included, is `AtoiAccepts`: by induction what the loop has
read is the value of the digits so far as long as that is within the limit.

*Listening.* The socket at hand belongs to the entry the loop is at, which has none
yet (`AtHand`); the entries behind are settled (`Progress`).

*Startup.* `IndInv` says what there is when `main` is about to make a call: which
pools, which cycle, which handlers, that there is one process (`Alone`), which
modules have their configuration. Once `at` is "run", both handlers are installed
and no step makes the master return. What it says of the parser is the `IndInv` of
`ConfParse`: the lemmas of `ConfParseProofs` are used through an instance of that
module, whose definitions are shown to be those of `Conf` (`ConfNext`, `ConfInv`)
and whose assumption is one of `main`'s (`ConfAssumed`). That the sockets are open
when a worker is forked comes in the same way from the `IndInv` of `Listening`, by
an instance of `ListeningProofs`: the step of the sockets keeps it, and no other
step touches them. `SocketsRefinement` shows
that `Startup` implements `Listening`, whose theorems so hold within `main`.

*Generator.* For a file that is `Structured` the invariant says what `context.last` stands for: what the latest
relevant line was, which blocks of the function being written are open, and which
names are declared there. Every function but that one is complete: the compiler of
`Compiles`, a recursive function over statements, was through with it, and it has
each member of its structure once, if the structure is `Sized`. A lemma for each branch of `parseLine` extends
the function by the statements of that line.

### Only model-checked

Liveness, which is out of the prover's reach: `EveryChildRecorded`,
`StartupCompletes`, `Terminates`, `Boots`.

## Not modelled

* event/modules/cw_epoll_module.c: a fragment that is not compiled; the functions
  it names do not exist. What the missing event module means for the workers is in
  `Process`.
* core/cw_log.c beyond `cw_log_init`: formatting and output by zlog. That the signal
  handler logs, with a library that locks, is a hazard that only a model of zlog
  could show.
* os/unix/cw_thread_id.c: functions without state that nothing calls.
* Code under `CW_DEBUG`: the configure scripts never define that macro.
* script/server.js prints datagrams; configure and auto/ write a Makefile. They were
  read for what is built.
* The memory of `Startup` is a set of pools: what a pool does inside is in `Pool`.
  `free(cycle)` in `cw_master_process_exit`, of memory that is not malloc's own,
  cannot be reached, as the run `process_terminate` shows.

## Plan

Done: all parts of the program, the composition, the refinements, and the proofs
of every invariant that a run checks. What is left:

1. That the theorems of `Process` hold within `Startup`, where the master may also
   end before it has workers.
2. The grammar of `Document` ends a directive with a piece; the errors of texts
   that are not documents are only compared with `Scanner`.
