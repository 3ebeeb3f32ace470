----------------------------- MODULE Generator -----------------------------
(***************************************************************************)
(* script/interface.js: it reads head.h line by line and writes, for every *)
(* structure, a C function that builds a JSON object out of it, or a JSON  *)
(* array when the structure is an element of a list.                       *)
(*                                                                         *)
(* head.h is not in the repository, and nothing is assumed of it.  A line  *)
(* is what the regular expressions of parseLine tell apart: the one that   *)
(* it matches, with the type, name and length found, and whether it has a  *)
(* comment; a line has one declaration.  Of the C that is written a        *)
(* statement is kept as what a compiler looks at, the names it uses and    *)
(* declares, and its blocks.                                               *)
(***************************************************************************)
EXTENDS Integers, Sequences, SequencesExt

CONSTANTS
  Heads,            \* what head.h may consist of
  TopInterface,     \* topInterface: structures
  Tag               \* the structure of each type name *_t

VARIABLES
  stage,            \* "start", "lines" or "done"
  lines, index,     \* the lines of head.h, and how many of them were parsed
  type, last,       \* context.type and context.last
  source,           \* cwJsonApi.c: functions with their statements
  header            \* cwJsonApi.h: the functions declared

vars == <<stage, lines, index, type, last, source, header>>

----------------------------------------------------------------------------
(***************************************************************************)
(* The C that is written.                                                  *)
(***************************************************************************)
Statement(op, uses, declares, field, from, calls) ==
  [op |-> op, uses |-> uses, declares |-> declares, field |-> field, from |-> from,
   calls |-> calls]

NewObj     == Statement("declare", {}, {"obj"}, "", "", {})
NewArray   == Statement("declare", {}, {"array"}, "", "", {})
NewElement == Statement("declare", {type}, {"e"}, "", "", {})
If         == Statement("open", {type}, {}, "", "", {})
While      == Statement("open", {"e"}, {}, "", "", {})
AddArray   == Statement("add", {"array", "obj"}, {}, "", "", {})
Advance    == Statement("advance", {"e"}, {}, "", "", {})
Close      == Statement("close", {}, {}, "", "", {})
Give(v)    == Statement("return", {v}, {}, "", "", {})

\* json_object_object_add(obj, "field", method(type->field)).
Add(field, method) == Statement("set", {"obj", type}, {}, field, type, {method})

getNewMethod(key) ==
  CASE key \in {"int8_t", "uint8_t", "uint16_t", "uint32_t"} -> "json_object_new_int"
    [] key \in DOMAIN Tag -> Tag[key]
    [] OTHER -> "UnsupportType"

\* A function for the structure that is the parameter of the same name.
Function(kind, struct, body) == [kind |-> kind, struct |-> struct, body |-> body]

\* addToolInterface: buildArray, which puts the bytes of macAddr in an array.
Tool ==
  Function("tool", "macAddr",
    <<NewArray, Statement("open", {"macAddr"}, {}, "", "", {}),
      Statement("add", {"array", "macAddr"}, {}, "", "", {"json_object_new_int"}), Close,
      Give("array"), Close>>)

\* What toSource adds to the function that was written last.
Emit(stmts) == source' = [source EXCEPT ![Len(source)].body = @ \o stmts]

----------------------------------------------------------------------------
(***************************************************************************)
(* parseLine.                                                              *)
(***************************************************************************)
Parsing == stage = "lines" /\ index < Len(lines) /\ index' = index + 1
line    == lines[index + 1]

Matches(kind) == Parsing /\ ~line.comment /\ line.match = kind
Member(kind)  == Matches(kind) /\ UNCHANGED <<stage, lines, type, header>>

\* A line with a comment is skipped, and nothing is done with one that no
\* expression matches.
Skip ==
  /\ Parsing
  /\ line.comment \/ line.match = "none"
  /\ UNCHANGED <<stage, lines, type, last, source, header>>

Typedef ==
  /\ Matches("typedef")
  /\ type' = line.value
  /\ last' = "start"
  /\ source' = Append(source, Function("build", line.value, <<>>))
  /\ header' = header \cup {line.value}
  /\ UNCHANGED <<stage, lines>>

\* What is written before the first member, by the branches that do.
Opening == IF last = "start" THEN <<NewObj, If>> ELSE <<>>

\* macAddr[] and macAddr[CW_MAC_ADDR_LEN_MAX], whose length is macLen.
MacAddr ==
  /\ Member("macLen")
  /\ Emit(<<Add(line.value, "buildArray")>>)
  /\ last' = "attribute"

\* macAddr[ETH_ALEN].
EthAddr ==
  /\ Member("ETH_ALEN")
  /\ Emit(Opening \o <<Add(line.value, "buildArray")>>)
  /\ last' = "attribute"

\* key[CW_KEY_LEN_MAX], whose length is kLen.
Key ==
  /\ Member("kLen")
  /\ Emit(<<Add(line.value, "buildArray")>>)
  /\ last' = "attribute"

\* Fault: the arrays whose length is another member are left out.
Array_sized ==
  /\ Member("array")
  /\ Emit(IF line.len = 0 THEN <<>> ELSE <<Add(line.value, "buildArray")>>)
  /\ last' = "attribute"

\* Nothing is written for an array of no elements with another name.
Array ==
  /\ Member("array")
  /\ Emit(CASE line.len = 0 /\ line.value \in {"rates", "ie", "key"} ->
                 <<Add(line.value, "buildArray")>>
            [] line.len = 0 /\ line.value \notin {"rates", "ie", "key"} -> <<>>
            [] line.len # 0 /\ line.value = "sn" ->
                 <<Add(line.value, "json_object_new_string")>>
            [] line.len # 0 /\ line.value # "sn" -> <<Add(line.value, "buildArray")>>)
  /\ last' = "attribute"

\* A structure that begins with this member is an element of a list.
Counter == last = "start" /\ line.key = "uint16_t" /\ line.value = "cnt"

Value ==
  /\ Member("value")
  /\ Emit((IF Counter THEN <<NewArray, NewElement, While, NewObj>> ELSE Opening)
            \o <<Add(line.value, getNewMethod(line.key))>>)
  /\ last' = "attribute"

\* Fault: the pointer to the next element is taken for any other.
Pointer_last ==
  /\ Member("pointer")
  /\ Emit(IF last # "start" /\ line.value = "next"
            THEN <<AddArray, Advance, Close>>
            ELSE Opening \o <<Add(line.value, getNewMethod(line.key))>>)
  /\ last' = "pointer"

Pointer ==
  /\ Member("pointer")
  /\ Emit(CASE last # "start" /\ line.value = "next" -> <<AddArray, Advance, Close>>
            [] Counter -> <<NewArray, NewElement, While, Add(line.value, getNewMethod(line.key))>>
            [] OTHER -> Opening \o <<Add(line.value, getNewMethod(line.key))>>)
  /\ last' = IF line.value = "next" THEN "next" ELSE "pointer"

Bitset ==
  /\ Member("bitset")
  /\ Emit(Opening \o <<Add(line.value, "json_object_new_int")>>)
  /\ last' = "bitset"

Endline ==
  /\ Member("end")
  /\ Emit(IF last = "next" THEN <<Give("array"), Close>> ELSE <<Close, Give("obj"), Close>>)
  /\ last' = "end"

----------------------------------------------------------------------------
(***************************************************************************)
(* The callback of readFile.                                               *)
(***************************************************************************)
Begin ==
  /\ stage = "start" /\ stage' = "lines"
  /\ lines' \in Heads /\ index' = 0
  /\ source' = <<Tool>>
  /\ header' = {}
  /\ UNCHANGED <<type, last>>

\* The functions that add a structure to an object given, one per interface.
addTopInterface ==
  /\ stage = "lines" /\ index = Len(lines)
  /\ stage' = "done"
  /\ source' = source \o [n \in DOMAIN TopInterface |->
       LET intf == TopInterface[n]
       IN  Function("top", intf, <<Statement("set", {intf}, {}, "key", intf, {intf}), Close>>)]
  /\ UNCHANGED <<lines, index, type, last, header>>

\* The files are what an earlier call wrote.
Init ==
  /\ stage = "start" /\ lines = <<>> /\ index = 0 /\ type = "" /\ last = ""
  /\ source = <<Function("build", "old", <<>>)>> /\ header = {"old"}

Next ==
  \/ Begin \/ addTopInterface
  \/ Skip \/ Typedef \/ MacAddr \/ EthAddr \/ Key \/ Array
  \/ Value \/ Pointer \/ Bitset \/ Endline

Spec == Init /\ [][Next]_vars

----------------------------------------------------------------------------
(***************************************************************************)
(* The lines of head.h.                                                    *)
(***************************************************************************)
Kinds == {"none", "typedef", "macLen", "ETH_ALEN", "kLen", "array", "value", "pointer",
          "bitset", "end"}
Line  == [match : Kinds, key : STRING, value : STRING, len : Nat, comment : BOOLEAN]

\* The lines that parseLine does something with, and whether n comes next after m.
Relevant(h) == {n \in 1 .. Len(h) : ~h[n].comment /\ h[n].match # "none"}
Follows(h, m, n) ==
  m \in Relevant(h) /\ n \in Relevant(h) /\ m < n /\ \A j \in Relevant(h) : j <= m \/ n <= j

Starts(h)  == {n \in Relevant(h) : h[n].match = "typedef"}
Structs(h) == {h[n].value : n \in Starts(h)}

\* Line n is in the structure that begins at s, and is not its end.
Within(h, s, n) ==
  s \in Starts(h) /\ n \in Relevant(h) /\ s <= n
    /\ \A j \in Relevant(h) : s <= j /\ j <= n => h[j].match # "end"

\* The pointer to the next element, and whether the structure that begins at
\* s is an element of a list.
IsNext(x)     == x.match = "pointer" /\ x.value = "next"
IsCounter(x)  == x.key = "uint16_t" /\ x.value = "cnt"
Listed(h, s)  == \E n \in Relevant(h) : Follows(h, s, n) /\ h[n].match = "value" /\ IsCounter(h[n])

\* Members that parseLine opens a function with, declaring what it uses: before
\* an array there is nothing, and no object in the loop of a pointer cnt.
Opens(x) ==
  /\ x.match \in {"ETH_ALEN", "value", "pointer", "bitset"}
  /\ ~IsNext(x)
  /\ x.match = "pointer" => ~IsCounter(x)

\* Structures with a member that opens the function, one after the other; an
\* element of a list, and nothing else, ends with next.  Their names are given
\* once and are not those of the function's variables.
Structured(h) ==
  /\ \A n \in Relevant(h) :
       /\ (\A m \in Relevant(h) : n <= m) => h[n].match = "typedef"
       /\ (\A m \in Relevant(h) : m <= n) => h[n].match = "end"
  /\ \A m, n \in Relevant(h) : Follows(h, m, n) =>
       /\ h[n].match = "typedef" <=> h[m].match = "end"
       /\ h[m].match = "typedef" => Opens(h[n])
       /\ IsNext(h[m]) => h[n].match = "end"
       /\ h[n].match = "end" => \A s \in Starts(h) : Within(h, s, m) /\ Listed(h, s) => IsNext(h[m])
  /\ \A s \in Starts(h), n \in Relevant(h) : Within(h, s, n) /\ IsNext(h[n]) => Listed(h, s)
  /\ \A m, n \in Starts(h) : h[m].value = h[n].value => m = n
  /\ \A n \in Starts(h) : h[n].value \notin {"obj", "array", "e"}

\* What the library and addToolInterface define, and what may be called.
Defined     == {"json_object_new_int", "json_object_new_string", "buildArray"}
Callable(h) ==
  Defined \cup Range(TopInterface)
    \cup {getNewMethod(h[n].key) : n \in {m \in Relevant(h) : h[m].match \in {"value", "pointer"}}}

\* The types of the members, and the interfaces, are structures of the file.
Declared(h) == Callable(h) \subseteq Defined \cup Structs(h)

\* An array of no elements whose length is no member that parseLine knows of, and
\* structures without one.
Silent(x)   == x.match = "array" /\ x.len = 0 /\ x.value \notin {"rates", "ie", "key"}
Sized(h, s) == \A n \in Relevant(h) : Within(h, s, n) => ~Silent(h[n])

ASSUME GeneratorAssumption ==
  /\ Heads \subseteq Seq(Line)
  /\ TopInterface \in Seq(STRING)

----------------------------------------------------------------------------
(***************************************************************************)
(* Properties.                                                             *)
(***************************************************************************)

\* What a compiler knows after statement x, when it knew c: the names in each
\* block that is open, from the outermost, and whether all was well so far.
Known(c) == UNION Range(c.blocks)
Compile(c, x) ==
  [ok     |-> /\ c.ok
              /\ c.blocks # <<>>
              /\ x.uses \subseteq Known(c)
              /\ x.declares \cap c.blocks[Len(c.blocks)] = {}
              /\ x.op = "return" => Len(c.blocks) = 1,
   blocks |-> CASE c.blocks = <<>>    -> <<>>
                [] x.op = "open"      -> Append(c.blocks, {})
                [] x.op = "close"     -> Front(c.blocks)
                [] x.op = "declare"   -> [c.blocks EXCEPT ![Len(c.blocks)] = @ \cup x.declares]
                [] OTHER              -> c.blocks]

\* What it knows after the body of a function, whose own block has the structure
\* that is its parameter.
Compiled(struct, body) ==
  LET after[n \in 0 .. Len(body)] ==
        IF n = 0 THEN [ok |-> TRUE, blocks |-> <<{struct}>>] ELSE Compile(after[n - 1], body[n])
  IN  after[Len(body)]

\* Nothing is open after a function.
Done == [ok |-> TRUE, blocks |-> <<>>]

\* When head.h is Structured, whichever members its structures have behind the
\* first and in whichever order they come, the functions written are C: the
\* blocks are closed where they should and every name is used where it is
\* declared.  Nothing of a structure remains in the context for the next.  When
\* the types are declared as well, so is every function that is called.
Compiles ==
  stage = "done" /\ Structured(lines) =>
    \A f \in 1 .. Len(source) :
      /\ Compiled(source[f].struct, source[f].body) = Done
      /\ Declared(lines) =>
           \A x \in 1 .. Len(source[f].body) : source[f].body[x].calls \subseteq Defined \cup header

\* The values behind lo and up to hi at the places that are chosen, in their order.
Picked(lo, hi, chosen, value) ==
  LET upto[n \in lo .. hi] ==
        IF n = lo THEN <<>>
        ELSE IF n \in chosen THEN Append(upto[n - 1], value[n]) ELSE upto[n - 1]
  IN  upto[hi]

\* The members of the structure that begins at s, up to line i, and the fields
\* that a function sets.
IsMember(s, n) == Within(lines, s, n) /\ ~IsNext(lines[n])
Members(s, i)  == Picked(s, i, {n \in 1 .. Len(lines) : IsMember(s, n)},
                         [n \in 1 .. Len(lines) |-> lines[n].value])
Fields(body)   == Picked(0, Len(body), {n \in 1 .. Len(body) : body[n].op = "set"},
                         [n \in 1 .. Len(body) |-> body[n].field])

\* What they are all taken from.
TakenFrom(body, s) == \A n \in 1 .. Len(body) : body[n].op = "set" => body[n].from = s

Has(body, x) == \E n \in 1 .. Len(body) : body[n] = x
Loops(body)  == \E n \in 1 .. Len(body) : body[n].op = "open" /\ body[n].uses = {"e"}

\* The object is returned, or put into an array that is.
Gives(body) ==
  IF Loops(body) THEN Has(body, AddArray) /\ Has(body, Give("array")) ELSE Has(body, Give("obj"))

\* When head.h is Structured, every structure has a function that returns what is
\* built of it: an object, whose fields are read from the structure that the
\* function is given, or the array that the objects of a list are put in.  The
\* object has every member once, in the order of the structure, unless an array
\* has a length that parseLine does not know.
FieldsBuilt ==
  stage = "done" /\ Structured(lines) =>
    \A s \in Starts(lines) : \E f \in 1 .. Len(source) :
      /\ source[f].kind = "build" /\ source[f].struct = lines[s].value
      /\ Sized(lines, s) => Fields(source[f].body) = Members(s, Len(lines))
      /\ Loops(source[f].body) \/ TakenFrom(source[f].body, lines[s].value)
      /\ Gives(source[f].body)

----------------------------------------------------------------------------
(***************************************************************************)
(* The inductive invariant behind both.                                    *)
(***************************************************************************)
Names ==
  {"", "key", "obj", "array", "e", "macAddr"} \cup Range(TopInterface)
    \cup {lines[n].value : n \in 1 .. Len(lines)}

Statements ==
  [op : {"declare", "open", "add", "advance", "close", "return", "set"},
   uses : SUBSET Names, declares : SUBSET Names, field : Names, from : Names,
   calls : SUBSET Callable(lines)]

TypeOK ==
  /\ stage \in {"lines", "done"}
  /\ lines \in Heads /\ index \in 0 .. Len(lines)
  /\ type \in Names
  /\ source \in Seq([kind : {"tool", "build", "top"}, struct : Names, body : Seq(Statements)])
  /\ header = {lines[n].value : n \in {s \in Starts(lines) : s <= index}}
  /\ stage = "done" => index = Len(lines)

\* The last line that parseLine did something with, and the structure that it is
\* in the middle of.
Latest(m) ==
  m \in Relevant(lines) /\ m <= index /\ \A j \in Relevant(lines) : j <= m \/ index < j
Current(s) ==
  /\ s \in Starts(lines) /\ s <= index
  /\ \A j \in Relevant(lines) : s <= j /\ j <= index => lines[j].match # "end"

\* context.last says what that line was.
Context ==
  \/ \A j \in Relevant(lines) : index < j
  \/ \E m \in Relevant(lines) :
       /\ Latest(m)
       /\ last = "next" <=> IsNext(lines[m])
       /\ last = "end" <=> lines[m].match = "end"
       /\ last = "start" <=> lines[m].match = "typedef"
       /\ last = "start" => Current(m)
       /\ last # "end" => \E s \in Starts(lines) : Current(s)

\* What is written of a structure that has not ended: a compiler is in the loop
\* or behind it, or in the block of the if.
Written(s, f) ==
  LET v    == lines[s].value
      body == source[f].body
  IN  CASE last = "start" -> body = <<>>
        [] last = "next" ->
             /\ Listed(lines, s) /\ Loops(body) /\ Has(body, AddArray)
             /\ Compiled(v, body) = [ok |-> TRUE, blocks |-> <<{v, "array", "e"}>>]
        [] last \notin {"start", "next"} /\ Listed(lines, s) ->
             /\ Loops(body)
             /\ Compiled(v, body) = [ok |-> TRUE, blocks |-> <<{v, "array", "e"}, {"obj"}>>]
        [] last \notin {"start", "next"} /\ ~Listed(lines, s) ->
             /\ ~Loops(body)
             /\ Compiled(v, body) = [ok |-> TRUE, blocks |-> <<{v, "obj"}, {}>>]

\* Every structure that began has its function, and only the one that has not
\* ended is still written to.
Function_of(s, f) ==
  /\ source[f].kind = "build" /\ source[f].struct = lines[s].value
  /\ Sized(lines, s) => Fields(source[f].body) = Members(s, index)
  /\ Loops(source[f].body) \/ TakenFrom(source[f].body, lines[s].value)
  /\ IF Current(s)
       THEN stage = "lines" /\ f = Len(source) /\ type = lines[s].value /\ Written(s, f)
       ELSE Gives(source[f].body)

Structures == \A s \in Starts(lines) : s <= index => \E f \in 1 .. Len(source) : Function_of(s, f)

Functions ==
  \A f \in 1 .. Len(source) :
    \/ Compiled(source[f].struct, source[f].body) = Done
    \/ stage = "lines" /\ f = Len(source) /\ \E s \in Starts(lines) : Current(s)

Inv == TypeOK /\ Context /\ Structures /\ Functions

\* Before the callback the files are those of an earlier call.
IndInv == IF stage = "start" THEN type = "" ELSE Structured(lines) => Inv

=============================================================================
