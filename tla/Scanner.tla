------------------------------ MODULE Scanner ------------------------------
(***************************************************************************)
(* What cw_conf_read_token promises: the configuration file is cut into    *)
(* directives one character after the other, and nothing depends on how    *)
(* it is read.  All that the buffer leaves visible is that a parameter of  *)
(* Limit characters with more of the file behind it is refused, and that   *)
(* the file may stop to be readable.                                       *)
(***************************************************************************)
EXTENDS Token

CONSTANT Limit   \* the length that a parameter may not have

VARIABLES
  file,          \* what is parsed
  source,        \* "file" or "param": a parameter is in memory as a whole
  at,            \* characters taken so far
  begin          \* characters taken before the word that is being read

text == <<file, source>>

----------------------------------------------------------------------------
Ask == Begin /\ begin' = at /\ UNCHANGED <<text, at>>

\* The word that is being read has reached the limit, and the file goes on.
Full == source = "file" /\ at - begin = Limit

End ==
  /\ rc = "reading"
  /\ at = Len(file)
  /\ AtEnd
  /\ UNCHANGED <<text, at, begin>>

Refuse ==
  /\ rc = "reading"
  /\ at < Len(file) /\ Full
  /\ TooLarge
  /\ UNCHANGED <<text, at, begin>>

Unreadable ==
  /\ rc = "reading"
  /\ source = "file" /\ at < Len(file) /\ ~Full
  /\ Stops("read")
  /\ UNCHANGED <<text, at, begin>>

\* The next character.
c == file[at + 1]

Take ==
  /\ rc = "reading"
  /\ at < Len(file) /\ ~Full
  /\ at' = at + 1
  /\ UNCHANGED text
  /\ \/ (Stays(c, SubSeq(file, begin + 1, at + 1)) \/ NoMemory(c)) /\ UNCHANGED begin
     \/ Starts(c) /\ begin' = at
     \/ StartsBehind(c) /\ begin' = at + 1

----------------------------------------------------------------------------
Init ==
  /\ source \in {"file", "param"}
  /\ file \in Seq(Char)
  /\ TokenInit(IF source = "file" THEN 1 ELSE 0)
  /\ at = 0 /\ begin = 0

Next == Ask \/ End \/ Refuse \/ Unreadable \/ Take

Spec == Init /\ [][Next]_<<text, at, begin, token>>

=============================================================================
