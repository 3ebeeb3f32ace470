------------------------------- MODULE Token -------------------------------
(***************************************************************************)
(* What cw_conf_read_token of src/core/cw_conf_file.c does with one        *)
(* character, wherever it comes from: module ConfToken takes it from the   *)
(* buffer, as the code does, and module Scanner from the file.             *)
(*                                                                         *)
(* Characters are classes of characters: "sp" is a blank, a tab or CR,     *)
(* "lf" a line feed, "dq" and "sq" are the quotes, "bs" the backslash, "t" *)
(* the letters t and r, "n" the letter n, "a" any other character without  *)
(* a meaning of its own; the others stand for themselves.                  *)
(***************************************************************************)
EXTENDS Integers, Sequences, SequencesExt

Char == {"sp", "lf", "dq", "sq", "bs", "t", "n", "a", ";", "{", "}", "#", "$", ")"}

VARIABLES
  line,         \* conf_file->line
  start_line,
  mode,         \* "space": last_space, "need": need_space, "dq": d_quoted,
                \* "sq": s_quoted, "word": none of these
  sharp_comment,
  quoted,
  variable,
  args,         \* cf->args: the words of this directive
  rc,           \* what the last call returned; "reading": it still runs
  out           \* the directives returned so far

scanning == <<start_line, mode, sharp_comment, quoted, variable, args>>
token    == <<line, scanning, rc, out>>

\* The causes for which CW_ERROR is returned.
Errors == {"syntax", "long", "read", "memory"}

\* The caller asks for the next directive; it does so until it gets an error
\* or CW_CONF_FILE_DONE.
Begin ==
  /\ rc \in {"none", "ok", "block", "block_done"}
  /\ rc' = "reading"
  /\ mode' = "space"
  /\ sharp_comment' = FALSE /\ quoted' = FALSE /\ variable' = FALSE
  /\ args' = <<>>
  /\ start_line' = line
  /\ UNCHANGED <<line, out>>

Returns(r) ==
  /\ rc' = r
  /\ out' = IF r \in {"ok", "block", "block_done"}
              THEN Append(out, [rc |-> r, args |-> args']) ELSE out

\* The call ends without another character.
Stops(r) == Returns(r) /\ UNCHANGED <<line, scanning>>

\* Fault: the end of the file ends a directive.
AtEnd_lax == Stops("file_done")

\* There are no more characters.
AtEnd == Stops(IF args # <<>> \/ mode # "space" THEN "syntax" ELSE "file_done")

\* A parameter is too long; it is reported at the line on which it began.
TooLarge == Returns("long") /\ line' = start_line /\ UNCHANGED scanning

----------------------------------------------------------------------------
(***************************************************************************)
(* One character, c.                                                       *)
(***************************************************************************)
Blank == {"sp", "lf"}

\* Fault: a line feed that is skipped in a comment is not counted.
CountLine_comment(c) == line' = IF c = "lf" /\ ~sharp_comment THEN line + 1 ELSE line

CountLine(c) == line' = IF c = "lf" THEN line + 1 ELSE line

\* A line feed ends a comment, and is skipped then as a blank.
SkipComment(c) ==
  /\ sharp_comment
  /\ CountLine(c)
  /\ sharp_comment' = (c # "lf")
  /\ UNCHANGED <<start_line, mode, quoted, variable, args, rc, out>>

SkipQuoted(c) ==
  /\ ~sharp_comment /\ quoted
  /\ CountLine(c)
  /\ quoted' = FALSE
  /\ UNCHANGED <<start_line, mode, sharp_comment, variable, args, rc, out>>

Reads(c) == ~sharp_comment /\ ~quoted /\ CountLine(c)

\* What a delimiter makes the call return.
Delimited(c) == IF c = "{" THEN "block" ELSE "ok"

\* Fault: a closing quote must be followed by a blank.
AfterQuote_strict(c) ==
  /\ mode = "need" /\ c # ")"
  /\ Reads(c)
  /\ mode' = IF c \in Blank THEN "space" ELSE mode
  /\ UNCHANGED args
  /\ IF c \in Blank THEN UNCHANGED <<rc, out>> ELSE Returns("syntax")
  /\ UNCHANGED <<start_line, sharp_comment, quoted, variable>>

\* After a closing quote.
AfterQuote(c) ==
  /\ mode = "need" /\ c # ")"
  /\ Reads(c)
  /\ mode' = IF c \in Blank THEN "space" ELSE mode
  /\ UNCHANGED args
  /\ IF c \in Blank
       THEN UNCHANGED <<rc, out>>
       ELSE Returns(IF c \in {";", "{"} THEN Delimited(c) ELSE "syntax")
  /\ UNCHANGED <<start_line, sharp_comment, quoted, variable>>

SkipBlank(c) ==
  /\ mode = "space" /\ c \in Blank
  /\ Reads(c)
  /\ UNCHANGED <<scanning, rc, out>>

\* Fault: a delimiter without a directive is accepted.
Delimiter_empty(c) ==
  /\ mode = "space" /\ c \in {";", "{"}
  /\ Reads(c)
  /\ UNCHANGED args
  /\ Returns(Delimited(c))
  /\ start_line' = line'
  /\ UNCHANGED <<mode, sharp_comment, quoted, variable>>

Delimiter(c) ==
  /\ mode = "space" /\ c \in {";", "{"}
  /\ Reads(c)
  /\ UNCHANGED args
  /\ Returns(IF args = <<>> THEN "syntax" ELSE Delimited(c))
  /\ start_line' = line'
  /\ UNCHANGED <<mode, sharp_comment, quoted, variable>>

BlockDone(c) ==
  /\ mode = "space" /\ c = "}"
  /\ Reads(c)
  /\ UNCHANGED args
  /\ Returns(IF args # <<>> THEN "syntax" ELSE "block_done")
  /\ start_line' = line'
  /\ UNCHANGED <<mode, sharp_comment, quoted, variable>>

Comment(c) ==
  /\ mode = "space" /\ c = "#"
  /\ Reads(c)
  /\ sharp_comment' = TRUE
  /\ start_line' = line'
  /\ UNCHANGED <<mode, quoted, variable, args, rc, out>>

\* A word may begin here: after a blank, or with ")" after a closing quote.
MayBegin(c) == mode = "space" \/ (mode = "need" /\ c = ")")

BeginWord(c) ==
  /\ MayBegin(c) /\ c \notin Blank \cup {";", "{", "}", "#", "dq", "sq"}
  /\ Reads(c)
  /\ start_line' = line'
  /\ quoted' = (c = "bs")
  /\ mode' = "word"
  /\ UNCHANGED <<sharp_comment, variable, args, rc, out>>

BeginQuoted(c) ==
  /\ mode = "space" /\ c \in {"dq", "sq"}
  /\ Reads(c)
  /\ start_line' = line'
  /\ mode' = c
  /\ UNCHANGED <<sharp_comment, quoted, variable, args, rc, out>>

InWord == mode \in {"word", "dq", "sq"}

\* The character that ends the word.
EndsWord(c) == c \in (IF mode = "word" THEN Blank \cup {";", "{"} ELSE {mode})

KeepsVariable(c) == variable /\ c = "{"

InsideWord(c) ==
  /\ InWord /\ (KeepsVariable(c) \/ ~EndsWord(c))
  /\ Reads(c)
  /\ quoted' = (c = "bs")
  /\ variable' = (KeepsVariable(c) \/ c = "$")
  /\ UNCHANGED <<start_line, mode, sharp_comment, args, rc, out>>

\* What a backslash and one of these characters stand for.
Escape == [dq |-> "dq", sq |-> "sq", bs |-> "bs", t |-> "sp", n |-> "lf"]

\* The word that is copied from s, whose last character is the one that ends
\* the word.
Unescaped(s) ==
  LET n == Len(s) - 1
      copy[k \in 1 .. n + 2] ==
        IF k > n THEN <<>>
        ELSE IF s[k] = "bs" /\ s[k + 1] \in DOMAIN Escape
          THEN <<Escape[s[k + 1]]>> \o copy[k + 2]
          ELSE <<s[k]>> \o copy[k + 1]
  IN  copy[1]

EndWord(c, s) ==
  /\ InWord /\ ~KeepsVariable(c) /\ EndsWord(c)
  /\ Reads(c)
  /\ variable' = FALSE
  /\ args' = Append(args, Unescaped(s))
  /\ mode' = IF mode = "word" THEN "space" ELSE "need"
  /\ IF c \in {";", "{"} THEN Returns(Delimited(c)) ELSE UNCHANGED <<rc, out>>
  /\ UNCHANGED <<start_line, sharp_comment, quoted>>

\* cw_array_push or cw_pnalloc fails.
NoMemory(c) ==
  /\ InWord /\ ~KeepsVariable(c) /\ EndsWord(c)
  /\ Reads(c)
  /\ UNCHANGED args
  /\ Returns("memory")
  /\ UNCHANGED <<start_line, mode, sharp_comment, quoted, variable>>

\* The characters after which start stays where it was; s: the characters
\* from start on.
Stays(c, s) ==
  \/ SkipComment(c) \/ SkipQuoted(c) \/ AfterQuote(c) \/ SkipBlank(c)
  \/ InsideWord(c) \/ EndWord(c, s)

\* Those that start is set to, and those that it is set behind.
Starts(c)       == Delimiter(c) \/ BlockDone(c) \/ Comment(c) \/ BeginWord(c)
StartsBehind(c) == BeginQuoted(c)

----------------------------------------------------------------------------
TokenInit(first) ==
  /\ line = first /\ start_line = 0
  /\ mode = "space"
  /\ sharp_comment = FALSE /\ quoted = FALSE /\ variable = FALSE
  /\ args = <<>> /\ rc = "none" /\ out = <<>>

TokenTypeOK ==
  /\ line \in Nat /\ start_line \in Nat
  /\ mode \in {"space", "need", "word", "dq", "sq"}
  /\ {sharp_comment, quoted, variable} \subseteq BOOLEAN
  /\ args \in Seq(Seq(Char))
  /\ rc \in {"none", "reading", "ok", "block", "block_done", "file_done"} \cup Errors

=============================================================================
