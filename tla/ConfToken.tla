----------------------------- MODULE ConfToken -----------------------------
(***************************************************************************)
(* cw_conf_read_token of src/core/cw_conf_file.c: the configuration file   *)
(* is read through a buffer that is smaller than the file and is cut into  *)
(* directives, which are sequences of words that end with ";" or "{".      *)
(*                                                                         *)
(* What is done with one character is in module Token; here is where it    *)
(* comes from.  Positions in the buffer are offsets from b->start; buf     *)
(* holds the bytes between b->start and b->last: b->last is Len(buf).      *)
(***************************************************************************)
EXTENDS Document, FiniteSets

CONSTANTS
  CW_CONF_BUFFER,
  Documents,     \* what a file may have been written to say: a set of
                 \* [text |-> its characters, says |-> its directives,
                 \*  spans |-> where the directives are in the text,
                 \*  pieces |-> what the text consists of], see module Document
  Sources,       \* what is parsed: "file", "param"
  StatFails      \* whether fstat may fail

ASSUME ConfTokenAssumption ==
  /\ CW_CONF_BUFFER \in Nat \ {0}
  /\ \A d \in Documents : d.text \in Seq(Char)
  /\ Sources \subseteq {"file", "param"}
  /\ StatFails \in BOOLEAN

VARIABLES
  doc,          \* the document that the file was cut from
  source,       \* what is parsed; for "param" file.fd is CW_INVALID_FILE
  file,         \* its contents
  size,         \* st_size of the file, as far as fstat was able to tell
  offset,       \* file.offset: characters read into the buffer so far
  buf,          \* the buffer
  pos,          \* b->pos
  start         \* where the word begins that is being read

input  == <<doc, source, file, size>>
window == <<offset, buf>>
vars   == <<input, window, pos, start, token>>

----------------------------------------------------------------------------
ReadToken == Begin /\ start' = pos /\ UNCHANGED <<input, window, pos>>

(***************************************************************************)
(* The buffer is used up.                                                  *)
(***************************************************************************)
UsedUp == rc = "reading" /\ pos >= Len(buf)

EndOfFile ==
  /\ UsedUp
  /\ offset >= size
  /\ AtEnd
  /\ UNCHANGED <<input, window, pos, start>>

len == pos - start

\* Fault: a full buffer is not noticed.
TooLong_ignored == FALSE

\* Fault: a byte is kept for the NUL behind the word.
TooLong_early == len >= CW_CONF_BUFFER - 1

TooLong == len = CW_CONF_BUFFER

LongParameter ==
  /\ UsedUp
  /\ offset < size
  /\ TooLong
  /\ TooLarge
  /\ UNCHANGED <<input, window, pos, start>>

\* Fault: the word that stays in the buffer is forgotten.
Wanted_whole == IF size - offset > CW_CONF_BUFFER THEN CW_CONF_BUFFER ELSE size - offset

\* How much is asked for: the rest of the file, or what there is room for.
Wanted == LET room == CW_CONF_BUFFER - len
          IN  IF size - offset > room THEN room ELSE size - offset

\* Fault: the word that is being read is not moved to the front.
Moved_lost == <<>>

\* What is moved to the front of the buffer: the word that is being read.
Moved == SubSeq(buf, start + 1, pos)

\* Fault: start still points to where the word was.
Refill_stale ==
  /\ UsedUp
  /\ offset < size
  /\ ~TooLong
  /\ offset + Wanted <= Len(file)
  /\ buf' = Moved \o SubSeq(file, offset + 1, offset + Wanted)
  /\ offset' = offset + Wanted
  /\ pos' = Len(Moved)
  /\ UNCHANGED <<input, start, token>>

Refill ==
  /\ UsedUp
  /\ offset < size
  /\ ~TooLong
  /\ offset + Wanted <= Len(file)
  /\ buf' = Moved \o SubSeq(file, offset + 1, offset + Wanted)
  /\ offset' = offset + Wanted
  /\ pos' = Len(Moved)
  /\ start' = 0
  /\ UNCHANGED <<input, token>>

\* The read fails, or returns less than was asked for.
ReadFails ==
  /\ UsedUp
  /\ offset < size
  /\ ~TooLong
  /\ Stops("read")
  /\ UNCHANGED <<input, window, pos, start>>

----------------------------------------------------------------------------
(***************************************************************************)
(* One character, and where start points afterwards.                       *)
(***************************************************************************)
ch == buf[pos + 1]

\* ch = *b->pos++
GetChar ==
  /\ rc = "reading"
  /\ pos < Len(buf)
  /\ pos' = pos + 1
  /\ UNCHANGED <<input, window>>

Scan        == GetChar /\ Stays(ch, SubSeq(buf, start + 1, pos + 1)) /\ UNCHANGED start
ScanStart   == GetChar /\ Starts(ch) /\ start' = pos
ScanQuote   == GetChar /\ StartsBehind(ch) /\ start' = pos + 1
ScanNoSpace == GetChar /\ NoMemory(ch) /\ UNCHANGED start

----------------------------------------------------------------------------
(***************************************************************************)
(* The parsers set the buffer up: cw_conf_parse with nothing in it,        *)
(* cw_conf_param with the parameter in it and no file behind it.  The file *)
(* may be cut anywhere: whoever wrote it may have been interrupted.        *)
(***************************************************************************)
Init ==
  /\ doc \in Documents
  /\ \E cut \in 0 .. Len(doc.text) : file = SubSeq(doc.text, 1, cut)
  /\ source \in Sources
  /\ IF source = "file"
       THEN /\ buf = <<>>
            /\ size \in IF StatFails THEN 0 .. Len(file) + 1 ELSE {Len(file)}
            /\ TokenInit(1)
       ELSE file # <<>> /\ buf = file /\ size = 0 /\ TokenInit(0)
  /\ offset = 0 /\ pos = 0 /\ start = 0

Progress ==
  \/ ReadToken \/ EndOfFile \/ LongParameter \/ Refill
  \/ Scan \/ ScanStart \/ ScanQuote

Next == Progress \/ ReadFails \/ ScanNoSpace

Spec == Init /\ [][Next]_vars

\* The parser runs on; nothing needs to fail.
FairSpec == Spec /\ WF_vars(Progress)

----------------------------------------------------------------------------
(***************************************************************************)
(* Properties.                                                             *)
(***************************************************************************)

\* The variables have their types and the pointers into the buffer keep their
\* order.
TypeOK ==
  /\ TokenTypeOK
  /\ buf \in Seq(Char)
  /\ offset \in 0 .. size
  /\ pos \in 0 .. Len(buf)
  /\ start \in 0 .. pos

\* Where the buffer begins in the file.
Base == IF source = "param" THEN 0 ELSE offset - Len(buf)

\* However often the rest of a word was moved to the front of the buffer and
\* the file read behind it, the buffer never holds more than it has room for
\* and shows the file as it is.
Window ==
  source = "file" =>
    /\ Len(buf) <= CW_CONF_BUFFER
    /\ Base >= 0 /\ buf = SubSeq(file, Base + 1, offset)

\* The line feeds among the first n characters of the file.
LineFeeds(n) == Cardinality({k \in 1 .. n : file[k] = "lf"})

\* The number of the first line.
FirstLine == IF source = "param" THEN 0 ELSE 1

\* The line counted is the line that the last character is on, through blanks,
\* comments, quotes and escapes; for a parameter that is too long it is the
\* line on which the parameter began.
LineTrue == line = FirstLine + LineFeeds(Base + (IF rc = "long" THEN start ELSE pos))

\* cw_conf_handler looks at the first word of every directive, and takes
\* argument_number[nelts - 1]: there is at least one.
NeverEmpty == \A k \in 1 .. Len(out) : out[k].rc = "block_done" \/ out[k].args # <<>>

(***************************************************************************)
(* What the four need to be inductive.                                     *)
(***************************************************************************)

\* What is parsed, and where it is: a parameter is in the buffer from the
\* beginning and nothing is read behind it.
Given ==
  /\ file \in Seq(Char)
  /\ source \in {"file", "param"}
  /\ size \in Nat
  /\ offset <= Len(file)
  /\ source = "param" => buf = file /\ size = 0 /\ offset = 0
  /\ source = "file" /\ ~StatFails => size = Len(file)

\* start_line is the line that start is on.
StartLineTrue == rc # "none" => start_line = FirstLine + LineFeeds(Base + start)

\* A blank is needed only behind a word.
NeedBehindWord ==
  /\ mode = "need" => args # <<>>
  /\ out \in Seq([rc : {"ok", "block", "block_done"}, args : Seq(Seq(Char))])

IndInv ==
  TypeOK /\ Given /\ Window /\ LineTrue /\ StartLineTrue /\ NeedBehindWord /\ NeverEmpty

\* What is returned is what was written, word by word: no character of a
\* word is lost, doubled or taken from elsewhere when the buffer is refilled
\* in the middle of it, and a file that ends too early adds nothing.
Faithful == IsPrefix(out, doc.says)

\* CW_CONF_FILE_DONE is returned only when every directive was: a file that
\* was cut in the middle of a directive is an error.
NothingLost ==
  rc = "file_done" =>
    \A k \in 1 .. Len(doc.says) :
      IF doc.spans[k][2] <= Len(file) THEN k <= Len(out) ELSE Len(file) < doc.spans[k][1]

\* A file that is not cut is never rejected for what is written in it,
\* wherever the buffer happens to end.
ValidAccepted == rc = "syntax" => Len(file) < Len(doc.text)

(***************************************************************************)
(* What the three need to be inductive: of every character of a document   *)
(* the parser knows what it is.                                            *)
(***************************************************************************)
Pieces == doc.pieces

\* The place in the file, and where the word begins there.
At     == Base + pos
WordAt == Base + start

\* The file is the document, or its beginning.
Cut == Len(file) <= Len(doc.text) /\ \A p \in 1 .. Len(file) : file[p] = doc.text[p]

\* n directives were returned; w words of the next one were read.
Told(n) == Len(out) = n /\ n <= Len(doc.says) /\ \A k \in 1 .. n : out[k] = doc.says[k]
Heard(n, w) ==
  Told(n) /\ Len(args) = w /\ \A k \in 1 .. w : args[k] = doc.says[n + 1].args[k]

\* Everything up to piece q was read and it ends a directive, or nothing was.
Ended(q) ==
  \/ q = 0 /\ At = 0 /\ Told(0)
  \/ q \in 1 .. Len(Pieces) /\ Pieces[q].is = "end" /\ At = Pieces[q].hi /\ Told(Pieces[q].dir)

Outside(m) == mode = m /\ ~quoted /\ ~variable

InGap(x) ==
  /\ x.is = "gap" /\ At \in x.lo .. x.hi
  /\ Outside("space") /\ (sharp_comment <=> Commented(doc, x.lo, At))
  /\ Heard(x.dir - 1, x.words)

\* The parser is before letter i, or in it behind the backslash.
BeforeLetter(x, i) == i \in 1 .. Len(x.from) /\ At + 1 = x.from[i] /\ ~quoted
InLetter(x, i) ==
  i \in 1 .. Len(x.from) - 1 /\ At = x.from[i] /\ At + 2 = x.from[i + 1] /\ quoted

WithinWord(x) ==
  /\ x.is = "word" /\ At >= x.lo
  /\ mode = x.style /\ ~sharp_comment
  /\ x.style = "word" /\ variable => doc.text[At] = "$"
  /\ WordAt + 1 = x.from[1]
  /\ \E i \in 1 .. Len(x.from) : BeforeLetter(x, i) \/ InLetter(x, i)
  /\ Heard(x.dir - 1, x.words)

BehindQuote(x) ==
  /\ x.is = "word" /\ x.style # "word" /\ At = x.hi
  /\ Outside("need") /\ ~sharp_comment
  /\ Heard(x.dir - 1, x.words + 1)

\* However the refills fall, of every character that cw_conf_read_token reads it
\* knows which piece of the document it is in: its flags say where it is, its
\* words are those before it, and it has returned the directives before these.
Understood ==
  /\ IsWritten(doc) /\ Cut
  /\ \E n \in 0 .. Len(doc.says) : Told(n)
  /\ rc \in {"none", "ok", "block", "block_done"} => \E q \in 0 .. Len(Pieces) : Ended(q)
  /\ rc = "reading" =>
       \/ \E q \in 0 .. Len(Pieces) :
            Ended(q) /\ Outside("space") /\ ~sharp_comment /\ args = <<>>
       \/ \E q \in 1 .. Len(Pieces) :
            InGap(Pieces[q]) \/ WithinWord(Pieces[q]) \/ BehindQuote(Pieces[q])
  /\ NothingLost /\ ValidAccepted

\* The parser comes to an end: it never waits for a full buffer to be filled.
Terminates == <>(rc \in Errors \cup {"file_done"})

\* "CW_CONF_FILE_DONE  the configuration file is done".
FileDoneMeansDone == rc = "file_done" /\ source = "file" => offset = Len(file)

\* What the buffer is for: the parser reads the file as if there were none.
\* Positions in the buffer are positions in the file from Base on.
Unbuffered == INSTANCE Scanner WITH
  at <- Base + pos, begin <- Base + start, Limit <- CW_CONF_BUFFER

\* However the refills fall, in the middle of a word, a quote, an escape or a
\* comment, the buffered parser returns the directives, the errors and the
\* lines that a parser would that has the whole file before it; a parameter
\* is too long exactly if it has CW_CONF_BUFFER characters in the file.
AsIfUnbuffered == Unbuffered!Spec

=============================================================================
