------------------------------ MODULE Document ------------------------------
(***************************************************************************)
(* What a configuration file says, told from how it is written and not     *)
(* from how it is read.  The repository has no grammar of the files that   *)
(* cw_conf_read_token reads; this one is of those that it is meant for.    *)
(*                                                                         *)
(* A document has the text, the directives that it says and the pieces     *)
(* that the text consists of: gaps, words, and the characters that end a   *)
(* directive.  A piece is the characters from lo to hi; dir is the         *)
(* directive that it belongs to or that is the next one, words the number  *)
(* of words of it before the piece.  A word is quoted or, if its style is  *)
(* "word", not; from says where the spelling of each of its letters        *)
(* begins, and where that of the last one ends.                            *)
(***************************************************************************)
EXTENDS Token

\* A comment goes to the end of the line.
Commented(d, lo, p) ==
  \E q \in lo .. p : d.text[q] = "#" /\ \A r \in q .. p : d.text[r] # "lf"

IsGap(d, x) == \A p \in x.lo .. x.hi : d.text[p] \in Blank \/ Commented(d, x.lo, p)

----------------------------------------------------------------------------
\* The word that is written at x.
Value(d, x) == d.says[x.dir].args[x.words + 1]

\* What is not written in a word as it is.
Special(style) == {"bs"} \cup (IF style = "word" THEN Blank \cup {";", "{"} ELSE {style})

\* A letter stands for itself, or is written with a backslash.
IsLetter(d, x, i) ==
  LET p == x.from[i]
      v == Value(d, x)[i]
  IN  \/ x.from[i + 1] = p + 1 /\ d.text[p] = v /\ v \notin Special(x.style)
      \/ /\ x.from[i + 1] = p + 2
         /\ d.text[p] = "bs" /\ d.text[p + 1] \in DOMAIN Escape /\ v = Escape[d.text[p + 1]]

\* The letters are those between the quotes, if there are quotes.
IsSpelt(d, x, quote) ==
  /\ x.from \in Seq(Nat) /\ Len(x.from) = Len(Value(d, x)) + 1
  /\ x.from[1] = x.lo + quote
  /\ x.from[Len(x.from)] = x.hi + 1 - quote
  /\ \A i \in 1 .. Len(Value(d, x)) : IsLetter(d, x, i)

IsWord(d, x) ==
  /\ x.dir <= Len(d.says) /\ x.words < Len(d.says[x.dir].args)
  /\ \/ /\ x.style = "word"
        /\ IsSpelt(d, x, 0)
        /\ d.text[x.lo] \notin {"}", "#", "dq", "sq"}
     \/ /\ x.style \in {"dq", "sq"}
        /\ IsSpelt(d, x, 1)
        /\ x.lo < x.hi /\ d.text[x.lo] = x.style /\ d.text[x.hi] = x.style

----------------------------------------------------------------------------
\* The end of a directive: it has words, but for the end of a block.
Delimiters == [c \in {";", "{", "}"} |->
                 CASE c = ";" -> "ok" [] c = "{" -> "block" [] c = "}" -> "block_done"]

IsEnd(d, x) ==
  /\ x.lo = x.hi /\ d.text[x.lo] \in DOMAIN Delimiters
  /\ x.dir <= Len(d.says)
  /\ d.says[x.dir].rc = Delimiters[d.text[x.lo]]
  /\ Len(d.says[x.dir].args) = x.words
  /\ d.text[x.lo] = "}" <=> x.words = 0

IsPiece(d, x) ==
  /\ {x.lo, x.hi, x.dir, x.words} \subseteq Nat
  /\ 1 <= x.lo /\ x.lo <= x.hi /\ x.hi <= Len(d.text) /\ 1 <= x.dir
  /\ \/ x.is = "gap" /\ IsGap(d, x)
     \/ x.is = "word" /\ IsWord(d, x)
     \/ x.is = "end" /\ IsEnd(d, x)

----------------------------------------------------------------------------
\* How a document begins and ends, and what may stand behind a piece: behind a
\* word a blank or the end of the directive, where "{" is not taken for a part
\* of "${"; behind a comment a new line.
IsFirst(x) == x.lo = 1 /\ x.dir = 1 /\ x.words = 0
IsLast(d, x) == x.hi = Len(d.text) /\ (x.is = "end" \/ (x.is = "gap" /\ x.words = 0))

Behind(d, x, y) ==
  /\ y.lo = x.hi + 1
  /\ CASE x.is = "gap" ->
            /\ y.is \in {"word", "end"} /\ y.dir = x.dir /\ y.words = x.words
            /\ ~Commented(d, x.lo, x.hi)
       [] x.is = "word" ->
            /\ y.is \in {"gap", "end"} /\ y.dir = x.dir /\ y.words = x.words + 1
            /\ y.is = "gap" => d.text[y.lo] \in Blank
            /\ x.style = "word" /\ d.text[x.hi] = "$" => d.text[y.lo] # "{"
       [] x.is = "end" ->
            y.is \in {"gap", "word", "end"} /\ y.dir = x.dir + 1 /\ y.words = 0

\* Directive k is written from the first piece of it to its end.
IsSpan(d, k) ==
  \E i, j \in 1 .. Len(d.pieces) :
    /\ d.pieces[i].is # "gap" /\ d.pieces[i].dir = k /\ d.pieces[i].words = 0
    /\ d.pieces[j].is = "end" /\ d.pieces[j].dir = k
    /\ d.spans[k] = <<d.pieces[i].lo, d.pieces[j].hi>>

\* The document says what is written.
IsWritten(d) ==
  /\ d.text \in Seq(Char)
  /\ d.says \in Seq([rc : {"ok", "block", "block_done"}, args : Seq(Seq(Char))])
  /\ d.pieces \in Seq(Range(d.pieces))
  /\ d.pieces = <<>> => d.text = <<>>
  /\ d.pieces # <<>> => IsFirst(d.pieces[1]) /\ IsLast(d, d.pieces[Len(d.pieces)])
  /\ \A q \in 1 .. Len(d.pieces) : IsPiece(d, d.pieces[q])
  /\ \A q \in 1 .. Len(d.pieces) - 1 : Behind(d, d.pieces[q], d.pieces[q + 1])
  /\ \A k \in 1 .. Len(d.says) : IsSpan(d, k)

=============================================================================
