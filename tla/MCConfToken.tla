---------------------------- MODULE MCConfToken ----------------------------
(***************************************************************************)
(* Configuration files for TLC.                                            *)
(***************************************************************************)
EXTENDS ConfToken

(***************************************************************************)
(* Every short text.                                                       *)
(***************************************************************************)
Text(s) == [text |-> s, says |-> <<>>, spans |-> <<>>, pieces |-> <<>>]

ShortTexts ==
  {Text(s) : s \in [1 .. 3 -> Char]}
    \cup {Text(s) : s \in [1 .. 5 -> {"a", "lf", "dq", "bs", ";"}]}
    \cup {Text(s) : s \in [1 .. 5 -> {"a", "lf", "#", "$", "{"}]}

(***************************************************************************)
(* Directives written down: a word may be bare or quoted, and a backslash  *)
(* stands before the characters that need one.                             *)
(***************************************************************************)
Escaped(c) == CASE c \in {"dq", "sq", "bs"} -> <<"bs", c>>
                [] c = "lf" -> <<"bs", "n">>
                [] OTHER -> <<c>>

Letters(w) == [k \in 1 .. Len(w) |-> Escaped(w[k])]

Spell(w, style) ==
  IF style = "word" THEN FlattenSeq(Letters(w))
                    ELSE <<style>> \o FlattenSeq(Letters(w)) \o <<style>>

Bare   == {<<"a", "t">>, <<"$", ")">>, <<"bs", "dq", "a">>, <<"lf", "}", "#">>}
Quoted == {<<>>, <<"a", "sp", "dq">>, <<"sq", ";", "bs">>, <<"$", "{", "n">>, <<"#", "lf">>}
Spelt  == (Bare \X {"word"}) \cup (Quoted \X {"dq", "sq"})

Gaps == {<<"sp">>, <<"lf", "#", "a", ";", "lf">>}
Ends == {<<";", "ok">>, <<"{", "block">>}

\* The pieces of a document, at their places.
Piece(is, lo, hi, dir, words, style, from) ==
  [is |-> is, lo |-> lo, hi |-> hi, dir |-> dir, words |-> words, style |-> style, from |-> from]

Gap(lo, hi, dir, words) == Piece("gap", lo, hi, dir, words, "", <<>>)
End(lo, dir, words)     == Piece("end", lo, lo, dir, words, "", <<>>)

Word(lo, w, style, dir, words) ==
  LET begin == IF style = "word" THEN lo ELSE lo + 1
      From(i) == begin + Len(FlattenSeq(SubSeq(Letters(w), 1, i - 1)))
  IN  Piece("word", lo, lo + Len(Spell(w, style)) - 1, dir, words, style,
            [i \in 1 .. Len(w) + 1 |-> From(i)])

\* One directive and what stands behind it.
Directive(w, v, gap, e, tail) ==
  LET first == gap \o Spell(w[1], w[2]) \o gap \o Spell(v[1], v[2]) \o <<e[1]>>
      t     == IF tail = "}" THEN <<"sp", "}">> ELSE <<"a", ";">>
      n     == Len(first)
      word1 == Word(Len(gap) + 1, w[1], w[2], 1, 0)
      word2 == Word(word1.hi + Len(gap) + 1, v[1], v[2], 1, 1)
  IN  [text   |-> first \o t,
       says   |-> <<[rc |-> e[2], args |-> <<w[1], v[1]>>],
                    IF tail = "}" THEN [rc |-> "block_done", args |-> <<>>]
                                  ELSE [rc |-> "ok", args |-> <<<<"a">>>>]>>,
       spans  |-> <<<<Len(gap) + 1, n>>, <<IF tail = "}" THEN n + 2 ELSE n + 1, n + 2>>>>,
       pieces |-> <<Gap(1, Len(gap), 1, 0), word1, Gap(word1.hi + 1, word1.hi + Len(gap), 1, 1),
                    word2, End(n, 1, 2)>>
                  \o IF tail = "}" THEN <<Gap(n + 1, n + 1, 2, 0), End(n + 2, 2, 0)>>
                     ELSE <<Word(n + 1, <<"a">>, "word", 2, 0), End(n + 2, 2, 1)>>]

WrittenFiles ==
  {Directive(w, v, gap, e, tail) :
     w \in Spelt, v \in Spelt, gap \in Gaps, e \in Ends, tail \in {"}", "a"}}

\* They say what is written.
ASSUME WrittenAssumption == \A d \in WrittenFiles : IsWritten(d)

=============================================================================
