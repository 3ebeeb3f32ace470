---------------------------- MODULE MCGenerator ----------------------------
(***************************************************************************)
(* Header files for TLC.                                                   *)
(***************************************************************************)
EXTENDS Generator

Decl(match, key, value, len) ==
  [match |-> match, key |-> key, value |-> value, len |-> len, comment |-> FALSE]

Struct(name) == Decl("typedef", "", name, 0)
End          == Decl("end", "", "", 0)
Remark       == [Decl("none", "", "", 0) EXCEPT !.comment = TRUE]
Blank        == Decl("none", "", "", 0)

Cnt  == Decl("value", "uint16_t", "cnt", 0)
Succ == Decl("pointer", "sta_t", "next", 0)

\* Members that may come first, and those that may not.
First == {Decl("value", "uint8_t", "radio", 0), Decl("pointer", "sta_t", "sta", 0),
          Decl("bitset", "", "flag", 0), Decl("ETH_ALEN", "uint8_t", "macAddr", 0)}
Other == {Decl("array", "uint8_t", "rates", 0), Decl("array", "char", "sn", 36),
          Decl("array", "uint8_t", "slct", 8),
          Decl("macLen", "uint8_t", "macAddr", 0), Decl("kLen", "uint8_t", "key", 0)}

\* Structures of up to three members, and elements of a list.
Plain(name) == {<<Struct(name), a>> \o m \o <<End>> :
                  a \in First,
                  m \in {<<>>} \cup {<<b>> : b \in First \cup Other}
                        \cup {<<b, Remark, c>> : b, c \in First \cup Other \cup {Cnt}}}
Lists(name) == {<<Struct(name), Cnt>> \o m \o <<Succ, End>> :
                  m \in {<<>>} \cup {<<b>> : b \in First \cup Other}}

\* Two structures, one of each kind, in either order.
TwoStructs == {a \o <<Blank>> \o b : a \in Plain("vap"), b \in Lists("sta")}
              \cup {a \o b : a \in Lists("sta"), b \in Plain("vap")}

\* Files that are not Structured, or that have members of unknown types or lengths.
CntPtr  == Decl("pointer", "uint16_t", "cnt", 0)
Dropped == Decl("array", "uint8_t", "data", 0)
Strange == Decl("value", "float", "gain", 0)
Bodies  == {<<a>> \o b : a \in First \cup {Cnt, CntPtr, Succ, Dropped, Strange},
                        b \in {<<>>} \cup {<<c>> : c \in {Cnt, CntPtr, Succ, Dropped, Strange, End}}}
Others  == {<<Struct("vap")>> \o b \o <<End>> : b \in Bodies}
           \cup {b \o <<Struct("vap")>> \o b \o <<Struct("sta"), Cnt, Succ, End>> : b \in Bodies}

AnyHead == TwoStructs \cup Others

Tags == [sta_t |-> "sta"]

Tops == <<"sta", "vap">>

=============================================================================
