---------------------------- MODULE MCListening ----------------------------
(***************************************************************************)
(* Instances of Listening for TLC.                                         *)
(***************************************************************************)
EXTENDS Listening

Entry(type, ignore, fd) == [type |-> type, ignore |-> ignore, fd |-> fd, listen |-> FALSE]

\* Every list of up to three entries, where the second may be inherited.
UpToThree ==
  {SubSeq(<<Entry(t1, ig1, -1), Entry(t2, ig2, fd2), Entry(t3, FALSE, -1)>>, 1, n) :
     t1 \in {"stream", "dgram"}, t2 \in {"stream", "dgram"}, t3 \in {"stream", "dgram"},
     ig1 \in BOOLEAN, ig2 \in BOOLEAN, fd2 \in {-1, 3}, n \in 0 .. 3}

=============================================================================
