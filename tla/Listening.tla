----------------------------- MODULE Listening -----------------------------
(***************************************************************************)
(* cw_open_listening_sockets of src/core/cw_connection.c: one socket for   *)
(* every entry of cycle->listening that has none yet.  Any call to the     *)
(* kernel may fail, and an address may turn out to be in use when it is    *)
(* bound and, another program having been faster, when it is listened on.  *)
(***************************************************************************)
EXTENDS Integers, Sequences

CONSTANTS
  Entries,       \* the values cycle->listening may have: a set of sequences of
                 \* [type, ignore, fd, listen], where fd is -1 or inherited
  Descriptors    \* descriptors the kernel may give

\* cw_listening_t.
Listener == [type : {"stream", "dgram"}, ignore : BOOLEAN,
             fd : {-1} \cup Descriptors, listen : BOOLEAN]

\* Nothing but the loop below sets listen.
ASSUME ListeningAssumption ==
  /\ Entries \subseteq Seq(Listener)
  /\ \A e \in Entries : \A k, n \in 1 .. Len(e) :
       /\ ~e[k].listen
       /\ k # n /\ e[k].fd # -1 => e[k].fd # e[n].fd
  /\ Descriptors \subseteq Nat

VARIABLES
  ls,         \* cycle->listening
  i,          \* the entry that the loop is at
  s,          \* the socket at hand, -1 if there is none
  sock,       \* the open sockets: how far each one has been set up
  in_use,     \* the entries whose address was in use
  rc          \* "running", "CW_OK" or "CW_ERROR"

vars == <<ls, i, s, sock, in_use, rc>>

Loop  == i' = i + 1 /\ s' = -1 /\ UNCHANGED rc
Fails == rc' = "CW_ERROR" /\ s' = -1 /\ UNCHANGED i

Running == rc = "running" /\ i <= Len(ls)

\* The socket at hand has been set up so far.
Is(step) == Running /\ s # -1 /\ sock[s] = step
Now(step) == sock' = [sock EXCEPT ![s] = step] /\ UNCHANGED in_use

\* close(s), which gives the descriptor back even when it fails.
Closed == [d \in DOMAIN sock \ {s} |-> sock[d]]

----------------------------------------------------------------------------
Skipped(k) == ls[k].ignore \/ ls[k].fd # -1

Skip ==
  /\ Running /\ s = -1
  /\ Skipped(i)
  /\ Loop
  /\ UNCHANGED <<ls, sock, in_use>>

\* Fault: the loop goes on without the socket.
SocketFails_continue ==
  /\ Running /\ s = -1
  /\ ~Skipped(i)
  /\ Loop
  /\ UNCHANGED <<ls, sock, in_use>>

SocketFails ==
  /\ Running /\ s = -1
  /\ ~Skipped(i)
  /\ Fails
  /\ UNCHANGED <<ls, sock, in_use>>

Socket ==
  /\ Running /\ s = -1
  /\ ~Skipped(i)
  /\ \E d \in Descriptors \ DOMAIN sock :
       /\ s' = d
       /\ sock' = [f \in DOMAIN sock \cup {d} |-> IF f = d THEN "new" ELSE sock[f]]
  /\ UNCHANGED <<ls, i, in_use, rc>>

\* setsockopt or cw_nonblocking fails.
OptionsFail ==
  /\ Is("new")
  /\ sock' = Closed
  /\ Fails
  /\ UNCHANGED <<ls, in_use>>

Options ==
  /\ Is("new")
  /\ Now("nonblocking")
  /\ UNCHANGED <<ls, i, s, rc>>

\* Fault: the socket is closed only when the address is not in use.
Refused_open ==
  /\ UNCHANGED ls
  /\ \/ in_use' = in_use \cup {i} /\ Loop /\ UNCHANGED sock
     \/ UNCHANGED in_use /\ Fails /\ sock' = Closed

\* The socket is closed; that the address is in use is no error.
Refused ==
  /\ UNCHANGED ls
  /\ sock' = Closed
  /\ \/ in_use' = in_use \cup {i} /\ Loop
     \/ UNCHANGED in_use /\ Fails

BindFails == Is("nonblocking") /\ Refused

\* Fault: the socket is taken as ready before listen.
Bind_early ==
  /\ Is("nonblocking")
  /\ Now("bound")
  /\ ls' = [ls EXCEPT ![i].fd = s]
  /\ Loop

Bind ==
  /\ Is("nonblocking")
  /\ Now("bound")
  /\ IF ls[i].type # "stream"
       THEN ls' = [ls EXCEPT ![i].fd = s] /\ Loop
       ELSE UNCHANGED <<ls, i, s, rc>>

ListenFails == Is("bound") /\ Refused

Listen ==
  /\ Is("bound")
  /\ Now("listening")
  /\ ls' = [ls EXCEPT ![i] = [@ EXCEPT !.fd = s, !.listen = TRUE]]
  /\ Loop

Done ==
  /\ rc = "running"
  /\ i > Len(ls)
  /\ rc' = "CW_OK"
  /\ UNCHANGED <<ls, i, s, sock, in_use>>

----------------------------------------------------------------------------
Inherited(e) == {e[k].fd : k \in 1 .. Len(e)} \ {-1}

Init ==
  /\ ls \in Entries
  /\ i = 1 /\ s = -1
  /\ sock = [d \in Inherited(ls) |-> "inherited"]
  /\ in_use = {}
  /\ rc = "running"

Next ==
  \/ Skip \/ SocketFails \/ Socket \/ OptionsFail \/ Options
  \/ BindFails \/ Bind \/ ListenFails \/ Listen \/ Done

Spec == Init /\ [][Next]_vars

----------------------------------------------------------------------------
(***************************************************************************)
(* Properties.                                                             *)
(***************************************************************************)

\* Whatever fails, every open socket is the one at hand or the socket of
\* exactly one entry, and those sockets are open: none is lost on a path that
\* gives an address up, and none is closed that an entry still has.
SocketsAccounted ==
  /\ DOMAIN sock = (Inherited(ls) \cup {s}) \ {-1}
  /\ \A k, n \in 1 .. Len(ls) : k # n /\ ls[k].fd # -1 => ls[k].fd # ls[n].fd
  /\ \A k \in 1 .. Len(ls) : ls[k].fd # -1 => ls[k].fd # s

\* The socket of an entry can be used: it listens if it is a stream, and the
\* entry's listen flag says so.
Ready ==
  \A k \in 1 .. Len(ls) : ls[k].fd # -1 =>
    sock[ls[k].fd] \in (IF ls[k].listen THEN {"listening"}
                        ELSE IF ls[k].type = "dgram" THEN {"bound", "inherited"}
                        ELSE {"inherited"})

\* CW_OK means that every entry has its socket, except those to be ignored
\* and those whose address is in use.
NoneForgotten ==
  rc = "CW_OK" => \A k \in 1 .. Len(ls) : ls[k].ignore \/ ls[k].fd # -1 \/ k \in in_use

----------------------------------------------------------------------------
(***************************************************************************)
(* The inductive invariant behind these properties.                        *)
(***************************************************************************)

\* The variables have their types: every open socket has a stage.
Typed ==
  /\ ls \in Seq(Listener) /\ i \in 1 .. Len(ls) + 1
  /\ s \in {-1} \cup Descriptors
  /\ sock \in [DOMAIN sock -> {"inherited", "new", "nonblocking", "bound", "listening"}]
  /\ rc \in {"running", "CW_OK", "CW_ERROR"}

\* The socket at hand is being set up for the entry the loop is at, which has
\* none; only a stream is still at hand once it is bound.
AtHand ==
  s # -1 =>
    /\ Running /\ ~Skipped(i)
    /\ sock[s] \in {"new", "nonblocking", "bound"}
    /\ sock[s] = "bound" => ls[i].type = "stream"

\* The entries behind the loop are settled, those ahead as they were.
Progress ==
  /\ \A k \in 1 .. i - 1 : Skipped(k) \/ k \in in_use
  /\ \A k \in i .. Len(ls) : ~ls[k].listen
  /\ rc = "CW_OK" => i > Len(ls)

IndInv == Typed /\ SocketsAccounted /\ Ready /\ AtHand /\ Progress

=============================================================================
