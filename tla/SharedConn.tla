----------------------------- MODULE SharedConn -----------------------------
(***************************************************************************)
(* What the connection pool in its single mode promises its clients         *)
(* (dns/transport/conn_pool.go): there is at most one current connection,   *)
(* clients are given that one and no other, and while it is current the     *)
(* pool does not close it.  Generations, waiters, counters and contexts do  *)
(* not appear here.                                                         *)
(***************************************************************************)
CONSTANTS Clients, Conns, NoConn

VARIABLES
    phase,      \* each connection is new, then current, then retired
    open,       \* connections that were dialed and are not closed
    held        \* the connection each client was given

vars == <<phase, open, held>>

Init ==
    /\ phase = [c \in Conns |-> "new"]
    /\ open = {}
    /\ held = [k \in Clients |-> NoConn]

Current == {c \in Conns : phase[c] = "current"}

Enter(c, where) == phase' = [phase EXCEPT ![c] = where]

\* A dial succeeds.
Dialed(c) ==
    /\ phase[c] = "new"
    /\ open' = open \cup {c}
    /\ UNCHANGED <<phase, held>>

\* A connection becomes the current one; never two at a time, nor one twice.
Install(c) ==
    /\ phase[c] = "new" /\ c \in open
    /\ Current = {}
    /\ Enter(c, "current")
    /\ UNCHANGED <<open, held>>

\* A dial failed or came too late.
Discard(c) ==
    /\ phase[c] = "new"
    /\ Enter(c, "retired")
    /\ UNCHANGED <<open, held>>

\* A client is given the current connection, which is open.
Hand(k, c) ==
    /\ phase[c] = "current" /\ c \in open
    /\ held[k] = NoConn
    /\ held' = [held EXCEPT ![k] = c]
    /\ UNCHANGED <<phase, open>>

\* The current connection is retired and closed, or left open to be closed
\* later (Reset, Close).
Retire(c) ==
    /\ phase[c] = "current"
    /\ Enter(c, "retired")
    /\ open' \in {open, open \ {c}}

\* A connection is closed that is not, or not yet, the current one.
CloseOther(c) ==
    /\ phase[c] # "current"
    /\ open' = open \ {c}
    /\ UNCHANGED phase

\* A client gives up the connection it holds, which may retire or close it.
GiveBack(k, c) ==
    /\ held[k] = c
    /\ held' = [held EXCEPT ![k] = NoConn]
    /\ UNCHANGED <<phase, open>> \/ Retire(c) \/ CloseOther(c)

Next ==
    \E c \in Conns :
        \/ Dialed(c) \/ Install(c) \/ Discard(c)
        \/ UNCHANGED held /\ (Retire(c) \/ CloseOther(c))
        \/ \E k \in Clients : Hand(k, c) \/ GiveBack(k, c)

\* Most steps of an implementation are stuttering steps: written first, they are
\* cheap to check.
Spec == Init /\ [][UNCHANGED vars \/ Next]_vars

=============================================================================
