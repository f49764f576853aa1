----------------------------- MODULE ConnManager -----------------------------
(***************************************************************************)
(* The connection manager (route/conn.go, route/splice.go): a connection     *)
(* from an inbound is dialled, spliced in the stack if both ends allow it,   *)
(* or copied by two goroutines, and ends exactly once, while CloseAll may    *)
(* close the dialled sockets at any moment.                                  *)
(*                                                                         *)
(* A dialled socket is wrapped in a trackedConn, whose socketOwner lets the  *)
(* splice of the tun stack (a library) take the raw socket over.  What is    *)
(* copied is left out: a copy ends at the end of its source, with an error,  *)
(* or because its source has been closed.                                    *)
(***************************************************************************)
EXTENDS Naturals, FiniteSets

CONSTANTS Connections

Kinds == {"tcp", "tls", "udp"}   \* "tls": with tls_fragment or tls_spoof
Directions == {"up", "down"}     \* from the inbound to the dialled socket, and back

VARIABLES
    conn,       \* the connections
    connections,\* ConnectionManager.connections
    closers     \* what the running calls of CloseAll have still to close

vars == <<conn, connections, closers>>

NewConn == [kind |-> "tcp",
            pc |-> "idle",          \* where NewConnection or NewPacketConnection is
            inbound |-> "open",     \* the inbound's connection
            socket |-> "none",      \* the raw socket that was dialled
            closed |-> FALSE,       \* socketOwner.closed
            owner |-> FALSE,        \* socketOwner.owner # nil: the splice
            asked |-> FALSE,        \* the owner has been closed
            copy |-> [d \in Directions |-> "none"],
            done |-> FALSE,
            onClose |-> 0]          \* how often it was called

Init == conn = [c \in Connections |-> NewConn] /\ connections = {} /\ closers = {}

-----------------------------------------------------------------------------
(* What a call does to the record of a connection *)

CloseInbound(r) == [r EXCEPT !.inbound = "closed"]

\* trackedConn.Close after the removal from the list: an owner is asked to
\* close the socket.
CloseTracked(r) ==
    [r EXCEPT !.closed = TRUE, !.asked = @ \/ r.owner,
              !.socket = IF r.owner THEN @ ELSE "closed"]

CloseBoth(r) == CloseTracked(CloseInbound(r))

OnClose(r) == [r EXCEPT !.onClose = @ + 1]

\* Fault: a close while the splice had the socket is forgotten.
DetachOnly(r) == [r EXCEPT !.owner = FALSE, !.asked = FALSE]

\* trackedConn.Detach
Detach(r) ==
    [r EXCEPT !.owner = FALSE, !.asked = FALSE, !.socket = IF r.closed THEN "closed" ELSE @]

Source(r, d) == IF d = "up" THEN r.inbound ELSE r.socket
CloseDestination(r, d) == IF d = "up" THEN CloseTracked(r) ELSE CloseInbound(r)

Become(c, r) == conn' = [conn EXCEPT ![c] = r]
Remove(c) == connections' = connections \ {c}

\* The connection ends here, before anything was copied.
Fail(c, r) ==
    /\ Become(c, [OnClose(CloseBoth(r)) EXCEPT !.pc = "over"])
    /\ Remove(c)
    /\ UNCHANGED closers

Goto(c, r, pc) ==
    /\ Become(c, [r EXCEPT !.pc = pc])
    /\ UNCHANGED <<connections, closers>>

-----------------------------------------------------------------------------
(* NewConnection and NewPacketConnection *)

NewConnection(c, kind) ==
    /\ conn[c].pc = "idle"
    /\ Goto(c, [conn[c] EXCEPT !.kind = kind], "dial")

DialFails(c) ==
    /\ conn[c].pc = "dial"
    /\ Become(c, [OnClose(CloseInbound(conn[c])) EXCEPT !.pc = "over"])
    /\ UNCHANGED <<connections, closers>>

\* The dialer has the socket tracked.
TrackConn(c) ==
    /\ conn[c].pc = "dial"
    /\ Become(c, [conn[c] EXCEPT !.socket = "open", !.pc = "report"])
    /\ connections' = connections \cup {c}
    /\ UNCHANGED closers

ReportHandshake(c) ==
    /\ conn[c].pc = "report"
    /\ Goto(c, conn[c], IF conn[c].kind = "tls" THEN "kick" ELSE "splice")

\* Fault: the dialled socket is left alone.
ReportHandshakeFailsOpen(c) ==
    /\ conn[c].pc = "report"
    /\ Goto(c, OnClose(CloseInbound(conn[c])), "over")

ReportHandshakeFails(c) ==
    /\ conn[c].pc = "report"
    /\ Fail(c, conn[c])

\* Without a splice packets are copied at once; a stream comes to its handshakes.
NotSpliced(r) ==
    IF r.kind = "udp" THEN [r EXCEPT !.pc = "copy", !.copy = [d \in Directions |-> "copying"]]
    ELSE [r EXCEPT !.pc = "kick"]

\* The ends do not allow a splice, or the socket has been closed.
spliceConnection(c) ==
    /\ conn[c].pc = "splice"
    /\ Become(c, NotSpliced(conn[c]))
    /\ UNCHANGED <<connections, closers>>

\* What was read ahead of the splice cannot be written.
spliceWriteFails(c) ==
    /\ conn[c].pc = "splice" /\ conn[c].kind = "tcp"
    /\ Fail(c, conn[c])

Attach(c) ==
    /\ conn[c].pc = "splice"
    /\ ~conn[c].closed /\ ~conn[c].owner
    /\ Goto(c, [conn[c] EXCEPT !.owner = TRUE], "attached")

Splice(c) ==
    /\ conn[c].pc = "attached"
    /\ Goto(c, conn[c], "spliced")

\* The stack gives the socket back.
SpliceFails(c) ==
    /\ conn[c].pc = "attached"
    /\ Become(c, NotSpliced(Detach(conn[c])))
    /\ UNCHANGED <<connections, closers>>

\* The splice ends, was asked to end or has lost one of its ends: it closes the
\* socket and calls spliceClose.
spliceClose(c) ==
    /\ conn[c].pc = "spliced"
    /\ Fail(c, [conn[c] EXCEPT !.socket = "closed"])

\* tlsspoof.NewConn fails, or a handshake that kickWriteHandshake asks for.
kickWriteHandshakeFails(c) ==
    /\ conn[c].pc = "kick"
    /\ Fail(c, [conn[c] EXCEPT !.done = TRUE])

kickWriteHandshake(c) ==
    /\ conn[c].pc = "kick"
    /\ Goto(c, [conn[c] EXCEPT !.copy = [d \in Directions |-> "copying"]], "copy")

-----------------------------------------------------------------------------
(* connectionCopy and packetConnectionCopy *)

Copied(c, d, r) ==
    /\ Become(c, [r EXCEPT !.copy[d] = "copied"])
    /\ IF r.closed THEN Remove(c) ELSE UNCHANGED connections
    /\ UNCHANGED closers

\* The source has come to its end; a stream is closed for writing, or closed
\* if it cannot be.
copyEnds(c, d) ==
    /\ conn[c].copy[d] = "copying"
    /\ Source(conn[c], d) = "open"
    /\ \/ Copied(c, d, conn[c])
       \/ conn[c].kind # "udp" /\ Copied(c, d, CloseDestination(conn[c], d))

\* Fault: the copy ends without closing anything.
copyFailsAlone(c, d) ==
    /\ conn[c].copy[d] = "copying"
    /\ Copied(c, d, conn[c])

\* An error, also of the close for writing.
copyFails(c, d) ==
    /\ conn[c].copy[d] = "copying"
    /\ Copied(c, d, IF conn[c].kind = "udp" THEN conn[c] ELSE CloseBoth(conn[c]))

\* Fault: every copy calls onClose.
copyDoneCalls(c, d) ==
    LET r == [conn[c] EXCEPT !.copy[d] = "ended", !.done = TRUE]
        closes == r.kind = "udp" \/ conn[c].done IN
    /\ conn[c].copy[d] = "copied"
    /\ Become(c, IF closes THEN CloseBoth(OnClose(r)) ELSE OnClose(r))
    /\ IF closes THEN Remove(c) ELSE UNCHANGED connections
    /\ UNCHANGED closers

\* done.Swap: the second of a stream's copies calls onClose and closes both
\* ends, for packets the first one calls it and each closes.
copyDone(c, d) ==
    LET r == [conn[c] EXCEPT !.copy[d] = "ended", !.done = TRUE]
        last == conn[c].done
        called == IF last = (r.kind # "udp") THEN OnClose(r) ELSE r
        closes == r.kind = "udp" \/ last IN
    /\ conn[c].copy[d] = "copied"
    /\ Become(c, IF closes THEN CloseBoth(called) ELSE called)
    /\ IF closes THEN Remove(c) ELSE UNCHANGED connections
    /\ UNCHANGED closers

-----------------------------------------------------------------------------
(* The rest of the program *)

\* Under the lock the list is emptied; the sockets are closed one by one after
\* it, in any order with those of another call.
CloseAll ==
    /\ closers' = closers \cup connections /\ connections' = {}
    /\ UNCHANGED conn

CloseNext(c) ==
    /\ c \in closers
    /\ Become(c, CloseTracked(conn[c]))
    /\ closers' = closers \ {c}
    /\ UNCHANGED connections

\* The client goes away, or an outbound group interrupts the connection.
InboundCloses(c) ==
    /\ conn[c].inbound = "open"
    /\ Become(c, CloseInbound(conn[c]))
    /\ UNCHANGED <<connections, closers>>

-----------------------------------------------------------------------------

SetupStep(c) ==
    \/ DialFails(c) \/ TrackConn(c) \/ ReportHandshake(c) \/ ReportHandshakeFails(c)
    \/ spliceConnection(c) \/ spliceWriteFails(c) \/ Attach(c) \/ Splice(c) \/ SpliceFails(c)
    \/ kickWriteHandshake(c) \/ kickWriteHandshakeFails(c)

CopyStep(c, d) == copyEnds(c, d) \/ copyFails(c, d) \/ copyDone(c, d)

Next ==
    \/ \E c \in Connections, kind \in Kinds : NewConnection(c, kind)
    \/ \E c \in Connections : SetupStep(c) \/ spliceClose(c) \/ CloseNext(c) \/ InboundCloses(c)
    \/ \E c \in Connections, d \in Directions : CopyStep(c, d)
    \/ CloseAll

Spec == Init /\ [][Next]_vars

\* Dials, handshakes and writes come to an end, and so do a read from a closed
\* socket and a splice that has lost an end; a read from an open one need not.
FairSpec ==
    /\ Spec
    /\ \A c \in Connections :
        /\ WF_vars(SetupStep(c))
        /\ WF_vars(CloseNext(c))
        /\ WF_vars(spliceClose(c) /\ (conn[c].asked \/ conn[c].inbound = "closed"))
        /\ \A d \in Directions :
            /\ WF_vars(copyFails(c, d) /\ Source(conn[c], d) = "closed")
            /\ WF_vars(copyDone(c, d))

-----------------------------------------------------------------------------
(* Properties *)

Over(r) == r.pc = "over" \/ \A d \in Directions : r.copy[d] = "ended"

\* Of the many ways a connection ends, each calls onClose, and no two of them
\* do: the inbound and the outbound groups rely on it to forget the connection.
OnCloseOnce ==
    \A c \in Connections : conn[c].onClose <= 1 /\ (Over(conn[c]) => conn[c].onClose = 1)

\* A connection that is over has both ends closed and is not in the list,
\* also when the socket went to the splice or came back from it.
NothingLeft ==
    \A c \in Connections : Over(conn[c]) =>
        conn[c].inbound = "closed" /\ conn[c].socket # "open" /\ c \notin connections

\* A tracked connection that has been closed has its socket closed, unless the
\* splice still holds it and has been asked to; a splice that gives the socket
\* back after a CloseAll does not bring it back to life.
ClosedForGood ==
    \A c \in Connections : conn[c].closed /\ conn[c].socket = "open" => conn[c].owner /\ conn[c].asked

\* An end is closed that is, or will be, read from.
Lost(r) ==
    \/ r.inbound = "closed" /\ r.copy["up"] \in {"none", "copying"}
    \/ r.closed /\ r.copy["down"] \in {"none", "copying"}

\* When one end is closed, by CloseAll, the client, an interruption or a copy,
\* the connection comes to its end, whatever it is doing.  Excepted is an end
\* that has come to its own end before: the other copy finds out only when it
\* has something to write there.
ConnectionEnds == \A c \in Connections : (conn[c].pc # "idle" /\ Lost(conn[c])) ~> Over(conn[c])
=============================================================================
