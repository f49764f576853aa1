------------------------- MODULE ConnManager_proofs -------------------------
(***************************************************************************)
(* The safety properties of ConnManager hold for any number of connections. *)
(* The invariant speaks of one connection at a time: connections share only *)
(* the list and CloseAll.                                                   *)
(***************************************************************************)
EXTENDS ConnManager, TLAPS

ConnType ==
    [kind : Kinds,
     pc : {"idle", "dial", "report", "splice", "attached", "spliced", "kick", "copy", "over"},
     inbound : {"open", "closed"}, socket : {"none", "open", "closed"},
     closed : BOOLEAN, owner : BOOLEAN, asked : BOOLEAN,
     copy : [Directions -> {"none", "copying", "copied", "ended"}],
     done : BOOLEAN, onClose : 0 .. 2]

\* The copies that have ended, one of them and both.
Ended(r, d) == r.copy[d] = "ended"
SomeEnded(r) == Ended(r, "up") \/ Ended(r, "down")
BothEnded(r) == Ended(r, "up") /\ Ended(r, "down")

\* The copy that ends a connection has ended: the second of a stream's, the
\* first of a packet connection's.
Finished(r) == IF r.kind = "udp" THEN SomeEnded(r) ELSE BothEnded(r)

BothClosed(r) == r.inbound = "closed" /\ r.socket # "open"

\* Before the copies: nothing is done, and only a splice owns the socket.
SetupInv(r) ==
    r.pc \notin {"copy", "over"} =>
        /\ r.copy = [d \in Directions |-> "none"]
        /\ ~r.done /\ r.onClose = 0
        /\ r.owner <=> r.pc \in {"attached", "spliced"}
        /\ r.pc \in {"idle", "dial"} <=> r.socket = "none"
        /\ r.pc \in {"idle", "dial"} => ~r.closed

\* During them: done says that one has ended, and the one that calls onClose
\* has closed both ends.
CopyInv(r) ==
    r.pc = "copy" =>
        /\ \A d \in Directions : r.copy[d] # "none"
        /\ ~r.owner /\ r.socket # "none"
        /\ r.done <=> SomeEnded(r)
        /\ r.onClose = IF Finished(r) THEN 1 ELSE 0
        /\ Finished(r) => BothClosed(r)

OverInv(r) ==
    r.pc = "over" =>
        /\ r.copy = [d \in Directions |-> "none"]
        /\ r.onClose = 1 /\ BothClosed(r)

ConnInv(r) ==
    /\ r \in ConnType
    /\ SetupInv(r) /\ CopyInv(r) /\ OverInv(r)
    /\ r.closed /\ r.socket = "open" => r.owner /\ r.asked

\* A connection in the list has a socket and is not over.
Listed(r) == r.socket # "none" /\ r.pc # "over" /\ ~(r.pc = "copy" /\ Finished(r))

IInv ==
    /\ connections \subseteq Connections /\ closers \subseteq Connections
    /\ \A c \in Connections : ConnInv(conn[c])
    /\ \A c \in connections : Listed(conn[c])
    /\ \A c \in closers : conn[c].socket # "none"
    /\ DOMAIN conn = Connections

-----------------------------------------------------------------------------
(* Steps of one connection *)

\* A step that changes one connection, and of the list only its place in it,
\* keeps the invariant if the connection keeps its own.
LEMMA OneConn ==
    ASSUME IInv, NEW c \in Connections, NEW r, ConnInv(r), Become(c, r),
           connections' \subseteq connections \cup {c}, closers' \subseteq closers,
           c \in connections' => Listed(r),
           c \in closers' => r.socket # "none"
    PROVE  IInv'
BY DEF IInv, Become

\* The first call of onClose.
LEMMA FirstCall ==
    ASSUME NEW r \in ConnType, r.onClose = 0
    PROVE  OnClose(r) = [r EXCEPT !.onClose = 1]
<1>1. r.onClose + 1 = 1
  OBVIOUS
<1> QED BY <1>1 DEF OnClose

\* The ways a connection fails before it copies.
LEMMA FailKeeps ==
    ASSUME IInv, NEW c \in Connections, NEW r, r \in ConnType,
           r.copy = [d \in Directions |-> "none"], r.onClose = 0,
           r.owner => r.socket = "closed", Fail(c, r)
    PROVE  IInv'
<1> DEFINE n == [OnClose(CloseBoth(r)) EXCEPT !.pc = "over"]
<1>0. CloseBoth(r) \in ConnType /\ CloseBoth(r).copy = r.copy /\ CloseBoth(r).onClose = 0
      /\ CloseBoth(r).inbound = "closed" /\ CloseBoth(r).socket = "closed"
  BY ZenonT(40) DEF ConnType, CloseBoth, CloseTracked, CloseInbound
<1>1. n \in ConnType /\ n.pc = "over" /\ n.copy = r.copy /\ n.onClose = 1
      /\ n.inbound = "closed" /\ n.socket = "closed"
  BY <1>0, FirstCall DEF ConnType
<1>2. ConnInv(n)
  BY <1>1 DEF ConnInv, SetupInv, CopyInv, OverInv, BothClosed
<1>3. Become(c, n) /\ connections' = connections \ {c} /\ closers' = closers
  BY DEF Fail, Remove
<1> HIDE DEF n
<1> QED BY <1>1, <1>2, <1>3, OneConn DEF IInv

\* A change of pc and other fields of a connection that stays in the list.
LEMMA StayKeeps ==
    ASSUME IInv, NEW c \in Connections, NEW r, ConnInv(r), Become(c, r),
           r.socket = "none" <=> conn[c].socket = "none",
           Listed(conn[c]) => Listed(r),
           UNCHANGED <<connections, closers>>
    PROVE  IInv'
BY OneConn DEF IInv

\* NewConnection, the dial and the handshake keep the invariant.
LEMMA SetupKeeps ==
    ASSUME IInv, NEW c \in Connections,
           \/ \E kind \in Kinds : NewConnection(c, kind)
           \/ DialFails(c) \/ TrackConn(c) \/ ReportHandshake(c) \/ ReportHandshakeFails(c)
    PROVE  IInv'
<1> DEFINE r == conn[c]
<1>0. ConnInv(r)
  BY DEF IInv
<1> USE DEF Goto
<1>1. ASSUME NEW kind \in Kinds, NewConnection(c, kind) PROVE IInv'
  <2> DEFINE n == [[r EXCEPT !.kind = kind] EXCEPT !.pc = "dial"]
  <2>1. ConnInv(n) /\ n.socket = "none"
    BY Zenon, <1>0, <1>1 DEF ConnInv, ConnType, SetupInv, CopyInv, OverInv, NewConnection
  <2>2. Become(c, n) /\ UNCHANGED <<connections, closers>> /\ r.socket = "none"
    BY Zenon, <1>0, <1>1 DEF ConnInv, SetupInv, NewConnection
  <2> HIDE DEF n
  <2> QED BY <2>1, <2>2, StayKeeps DEF Listed
<1>2. CASE DialFails(c)
  <2> DEFINE n == [OnClose(CloseInbound(r)) EXCEPT !.pc = "over"]
  <2>0. r \in ConnType /\ r.onClose = 0 /\ r.socket = "none" /\ r.copy = [d \in Directions |-> "none"]
    BY <1>0, <1>2 DEF ConnInv, SetupInv, DialFails
  <2>1. n \in ConnType /\ n.pc = "over" /\ n.onClose = 1 /\ n.copy = r.copy
        /\ n.inbound = "closed" /\ n.socket = "none"
    <3>1. CloseInbound(r) \in ConnType /\ CloseInbound(r).onClose = 0
      BY <2>0 DEF ConnType, CloseInbound
    <3> QED BY <2>0, <3>1, FirstCall DEF ConnType, CloseInbound
  <2>3. ConnInv(n)
    BY <2>0, <2>1 DEF ConnInv, SetupInv, CopyInv, OverInv, BothClosed
  <2>2. Become(c, n) /\ UNCHANGED <<connections, closers>>
    BY <1>2 DEF DialFails
  <2> HIDE DEF n
  <2> QED BY <2>0, <2>1, <2>2, <2>3, StayKeeps DEF Listed
<1>3. CASE TrackConn(c)
  <2> DEFINE n == [r EXCEPT !.socket = "open", !.pc = "report"]
  <2>1. ConnInv(n) /\ n.socket = "open" /\ n.pc = "report"
    BY Zenon, <1>0, <1>3 DEF ConnInv, ConnType, SetupInv, CopyInv, OverInv, TrackConn
  <2>2. Become(c, n) /\ connections' = connections \cup {c} /\ closers' = closers
    BY <1>3 DEF TrackConn
  <2> HIDE DEF n
  <2> QED BY <2>1, <2>2, OneConn DEF Listed
<1>4. CASE ReportHandshake(c)
  <2> DEFINE n == [r EXCEPT !.pc = IF r.kind = "tls" THEN "kick" ELSE "splice"]
  <2>1. ConnInv(n) /\ n.socket = r.socket /\ n.pc \in {"kick", "splice"}
    BY <1>0, <1>4 DEF ConnInv, ConnType, SetupInv, CopyInv, OverInv, ReportHandshake
  <2>2. Become(c, n) /\ UNCHANGED <<connections, closers>>
    BY <1>4 DEF ReportHandshake
  <2> HIDE DEF n
  <2> QED BY <2>1, <2>2, StayKeeps DEF Listed
<1>5. CASE ReportHandshakeFails(c)
  BY <1>0, <1>5, FailKeeps DEF ConnInv, SetupInv, ReportHandshakeFails
<1> QED BY <1>1, <1>2, <1>3, <1>4, <1>5

\* A connection that was not spliced goes on to its copies or its handshakes.
LEMMA NotSplicedKeeps ==
    ASSUME IInv, NEW c \in Connections, NEW r, ConnInv(r),
           r.pc \notin {"idle", "dial", "copy", "over"}, ~r.owner, r.socket # "none",
           conn[c].socket # "none", Become(c, NotSpliced(r)), UNCHANGED <<connections, closers>>
    PROVE  IInv'
<1>1. CASE r.kind = "udp"
  <2> DEFINE n == [r EXCEPT !.pc = "copy", !.copy = [d \in Directions |-> "copying"]]
  <2>1. Become(c, n)
    BY <1>1 DEF NotSpliced
  <2>2. n \in ConnType /\ n.pc = "copy" /\ n.copy = [d \in Directions |-> "copying"]
        /\ ~n.owner /\ n.socket = r.socket /\ ~n.done /\ n.onClose = 0
        /\ (n.closed => n.socket # "open")
    BY Zenon DEF ConnInv, ConnType, SetupInv
  <2>3. n.copy["up"] = "copying" /\ n.copy["down"] = "copying" /\ \A d \in Directions : n.copy[d] = "copying"
    BY <2>2 DEF Directions
  <2> HIDE DEF n
  <2>4. ConnInv(n) /\ Listed(n)
    BY <2>2, <2>3 DEF ConnInv, SetupInv, CopyInv, OverInv, Finished, SomeEnded, BothEnded, Ended, Listed
  <2> QED BY <2>1, <2>2, <2>4, StayKeeps
<1>2. CASE r.kind # "udp"
  <2> DEFINE n == [r EXCEPT !.pc = "kick"]
  <2>1. Become(c, n)
    BY <1>2 DEF NotSpliced
  <2>2. ConnInv(n) /\ Listed(n) /\ n.socket # "none"
    BY DEF ConnInv, ConnType, SetupInv, CopyInv, OverInv, Listed
  <2> HIDE DEF n
  <2> QED BY <2>1, <2>2, StayKeeps
<1> QED BY <1>1, <1>2

\* The splice keeps the invariant.
LEMMA SpliceKeeps ==
    ASSUME IInv, NEW c \in Connections,
           \/ spliceConnection(c) \/ spliceWriteFails(c) \/ Attach(c) \/ Splice(c)
           \/ SpliceFails(c) \/ spliceClose(c)
    PROVE  IInv'
<1> DEFINE r == conn[c]
<1>0. ConnInv(r)
  BY DEF IInv
<1> USE DEF Goto
<1>1. CASE spliceConnection(c)
  BY <1>0, <1>1, NotSplicedKeeps DEF ConnInv, SetupInv, spliceConnection
<1>2. CASE spliceWriteFails(c)
  BY <1>0, <1>2, FailKeeps DEF ConnInv, SetupInv, spliceWriteFails
<1>3. CASE Attach(c)
  <2> DEFINE n == [[r EXCEPT !.owner = TRUE] EXCEPT !.pc = "attached"]
  <2>1. ConnInv(n) /\ n.socket = r.socket /\ n.pc = "attached"
    BY Zenon, <1>0, <1>3 DEF ConnInv, ConnType, SetupInv, CopyInv, OverInv, Attach
  <2>2. Become(c, n) /\ UNCHANGED <<connections, closers>>
    BY <1>3 DEF Attach
  <2> HIDE DEF n
  <2> QED BY <2>1, <2>2, StayKeeps DEF Listed
<1>4. CASE Splice(c)
  <2> DEFINE n == [r EXCEPT !.pc = "spliced"]
  <2>1. ConnInv(n) /\ n.socket = r.socket /\ n.pc = "spliced"
    BY <1>0, <1>4 DEF ConnInv, ConnType, SetupInv, CopyInv, OverInv, Splice
  <2>2. Become(c, n) /\ UNCHANGED <<connections, closers>>
    BY <1>4 DEF Splice
  <2> HIDE DEF n
  <2> QED BY <2>1, <2>2, StayKeeps DEF Listed
<1>5. CASE SpliceFails(c)
  <2> DEFINE n == [Detach(r) EXCEPT !.pc = "splice"]
  <2>1. r.pc = "attached" /\ r.socket # "none" /\ Become(c, NotSpliced(Detach(r)))
        /\ UNCHANGED <<connections, closers>>
    BY <1>0, <1>5 DEF ConnInv, SetupInv, SpliceFails
  <2>2. ConnInv(n) /\ n.pc = "splice" /\ ~n.owner /\ n.socket # "none"
    BY Zenon, <1>0, <2>1 DEF ConnInv, ConnType, SetupInv, CopyInv, OverInv, Detach
  <2>3. NotSpliced(n) = NotSpliced(Detach(r))
    BY ZenonT(40), <1>0 DEF ConnInv, ConnType, NotSpliced, Detach
  <2> HIDE DEF n
  <2> QED BY <2>1, <2>2, <2>3, NotSplicedKeeps
<1>6. CASE spliceClose(c)
  <2> DEFINE n == [r EXCEPT !.socket = "closed"]
  <2>1. n \in ConnType /\ SetupInv(n) /\ n.pc = "spliced" /\ n.socket = "closed"
    BY <1>0, <1>6 DEF ConnInv, ConnType, SetupInv, spliceClose
  <2>2. Fail(c, n)
    BY <1>6 DEF spliceClose
  <2> HIDE DEF n
  <2> QED BY <2>1, <2>2, FailKeeps DEF SetupInv
<1> QED BY <1>1, <1>2, <1>3, <1>4, <1>5, <1>6

\* The handshakes before the copies keep the invariant.
LEMMA KickKeeps ==
    ASSUME IInv, NEW c \in Connections, kickWriteHandshake(c) \/ kickWriteHandshakeFails(c)
    PROVE  IInv'
<1> DEFINE r == conn[c]
<1>0. ConnInv(r)
  BY DEF IInv
<1>1. CASE kickWriteHandshake(c)
  <2> DEFINE n == [[r EXCEPT !.copy = [d \in Directions |-> "copying"]] EXCEPT !.pc = "copy"]
  <2>1. r.pc = "kick" /\ Become(c, n) /\ UNCHANGED <<connections, closers>>
    BY <1>1 DEF kickWriteHandshake, Goto
  <2>2. n \in ConnType /\ n.pc = "copy" /\ n.copy = [d \in Directions |-> "copying"]
        /\ ~n.owner /\ n.socket = r.socket /\ n.socket # "none" /\ ~n.done /\ n.onClose = 0
        /\ (n.closed => n.socket # "open")
    BY Zenon, <1>0, <2>1 DEF ConnInv, ConnType, SetupInv
  <2>3. n.copy["up"] = "copying" /\ n.copy["down"] = "copying" /\ \A d \in Directions : n.copy[d] = "copying"
    BY <2>2 DEF Directions
  <2> HIDE DEF n
  <2>4. ConnInv(n) /\ Listed(n)
    BY <2>2, <2>3 DEF ConnInv, SetupInv, CopyInv, OverInv, Finished, SomeEnded, BothEnded, Ended, Listed
  <2> QED BY <2>1, <2>2, <2>4, StayKeeps
<1>2. CASE kickWriteHandshakeFails(c)
  <2> DEFINE n == [r EXCEPT !.done = TRUE]
  <2>1. n \in ConnType /\ n.copy = [d \in Directions |-> "none"] /\ n.onClose = 0 /\ ~n.owner
    BY Zenon, <1>0, <1>2 DEF ConnInv, ConnType, SetupInv, kickWriteHandshakeFails
  <2>2. Fail(c, n)
    BY <1>2 DEF kickWriteHandshakeFails
  <2> HIDE DEF n
  <2> QED BY <2>1, <2>2, FailKeeps
<1> QED BY <1>1, <1>2

-----------------------------------------------------------------------------
(* The copies *)

\* x is the copying connection r, possibly with ends closed.
Closer(x, r) ==
    /\ x \in ConnType
    /\ x.kind = r.kind /\ x.pc = r.pc /\ x.copy = r.copy /\ x.owner = r.owner
    /\ x.done = r.done /\ x.onClose = r.onClose
    /\ r.inbound = "closed" => x.inbound = "closed"
    /\ x.socket # "none"
    /\ r.socket # "open" => x.socket # "open"
    /\ x.closed => x.socket # "open"

\* The closes a copy makes.
LEMMA Closing ==
    ASSUME NEW r, ConnInv(r), r.pc = "copy"
    PROVE  /\ Closer(r, r) /\ Closer(CloseTracked(r), r) /\ Closer(CloseInbound(r), r)
           /\ Closer(CloseBoth(r), r)
           /\ BothClosed(CloseBoth(r))
<1>1. r \in ConnType /\ ~r.owner /\ r.socket # "none" /\ (r.closed => r.socket # "open")
  BY DEF ConnInv, CopyInv
<1>2. Closer(r, r)
  BY <1>1 DEF Closer
<1>3. Closer(CloseTracked(r), r)
  BY Zenon, <1>1 DEF Closer, ConnType, CloseTracked
<1>4. Closer(CloseInbound(r), r)
  BY <1>1 DEF Closer, ConnType, CloseInbound
<1>5. Closer(CloseBoth(r), r) /\ BothClosed(CloseBoth(r))
  BY Zenon, <1>1 DEF Closer, ConnType, BothClosed, CloseBoth, CloseTracked, CloseInbound
<1> QED BY <1>2, <1>3, <1>4, <1>5

\* A copy that is under way belongs to a connection that copies.
LEMMA Copying ==
    ASSUME IInv, NEW c \in Connections, NEW d \in Directions, conn[c].copy[d] # "none"
    PROVE  ConnInv(conn[c]) /\ conn[c].pc = "copy"
BY DEF IInv, ConnInv, ConnType, SetupInv, OverInv

\* The end of the copying itself keeps the invariant.
LEMMA CopiedKeeps ==
    ASSUME IInv, NEW c \in Connections, NEW d \in Directions, conn[c].copy[d] = "copying",
           NEW x, Closer(x, conn[c]), Copied(c, d, x)
    PROVE  IInv'
<1> DEFINE n == [x EXCEPT !.copy[d] = "copied"]
<1>1. ConnInv(conn[c]) /\ conn[c].pc = "copy"
  BY Copying
<1>2. Become(c, n) /\ connections' \subseteq connections /\ closers' = closers
  BY DEF Copied, Remove
<1>3. n \in ConnType /\ n.kind = x.kind /\ n.pc = "copy" /\ n.owner = x.owner /\ n.done = x.done
      /\ n.onClose = x.onClose /\ n.inbound = x.inbound /\ n.socket = x.socket /\ n.closed = x.closed
      /\ n.copy = [x.copy EXCEPT ![d] = "copied"]
  BY <1>1 DEF Closer, ConnType
<1>4. x.copy = conn[c].copy /\ x.copy \in [Directions -> {"none", "copying", "copied", "ended"}]
  BY DEF Closer, ConnType
<1> HIDE DEF n
<1>5. \A e \in Directions : n.copy[e] # "none" /\ (n.copy[e] = "ended" <=> conn[c].copy[e] = "ended")
  BY <1>1, <1>3, <1>4 DEF ConnInv, CopyInv
<1>6. /\ SomeEnded(n) <=> SomeEnded(conn[c])
      /\ BothEnded(n) <=> BothEnded(conn[c])
  BY <1>5 DEF SomeEnded, BothEnded, Ended, Directions
<1>7. Finished(n) <=> Finished(conn[c])
  BY Zenon, <1>3, <1>6 DEF Finished, Closer
<1>8. ConnInv(n)
  BY ZenonT(40), <1>1, <1>3, <1>5, <1>6, <1>7 DEF ConnInv, SetupInv, CopyInv, OverInv, BothClosed, Closer
<1>9. c \in connections => Listed(n)
  BY <1>1, <1>3, <1>7 DEF IInv, Listed, Closer
<1>10. n.socket # "none"
  BY <1>3 DEF Closer
<1> QED BY <1>2, <1>8, <1>9, <1>10, OneConn

\* The end of the source and errors keep the invariant.
LEMMA CopyEndsKeeps ==
    ASSUME IInv, NEW c \in Connections, NEW d \in Directions, copyEnds(c, d) \/ copyFails(c, d)
    PROVE  IInv'
<1>1. conn[c].copy[d] = "copying"
  BY DEF copyEnds, copyFails
<1>2. ConnInv(conn[c]) /\ conn[c].pc = "copy"
  BY <1>1, Copying
<1>3. PICK x : Closer(x, conn[c]) /\ Copied(c, d, x)
  BY <1>2, Closing DEF copyEnds, copyFails, CloseDestination
<1> QED BY <1>1, <1>3, CopiedKeeps

\* done.Swap and what follows keep the invariant.
LEMMA CopyDoneKeeps ==
    ASSUME IInv, NEW c \in Connections, NEW d \in Directions, copyDone(c, d)
    PROVE  IInv'
<1> DEFINE o == conn[c]
           r == [o EXCEPT !.copy[d] = "ended", !.done = TRUE]
<1>1. o.copy[d] = "copied" /\ ConnInv(o) /\ o.pc = "copy"
  BY Copying DEF copyDone
<1>2. r \in ConnType /\ r.kind = o.kind /\ r.pc = "copy" /\ ~r.owner /\ r.done
      /\ r.onClose = o.onClose /\ r.inbound = o.inbound /\ r.socket = o.socket /\ r.socket # "none"
      /\ (r.closed => r.socket # "open")
      /\ r.copy = [o.copy EXCEPT ![d] = "ended"]
  BY Zenon, <1>1 DEF ConnInv, CopyInv, ConnType
<1>3. o.copy \in [Directions -> {"none", "copying", "copied", "ended"}] /\ o.done \in BOOLEAN
      /\ \A e \in Directions : o.copy[e] # "none"
  BY <1>1 DEF ConnInv, CopyInv, ConnType
<1>4. SomeEnded(r) /\ (BothEnded(r) <=> o.done) /\ (SomeEnded(o) <=> o.done) /\ ~BothEnded(o)
      /\ \A e \in Directions : r.copy[e] # "none"
  BY <1>1, <1>2, <1>3 DEF ConnInv, CopyInv, SomeEnded, BothEnded, Ended, Directions
<1>5. Finished(r) <=> r.kind = "udp" \/ o.done
  BY <1>4 DEF Finished
<1>6. Finished(o) <=> r.kind = "udp" /\ o.done
  BY <1>2, <1>4 DEF Finished
<1>7. o.onClose = IF Finished(o) THEN 1 ELSE 0
  BY <1>1 DEF ConnInv, CopyInv
<1> DEFINE called == IF o.done = (r.kind # "udp") THEN OnClose(r) ELSE r
           n == [r EXCEPT !.onClose = IF Finished(r) THEN 1 ELSE 0]
<1>8. called = n
  <2>1. CASE o.done = (r.kind # "udp")
    <3>1. r.onClose = 0 /\ Finished(r)
      BY Zenon, <1>2, <1>3, <1>5, <1>6, <1>7, <2>1
    <3> QED BY Zenon, <1>2, <2>1, <3>1, FirstCall
  <2>2. CASE o.done # (r.kind # "udp")
    <3>1. r.onClose = IF Finished(r) THEN 1 ELSE 0
      BY <1>2, <1>3, <1>5, <1>6, <1>7, <2>2
    <3>2. [r EXCEPT !.onClose = r.onClose] = r
      BY Zenon, <1>2 DEF ConnType
    <3> QED BY Zenon, <2>2, <3>1, <3>2
  <2> QED BY <2>1, <2>2
<1>9. n \in ConnType /\ n.kind = r.kind /\ n.pc = "copy" /\ ~n.owner /\ n.done /\ n.copy = r.copy
      /\ n.onClose = (IF Finished(r) THEN 1 ELSE 0) /\ n.socket # "none" /\ (n.closed => n.socket # "open")
  <2> HIDE DEF o, r
  <2> QED BY <1>2 DEF ConnType
<1>10. /\ Become(c, IF Finished(r) THEN CloseBoth(n) ELSE n) /\ closers' = closers
       /\ connections' = IF Finished(r) THEN connections \ {c} ELSE connections
  BY Zenon, <1>2, <1>5, <1>8 DEF copyDone, Remove
<1> HIDE DEF o, r, n, called
<1>11. SomeEnded(n) /\ (Finished(n) <=> Finished(r)) /\ \A e \in Directions : n.copy[e] # "none"
  BY <1>4, <1>9 DEF Finished, SomeEnded, BothEnded, Ended
<1>12. CASE Finished(r)
  <2> DEFINE b == CloseBoth(n)
  <2>1. b \in ConnType /\ b.kind = n.kind /\ b.pc = "copy" /\ ~b.owner /\ b.done /\ b.copy = n.copy
        /\ b.onClose = n.onClose /\ b.inbound = "closed" /\ b.socket = "closed"
    BY Zenon, <1>9 DEF ConnType, CloseBoth, CloseTracked, CloseInbound
  <2>2. Become(c, b)
    BY <1>10, <1>12
  <2> HIDE DEF b
  <2>3. SomeEnded(b) /\ Finished(b)
    BY <1>11, <1>12, <2>1 DEF Finished, SomeEnded, BothEnded, Ended
  <2>4. ConnInv(b)
    BY <1>9, <1>11, <1>12, <2>1, <2>3 DEF ConnInv, SetupInv, CopyInv, OverInv, BothClosed
  <2> QED BY <1>10, <1>12, <2>1, <2>2, <2>4, OneConn DEF IInv
<1>13. CASE ~Finished(r)
  <2>1. ConnInv(n) /\ Listed(n)
    BY <1>9, <1>11, <1>13 DEF ConnInv, SetupInv, CopyInv, OverInv, Listed
  <2> QED BY <1>9, <1>10, <1>13, <2>1, OneConn
<1> QED BY <1>12, <1>13

-----------------------------------------------------------------------------
(* CloseAll and the client *)

\* CloseAll and the closes that follow it keep the invariant.
LEMMA CloseKeeps ==
    ASSUME IInv, CloseAll \/ \E c \in Connections : CloseNext(c) PROVE IInv'
<1>1. CASE CloseAll
  BY <1>1 DEF IInv, CloseAll, Listed
<1>2. ASSUME NEW c \in Connections, CloseNext(c) PROVE IInv'
  <2> DEFINE r == conn[c]
             n == CloseTracked(r)
  <2>1. ConnInv(r) /\ r.socket # "none" /\ (c \in connections => Listed(r))
    BY <1>2 DEF IInv, CloseNext
  <2>2. n \in ConnType /\ n.kind = r.kind /\ n.pc = r.pc /\ n.copy = r.copy /\ n.owner = r.owner
        /\ n.done = r.done /\ n.onClose = r.onClose /\ n.inbound = r.inbound
        /\ n.socket = (IF r.owner THEN r.socket ELSE "closed") /\ (r.owner => n.asked)
    BY ZenonT(40), <2>1 DEF ConnInv, ConnType, CloseTracked
  <2>3. Become(c, n) /\ connections' = connections /\ closers' \subseteq closers
    BY <1>2 DEF CloseNext
  <2> HIDE DEF n
  <2>4. ConnInv(n) /\ (Listed(r) => Listed(n)) /\ n.socket # "none"
    BY ZenonT(40), <2>1, <2>2 DEF ConnInv, SetupInv, CopyInv, OverInv, BothClosed, Finished, SomeEnded, BothEnded, Ended, Listed
  <2> QED BY <2>1, <2>3, <2>4, OneConn
<1> QED BY <1>1, <1>2

\* A client that goes away keeps the invariant.
LEMMA InboundKeeps ==
    ASSUME IInv, NEW c \in Connections, InboundCloses(c) PROVE IInv'
<1> DEFINE r == conn[c]
           n == CloseInbound(r)
<1>1. ConnInv(r) /\ Become(c, n) /\ UNCHANGED <<connections, closers>>
  BY DEF IInv, InboundCloses
<1>2. n \in ConnType /\ n.kind = r.kind /\ n.pc = r.pc /\ n.copy = r.copy /\ n.owner = r.owner
      /\ n.done = r.done /\ n.onClose = r.onClose /\ n.inbound = "closed" /\ n.socket = r.socket
      /\ n.closed = r.closed /\ n.asked = r.asked
  BY ZenonT(40), <1>1 DEF ConnInv, ConnType, CloseInbound
<1> HIDE DEF n
<1>3. ConnInv(n) /\ (Listed(r) => Listed(n))
  BY Zenon, <1>1, <1>2 DEF ConnInv, SetupInv, CopyInv, OverInv, BothClosed, Finished, SomeEnded, BothEnded, Ended, Listed
<1> QED BY Zenon, <1>1, <1>2, <1>3, StayKeeps

-----------------------------------------------------------------------------
(* Theorems *)

\* IInv is an inductive invariant of the connection manager.
THEOREM Invariance == Spec => []IInv
<1>1. Init => IInv
  <2> SUFFICES ASSUME Init PROVE \A c \in Connections : ConnInv(conn[c])
    BY DEF Init, IInv
  <2>1. ConnInv(NewConn)
    BY DEF ConnInv, ConnType, SetupInv, CopyInv, OverInv, NewConn, Kinds
  <2> QED BY <2>1 DEF Init
<1>2. IInv /\ [Next]_vars => IInv'
  <2> SUFFICES ASSUME IInv, [Next]_vars PROVE IInv'
    OBVIOUS
  <2>1. CASE UNCHANGED vars
    BY <2>1 DEF vars, IInv
  <2>2. CASE Next
    BY <2>2, SetupKeeps, SpliceKeeps, KickKeeps, CopyEndsKeeps, CopyDoneKeeps, CloseKeeps, InboundKeeps
       DEF Next, SetupStep, CopyStep
  <2> QED BY <2>1, <2>2
<1> QED BY <1>1, <1>2, PTL DEF Spec

\* A connection is over exactly as IInv knows it.
LEMMA OverIs ==
    ASSUME IInv, NEW c \in Connections, Over(conn[c])
    PROVE  conn[c].pc = "over" \/ (conn[c].pc = "copy" /\ Finished(conn[c]))
<1>1. CASE \A d \in Directions : conn[c].copy[d] = "ended"
  <2>1. conn[c].copy["up"] = "ended" /\ conn[c].copy["down"] = "ended"
    BY <1>1 DEF Directions
  <2>2. conn[c].pc = "copy"
    BY <2>1, Copying DEF Directions
  <2> QED BY <2>1, <2>2 DEF Finished, SomeEnded, BothEnded, Ended
<1> QED BY <1>1 DEF Over

\* Each way a connection ends calls onClose, and no two of them do.
THEOREM CalledOnce == Spec => []OnCloseOnce
<1>1. IInv => OnCloseOnce
  <2> SUFFICES ASSUME IInv, NEW c \in Connections
               PROVE  conn[c].onClose <= 1 /\ (Over(conn[c]) => conn[c].onClose = 1)
    BY Zenon DEF OnCloseOnce
  <2>1. conn[c].onClose \in {0, 1}
    BY ZenonT(40) DEF IInv, ConnInv, SetupInv, CopyInv, OverInv
  <2>2. Over(conn[c]) => conn[c].onClose = 1
    BY Zenon, OverIs DEF IInv, ConnInv, CopyInv, OverInv
  <2> QED BY <2>1, <2>2
<1> QED BY <1>1, Invariance, PTL

\* A connection that is over leaves no socket open and no entry in the list.
THEOREM LeavesNothing == Spec => []NothingLeft
<1>1. IInv => NothingLeft
  BY Zenon, OverIs DEF IInv, ConnInv, CopyInv, OverInv, BothClosed, Listed, NothingLeft
<1> QED BY <1>1, Invariance, PTL

\* A close of the tracked connection is never lost, a splice or not.
THEOREM StaysClosed == Spec => []ClosedForGood
<1>1. IInv => ClosedForGood
  BY DEF IInv, ConnInv, ClosedForGood
<1> QED BY <1>1, Invariance, PTL

=============================================================================
