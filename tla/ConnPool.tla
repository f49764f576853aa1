------------------------------ MODULE ConnPool ------------------------------
(***************************************************************************)
(* The connection pool of the DNS transports in its single mode: any        *)
(* number of clients share at most one connection, one of them dials it     *)
(* while the others wait (dns/transport/conn_pool.go).                      *)
(*                                                                         *)
(* One action is one region under p.access together with the Close calls    *)
(* that follow the unlock.  A connPoolState is a generation g of Gens: the  *)
(* fields of the struct are functions of g, and p.state is the variable     *)
(* state.  A dial attempt (connPoolConnect and the connectSingle goroutine  *)
(* behind it) yields at most one connection, so both are named by the same  *)
(* member of Conns.                                                        *)
(***************************************************************************)
EXTENDS Integers, FiniteSets

CONSTANTS
    Clients,        \* goroutines that call Acquire and Release
    Conns,          \* dial attempts, and the connections they yield
    Gens,           \* values of p.state: the bound on Reset
    NoConn,         \* no connection, the zero T
    DetectsDeath    \* does IsAlive see a dead peer (QUIC) or only nil (TCP, UDP)?

ASSUME ClientsFinite == IsFiniteSet(Clients)
ASSUME NoConnFresh == NoConn \notin Conns
ASSUME DetectsDeathBool == DetectsDeath \in BOOLEAN

VARIABLES
    closed,         \* p.closed
    state,          \* p.state
    used,           \* generations that have been p.state
    closing,        \* generations handed to closeState, which has not run yet
    cancelled,      \* generations whose ctx is cancelled
    all, shared, sharedClaimed, sharedUsers, sharedWaiters, connecting,
    dialer,         \* pc of the connectSingle goroutine of each attempt
    connGen,        \* the generation an attempt was started in
    dialCtxDone,    \* attempts whose starter's ctx is done
    dropped,        \* connections whose sharedCtx removeConn cancelled
    sock,           \* the connection itself
    readers,        \* how often each connection was handed out as created
    pc, attempt, startDial, held, ctxDone  \* locals of each client

poolVars == <<closed, state, used, closing, cancelled>>
genVars == <<all, shared, sharedClaimed, sharedUsers>>
waitVars == <<sharedWaiters, connecting>>
dialVars == <<dialer, connGen, dialCtxDone>>
connVars == <<dropped, sock>>
clientVars == <<pc, attempt, startDial, held, ctxDone>>
vars == <<poolVars, genVars, waitVars, dialVars, connVars, readers, clientVars>>

Dialing == {"dial", "ok", "err"}
Finished == {"done", "doneErr"}
DialerStates == {"none", "installed", "failed", "refused"} \cup Dialing \cup Finished
SockStates == {"none", "open", "dead", "closed"}
ClientStates == {"idle", "acquire", "select", "holding"}

TypeOK ==
    /\ closed \in BOOLEAN
    /\ state \in Gens
    /\ used \subseteq Gens /\ closing \subseteq Gens /\ cancelled \subseteq Gens
    /\ all \in [Gens -> SUBSET Conns]
    /\ shared \in [Gens -> Conns \cup {NoConn}]
    /\ sharedClaimed \in [Gens -> BOOLEAN]
    /\ sharedUsers \in [Gens -> Nat]
    /\ sharedWaiters \in [Gens -> Nat]
    /\ connecting \in [Gens -> Conns \cup {NoConn}]
    /\ dialer \in [Conns -> DialerStates]
    /\ connGen \in [Conns -> Gens]
    /\ dialCtxDone \subseteq Conns /\ dropped \subseteq Conns
    /\ sock \in [Conns -> SockStates]
    /\ readers \in [Conns -> Nat]
    /\ pc \in [Clients -> ClientStates]
    /\ attempt \in [Clients -> Conns \cup {NoConn}]
    /\ startDial \in [Clients -> BOOLEAN]
    /\ held \in [Clients -> Conns \cup {NoConn}]
    /\ ctxDone \subseteq Clients

NewConnPool ==
    /\ closed = FALSE
    /\ state \in Gens
    /\ used = {state} /\ closing = {} /\ cancelled = {}
    /\ all = [g \in Gens |-> {}]
    /\ shared = [g \in Gens |-> NoConn]
    /\ sharedClaimed = [g \in Gens |-> FALSE]
    /\ sharedUsers = [g \in Gens |-> 0]
    /\ sharedWaiters = [g \in Gens |-> 0]
    /\ connecting = [g \in Gens |-> NoConn]
    /\ dialer = [c \in Conns |-> "none"]
    /\ connGen = [c \in Conns |-> state]
    /\ dialCtxDone = {} /\ dropped = {}
    /\ sock = [c \in Conns |-> "none"]
    /\ readers = [c \in Conns |-> 0]
    /\ pc = [k \in Clients |-> "idle"]
    /\ attempt = [k \in Clients |-> NoConn]
    /\ startDial = [k \in Clients |-> FALSE]
    /\ held = [k \in Clients |-> NoConn]
    /\ ctxDone = {}

Init == NewConnPool

-----------------------------------------------------------------------------
(* Helpers *)

IsAlive(c) == DetectsDeath => sock[c] = "open"

\* sharedCtx of c: a child of its generation's ctx, cancelled by removeConn.
ConnCtxDone(c) == c \in dropped \/ connGen[c] \in cancelled

CloseConn(c) == sock' = [sock EXCEPT ![c] = "closed"]

\* Fault: delete(state.all, conn) is missing.
removeConnKeepsAll(g, c) ==
    /\ shared' = [shared EXCEPT ![g] = NoConn]
    /\ sharedClaimed' = [sharedClaimed EXCEPT ![g] = FALSE]
    /\ sharedUsers' = [sharedUsers EXCEPT ![g] = 0]
    /\ dropped' = dropped \cup {c}
    /\ UNCHANGED all

\* Fault: sharedUsers is not reset.
removeConnKeepsUsers(g, c) ==
    /\ all' = [all EXCEPT ![g] = @ \ {c}]
    /\ shared' = [shared EXCEPT ![g] = NoConn]
    /\ sharedClaimed' = [sharedClaimed EXCEPT ![g] = FALSE]
    /\ dropped' = dropped \cup {c}
    /\ UNCHANGED sharedUsers

removeConn(g, c) ==
    /\ all' = [all EXCEPT ![g] = @ \ {c}]
    /\ \/ /\ shared[g] = c
          /\ shared' = [shared EXCEPT ![g] = NoConn]
          /\ sharedClaimed' = [sharedClaimed EXCEPT ![g] = FALSE]
          /\ sharedUsers' = [sharedUsers EXCEPT ![g] = 0]
          /\ dropped' = dropped \cup {c}
       \/ /\ shared[g] # c
          /\ UNCHANGED <<shared, sharedClaimed, sharedUsers, dropped>>

\* Fault: sharedClaimed is never set.
markNothing ==
    /\ readers' = [readers EXCEPT ![shared[state]] = IF sharedClaimed[state] THEN @ ELSE @ + 1]
    /\ UNCHANGED sharedClaimed

\* created := !sharedClaimed; sharedClaimed = true.
markClaimed ==
    /\ readers' = [readers EXCEPT ![shared[state]] = IF sharedClaimed[state] THEN @ ELSE @ + 1]
    /\ sharedClaimed' = [sharedClaimed EXCEPT ![state] = TRUE]

\* Hand the shared connection of the current state to client k.
claim(k) ==
    LET c == shared[state] IN
    /\ markClaimed
    /\ sharedUsers' = [sharedUsers EXCEPT ![state] = @ + 1]
    /\ pc' = [pc EXCEPT ![k] = "holding"]
    /\ held' = [held EXCEPT ![k] = c]
    /\ ctxDone' = ctxDone \ {k}
    /\ UNCHANGED <<all, shared, connVars>>

\* The call returns without a connection, or goes round the loop.
Return(k) ==
    /\ pc' = [pc EXCEPT ![k] = "idle"]
    /\ ctxDone' = ctxDone \ {k}

Retry(k) ==
    /\ pc' = [pc EXCEPT ![k] = "acquire"]
    /\ UNCHANGED ctxDone

-----------------------------------------------------------------------------
(* acquireShared: the loop body up to the select *)

\* A client calls Acquire with a fresh context.
Acquire(k) ==
    /\ pc[k] = "idle"
    /\ Retry(k)
    /\ UNCHANGED <<poolVars, genVars, waitVars, dialVars, connVars, readers,
                   attempt, startDial, held>>

AcquireClosed(k) ==
    /\ pc[k] = "acquire"
    /\ closed
    /\ Return(k)
    /\ UNCHANGED <<poolVars, genVars, waitVars, dialVars, connVars, readers,
                   attempt, startDial, held>>

AcquireClaim(k) ==
    /\ pc[k] = "acquire"
    /\ ~closed
    /\ shared[state] # NoConn
    /\ IsAlive(shared[state])
    /\ claim(k)
    /\ UNCHANGED <<poolVars, waitVars, dialVars, attempt, startDial>>

\* The shared connection is dead: drop it and go round the loop.
AcquireDead(k) ==
    /\ pc[k] = "acquire"
    /\ ~closed
    /\ shared[state] # NoConn
    /\ ~IsAlive(shared[state])
    /\ removeConn(state, shared[state])
    /\ CloseConn(shared[state])
    /\ UNCHANGED <<poolVars, waitVars, dialVars, readers, clientVars>>

\* No connection: join the running dial, or start one (go connectSingle).
AcquireWait(k) ==
    /\ pc[k] = "acquire"
    /\ ~closed
    /\ shared[state] = NoConn
    /\ \/ /\ connecting[state] # NoConn
          /\ attempt' = [attempt EXCEPT ![k] = connecting[state]]
          /\ startDial' = [startDial EXCEPT ![k] = FALSE]
          /\ UNCHANGED <<connecting, dialVars>>
       \/ /\ connecting[state] = NoConn
          /\ \E c \in Conns :
                /\ dialer[c] = "none"
                /\ connecting' = [connecting EXCEPT ![state] = c]
                /\ dialer' = [dialer EXCEPT ![c] = "dial"]
                /\ connGen' = [connGen EXCEPT ![c] = state]
                /\ dialCtxDone' = IF k \in ctxDone THEN dialCtxDone \cup {c} ELSE dialCtxDone
                /\ attempt' = [attempt EXCEPT ![k] = c]
          /\ startDial' = [startDial EXCEPT ![k] = TRUE]
    /\ sharedWaiters' = [sharedWaiters EXCEPT ![state] = @ + 1]
    /\ pc' = [pc EXCEPT ![k] = "select"]
    /\ UNCHANGED <<poolVars, genVars, connVars, readers, held, ctxDone>>

-----------------------------------------------------------------------------
(* acquireShared: the select, and collectShared *)

\* The local current: the state the attempt was registered in.
current(k) == connGen[attempt[k]]

\* Fault: p.closed is not looked at.
SameState(k) == state = current(k)

\* The state a client waited in is still p.state (collectShared).
StillCurrent(k) == ~closed /\ state = current(k)

\* Fault: the counter is not decremented.
LeaveWaitUncounted(k) ==
    /\ attempt' = [attempt EXCEPT ![k] = NoConn]
    /\ startDial' = [startDial EXCEPT ![k] = FALSE]
    /\ UNCHANGED sharedWaiters

\* Fault: the counter is decremented twice.
LeaveWaitTwice(k) ==
    /\ sharedWaiters' = [sharedWaiters EXCEPT ![current(k)] = @ - 2]
    /\ attempt' = [attempt EXCEPT ![k] = NoConn]
    /\ startDial' = [startDial EXCEPT ![k] = FALSE]

\* sharedWaiters--, and the locals of this round go out of scope.
LeaveWait(k) ==
    /\ sharedWaiters' = [sharedWaiters EXCEPT ![current(k)] = @ - 1]
    /\ attempt' = [attempt EXCEPT ![k] = NoConn]
    /\ startDial' = [startDial EXCEPT ![k] = FALSE]

SelectCtxDone(k) ==
    /\ pc[k] = "select"
    /\ k \in ctxDone
    /\ LeaveWait(k)
    /\ Return(k)
    /\ UNCHANGED <<poolVars, genVars, connecting, dialVars, connVars, readers, held>>

SelectStateDone(k) ==
    /\ pc[k] = "select"
    /\ current(k) \in cancelled
    /\ LeaveWait(k)
    /\ IF closed THEN Return(k) ELSE Retry(k)
    /\ UNCHANGED <<poolVars, genVars, connecting, dialVars, connVars, readers, held>>

\* The attempt failed: its starter gets the error, everyone else retries.
CollectFailed(k) ==
    /\ pc[k] = "select"
    /\ dialer[attempt[k]] = "doneErr"
    /\ LeaveWait(k)
    /\ IF startDial[k] THEN Return(k) ELSE Retry(k)
    /\ UNCHANGED <<poolVars, genVars, connecting, dialVars, connVars, readers, held>>

CollectStale(k) ==
    /\ pc[k] = "select"
    /\ dialer[attempt[k]] = "done"
    /\ ~StillCurrent(k)
    /\ LeaveWait(k)
    /\ Return(k)
    /\ UNCHANGED <<poolVars, genVars, connecting, dialVars, connVars, readers, held>>

\* The connection is gone again, or found dead: retry.
CollectGone(k) ==
    /\ pc[k] = "select"
    /\ dialer[attempt[k]] = "done"
    /\ StillCurrent(k)
    /\ \/ shared[state] = NoConn /\ UNCHANGED <<genVars, connVars>>
       \/ /\ shared[state] # NoConn
          /\ ~IsAlive(shared[state])
          /\ removeConn(state, shared[state])
          /\ CloseConn(shared[state])
    /\ LeaveWait(k)
    /\ Retry(k)
    /\ UNCHANGED <<poolVars, connecting, dialVars, readers, held>>

CollectClaim(k) ==
    /\ pc[k] = "select"
    /\ dialer[attempt[k]] = "done"
    /\ StillCurrent(k)
    /\ shared[state] # NoConn
    /\ IsAlive(shared[state])
    /\ claim(k)
    /\ LeaveWait(k)
    /\ UNCHANGED <<poolVars, connecting, dialVars>>

-----------------------------------------------------------------------------
(* connectSingle *)

\* dial returns, and the contexts are looked at: a connection that arrives
\* after the starter's or the generation's ctx is done is closed at once.
DialReturn(c) ==
    /\ dialer[c] = "dial"
    /\ \/ /\ c \notin dialCtxDone /\ connGen[c] \notin cancelled
          /\ dialer' = [dialer EXCEPT ![c] = "ok"]
          /\ sock' = [sock EXCEPT ![c] = "open"]
       \/ /\ c \in dialCtxDone \/ connGen[c] \in cancelled
          /\ dialer' = [dialer EXCEPT ![c] = "err"]
          /\ CloseConn(c)
       \/ /\ dialer' = [dialer EXCEPT ![c] = "err"]
          /\ UNCHANGED sock
    /\ UNCHANGED <<poolVars, genVars, waitVars, connGen, dialCtxDone, dropped, readers, clientVars>>

\* Fault: a swapped p.state is not noticed.
InstallableAnywhere(c) == ~closed

\* The state the dial was started in is still p.state.
Installable(c) == ~closed /\ state = connGen[c]

ConnectInstall(c) ==
    LET g == connGen[c] IN
    /\ dialer[c] \in {"ok", "err"}
    /\ connecting' = [connecting EXCEPT ![g] = NoConn]
    /\ \/ /\ dialer[c] = "err"
          /\ dialer' = [dialer EXCEPT ![c] = "failed"]
          /\ UNCHANGED <<all, shared>>
       \/ /\ dialer[c] = "ok"
          /\ ~Installable(c)
          /\ dialer' = [dialer EXCEPT ![c] = "refused"]
          /\ UNCHANGED <<all, shared>>
       \/ /\ dialer[c] = "ok"
          /\ Installable(c)
          /\ dialer' = [dialer EXCEPT ![c] = "installed"]
          /\ shared' = [shared EXCEPT ![g] = c]
          /\ all' = [all EXCEPT ![g] = @ \cup {c}]
    /\ UNCHANGED <<poolVars, sharedClaimed, sharedUsers, sharedWaiters, connGen,
                   dialCtxDone, connVars, readers, clientVars>>

\* Fault: an error returns before close(state.done).
ConnectDoneSilent(c) ==
    /\ dialer[c] = "installed"
    /\ dialer' = [dialer EXCEPT ![c] = "done"]
    /\ UNCHANGED <<poolVars, genVars, waitVars, connGen, dialCtxDone, connVars, readers, clientVars>>

\* Fault: a connection that came too late is not closed.
ConnectDoneLeaky(c) ==
    /\ dialer[c] \in {"installed", "failed", "refused"}
    /\ dialer' = [dialer EXCEPT ![c] = IF dialer[c] = "installed" THEN "done" ELSE "doneErr"]
    /\ UNCHANGED <<poolVars, genVars, waitVars, connGen, dialCtxDone, connVars, readers, clientVars>>

\* Close a connection nobody may have, then close(state.done).
ConnectDone(c) ==
    /\ dialer[c] \in {"installed", "failed", "refused"}
    /\ IF dialer[c] = "refused" THEN CloseConn(c) ELSE UNCHANGED sock
    /\ dialer' = [dialer EXCEPT ![c] = IF dialer[c] = "installed" THEN "done" ELSE "doneErr"]
    /\ UNCHANGED <<poolVars, genVars, waitVars, connGen, dialCtxDone, dropped, readers, clientVars>>

-----------------------------------------------------------------------------
(* Release, Invalidate, CloseIdle, Reset, Close *)

Tracked(c) == ~closed /\ c \in all[state]

\* The effect of Release on the pool; the caller gives up its use of c.
releaseConn(c, reuse) ==
    \/ /\ ~Tracked(c)
       /\ CloseConn(c)
       /\ UNCHANGED <<genVars, dropped>>
    \/ /\ Tracked(c)
       /\ ~reuse \/ ~IsAlive(c)
       /\ removeConn(state, c)
       /\ CloseConn(c)
    \/ /\ Tracked(c)
       /\ reuse /\ IsAlive(c)
       /\ sharedUsers' = [sharedUsers EXCEPT ![state] =
                            IF shared[state] = c /\ @ > 0 THEN @ - 1 ELSE @]
       /\ UNCHANGED <<all, shared, sharedClaimed, connVars>>

\* The effect of Invalidate on the pool.
invalidateConn(c) ==
    \/ /\ closed
       /\ CloseConn(c)
       /\ UNCHANGED <<genVars, dropped>>
    \/ /\ ~closed /\ c \notin all[state]
       /\ UNCHANGED <<genVars, connVars>>
    \/ /\ Tracked(c)
       /\ removeConn(state, c)
       /\ CloseConn(c)

GiveUp(k) ==
    /\ pc[k] = "holding"
    /\ Return(k)
    /\ held' = [held EXCEPT ![k] = NoConn]
    /\ UNCHANGED <<poolVars, waitVars, dialVars, readers, attempt, startDial>>

Release(k, reuse) == GiveUp(k) /\ releaseConn(held[k], reuse)

Invalidate(k) == GiveUp(k) /\ invalidateConn(held[k])

\* A user told by connCtx that the connection is gone just forgets it.
Forget(k) ==
    /\ GiveUp(k)
    /\ ConnCtxDone(held[k])
    /\ UNCHANGED <<genVars, connVars>>

\* A goroutine that does not count as a user invalidates a connection: the
\* read loop (the client that got it as created started one) on a read error,
\* or a writer whose query has been completed on a write error.
ReaderInvalidate(c) ==
    /\ readers[c] > 0
    /\ invalidateConn(c)
    /\ UNCHANGED <<poolVars, waitVars, dialVars, readers, clientVars>>

\* Fault: waiters that have not collected the connection are overlooked.
IdleButForWaiters == sharedUsers[state] = 0

Idle == sharedUsers[state] = 0 /\ sharedWaiters[state] = 0

\* Fault: the connection is closed but stays in the pool.
CloseIdleKeeps ==
    /\ ~closed
    /\ shared[state] # NoConn
    /\ Idle
    /\ CloseConn(shared[state])
    /\ UNCHANGED <<poolVars, genVars, waitVars, dialVars, dropped, readers, clientVars>>

CloseIdle ==
    /\ ~closed
    /\ shared[state] # NoConn
    /\ Idle
    /\ removeConn(state, shared[state])
    /\ CloseConn(shared[state])
    /\ UNCHANGED <<poolVars, waitVars, dialVars, readers, clientVars>>

Reset ==
    /\ ~closed
    /\ \E g \in Gens \ used :
          /\ state' = g
          /\ used' = used \cup {g}
    /\ closing' = closing \cup {state}
    /\ UNCHANGED <<closed, cancelled, genVars, waitVars, dialVars, connVars, readers, clientVars>>

Close ==
    /\ ~closed
    /\ closed' = TRUE
    /\ closing' = closing \cup {state}
    /\ UNCHANGED <<state, used, cancelled, genVars, waitVars, dialVars, connVars, readers, clientVars>>

\* The tail of Reset and of Close, outside the lock.
closeState(g) ==
    /\ g \in closing
    /\ closing' = closing \ {g}
    /\ cancelled' = cancelled \cup {g}
    /\ sock' = [c \in Conns |-> IF c \in all[g] THEN "closed" ELSE sock[c]]
    /\ UNCHANGED <<closed, state, used, genVars, waitVars, dialVars, dropped, readers, clientVars>>

-----------------------------------------------------------------------------
(* The environment *)

\* A client's context is cancelled, and with it the dial it started.
CancelCtx(k) ==
    /\ pc[k] \in {"acquire", "select"}
    /\ k \notin ctxDone
    /\ ctxDone' = ctxDone \cup {k}
    /\ dialCtxDone' = IF pc[k] = "select" /\ startDial[k]
                      THEN dialCtxDone \cup {attempt[k]} ELSE dialCtxDone
    /\ UNCHANGED <<poolVars, genVars, waitVars, dialer, connGen, connVars, readers,
                   pc, attempt, startDial, held>>

\* The peer closes a connection.
ConnDies(c) ==
    /\ sock[c] = "open"
    /\ sock' = [sock EXCEPT ![c] = "dead"]
    /\ UNCHANGED <<poolVars, genVars, waitVars, dialVars, dropped, readers, clientVars>>

AcquireStep(k) ==
    \/ AcquireClosed(k) \/ AcquireClaim(k) \/ AcquireDead(k) \/ AcquireWait(k)

SelectStep(k) ==
    \/ SelectCtxDone(k) \/ SelectStateDone(k) \/ CollectFailed(k)
    \/ CollectStale(k) \/ CollectGone(k) \/ CollectClaim(k)

DialStep(c) == DialReturn(c) \/ ConnectInstall(c) \/ ConnectDone(c)

ClientStep(k) ==
    \/ Acquire(k) \/ AcquireStep(k) \/ SelectStep(k) \/ CancelCtx(k)
    \/ \E reuse \in BOOLEAN : Release(k, reuse)
    \/ Invalidate(k) \/ Forget(k)

Next ==
    \/ \E k \in Clients : ClientStep(k)
    \/ \E c \in Conns : DialStep(c) \/ ReaderInvalidate(c) \/ ConnDies(c)
    \/ CloseIdle \/ Reset \/ Close
    \/ \E g \in Gens : closeState(g)

\* Runnable goroutines run; dial returns.  Nothing is assumed of the clients'
\* use of a connection, of cancellation or of the peer.
Fairness ==
    /\ \A k \in Clients : WF_vars(SelectStep(k))
    /\ \A c \in Conns : WF_vars(DialStep(c))
    /\ \A g \in Gens : WF_vars(closeState(g))

Spec == Init /\ [][Next]_vars

FairSpec == Spec /\ Fairness

-----------------------------------------------------------------------------
(* Properties *)

\* At most one connection at a time: the connections tracked by a generation
\* are exactly its shared one, and while a dial is registered in connecting
\* (conn_pool.go:346) there is no shared connection it could displace.
SingleConnection ==
    \A g \in Gens :
        /\ all[g] = {shared[g]} \ {NoConn}
        /\ connecting[g] # NoConn => shared[g] = NoConn

\* No connection is lost: one that was dialed and is not closed is tracked by
\* the current state, or by a state whose closeState is still to run, or is in
\* the hands of a connectSingle that will install or close it.
NoLeak ==
    \A c \in Conns :
        sock[c] \in {"open", "dead"} =>
            \/ Tracked(c)
            \/ \E g \in closing : c \in all[g]
            \/ dialer[c] \in {"ok", "refused"}

\* sharedUsers counts the clients that hold the shared connection: the count
\* CloseIdle relies on is neither too small (an early close) nor too large (a
\* connection that is never idle again).
UsersCounted ==
    ~closed /\ shared[state] # NoConn =>
        sharedUsers[state] = Cardinality({k \in Clients : held[k] = shared[state]})

\* sharedWaiters counts the clients in the select of acquireShared.
WaitersCounted ==
    \A g \in Gens :
        sharedWaiters[g] = Cardinality({k \in Clients : pc[k] = "select" /\ current(k) = g})

\* A connection somebody was given was given to exactly one client as created,
\* so exactly one read loop serves it.
OneReader ==
    \A c \in Conns :
        /\ readers[c] <= 1
        /\ (\E k \in Clients : held[k] = c) => readers[c] = 1

\* CloseIdle never takes a connection away from a client that holds it or from
\* one that still waits for the dial that produced it.
IdleCloseSpares ==
    [][CloseIdle => \A k \in Clients : held[k] # shared[state]
                        /\ ~(pc[k] = "select" /\ current(k) = state)]_vars

\* Acquire never hands out a connection the pool has closed, however Reset,
\* Close, Invalidate and CloseIdle interleave with it.
NeverHandsOutClosed ==
    [][\A k \in Clients : pc[k] # "holding" /\ pc'[k] = "holding"
            => ~closed /\ sock[held'[k]] # "closed"]_vars

\* The phase of a connection in SharedConn: it is current while p.state tracks
\* it, and retired once its dial was given up or it is tracked no more.
Phase(c) ==
    IF Tracked(c) THEN "current"
    ELSE IF dialer[c] \in {"none"} \cup Dialing THEN "new" ELSE "retired"

Shared == INSTANCE SharedConn WITH
    phase <- [c \in Conns |-> Phase(c)],
    open <- {c \in Conns : sock[c] \in {"open", "dead"}}

\* The pool implements SharedConn: clients see one connection at a time, which
\* is handed out only while it is current and open, is never closed while it is
\* current, and once retired never comes back, however Acquire, Release,
\* Invalidate, CloseIdle, Reset, Close and the dials interleave.
SharedSpec == Shared!Spec

\* No waiter is stranded: a client in the select leaves it, because the dial
\* it waits for always ends by closing done.
WaiterReturns ==
    \A k \in Clients : pc[k] = "select" ~> pc[k] # "select"

\* Reset and Close get rid of every connection: one dialed in a generation
\* that is no longer current is closed, the one still being dialed included.
OldConnsClosed ==
    \A c \in Conns :
        (sock[c] \in {"open", "dead"} /\ (closed \/ connGen[c] # state)) ~> sock[c] = "closed"

=============================================================================
