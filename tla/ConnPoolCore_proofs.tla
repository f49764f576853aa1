------------------------ MODULE ConnPoolCore_proofs ------------------------
(***************************************************************************)
(* Which connection each generation, dial attempt and client of ConnPool    *)
(* refers to, and that the counters count, for any number of clients,       *)
(* connections and resets.  CoreInv is inductive by itself, and the         *)
(* theorems that need no counting follow from it; IInv adds the counters.   *)
(* ConnPool_proofs has the theorems about cardinalities and about           *)
(* SharedConn.                                                              *)
(***************************************************************************)
EXTENDS ConnPool, TLAPS

\* TypeOK, but for sharedWaiters, which is a natural number only because it
\* counts (WaitersCounted).
CoreType ==
    /\ closed \in BOOLEAN
    /\ state \in Gens
    /\ used \subseteq Gens /\ closing \subseteq Gens /\ cancelled \subseteq Gens
    /\ all \in [Gens -> SUBSET Conns]
    /\ shared \in [Gens -> Conns \cup {NoConn}]
    /\ sharedClaimed \in [Gens -> BOOLEAN]
    /\ sharedUsers \in [Gens -> Nat]
    /\ sharedWaiters \in [Gens -> Int]
    /\ connecting \in [Gens -> Conns \cup {NoConn}]
    /\ dialer \in [Conns -> DialerStates]
    /\ connGen \in [Conns -> Gens]
    /\ dialCtxDone \subseteq Conns /\ dropped \subseteq Conns
    /\ sock \in [Conns -> SockStates]
    /\ readers \in [Conns -> Nat]
    /\ pc \in [Clients -> ClientStates]
    /\ attempt \in [Clients -> Conns \cup {NoConn}]
    /\ startDial \in [Clients -> BOOLEAN]
    /\ held \in [Clients -> Conns \cup {NoConn}]
    /\ ctxDone \subseteq Clients

\* connecting names exactly the attempt of its generation that is dialing.
DialInv ==
    /\ \A g \in Gens : connecting[g] # NoConn =>
            dialer[connecting[g]] \in Dialing /\ connGen[connecting[g]] = g
    /\ \A c \in Conns : dialer[c] \in Dialing => connecting[connGen[c]] = c

\* A generation is current, or being closed, or cancelled; one that was never
\* p.state is blank.
GenInv ==
    /\ state \in used
    /\ \A g \in used : (g = state /\ ~closed) \/ g \in closing \/ g \in cancelled
    /\ \A g \in closing \cup cancelled : g \in used /\ (g = state => closed)
    /\ \A g \in Gens \ used : shared[g] = NoConn
    /\ \A c \in Conns : connGen[c] \in used

\* A shared connection was installed by an attempt of that generation, and
\* the fields that describe it are blank when there is none.
SharedInv ==
    \A g \in Gens :
        /\ shared[g] # NoConn =>
              /\ dialer[shared[g]] \in {"installed", "done"}
              /\ connGen[shared[g]] = g
              /\ shared[g] \notin dropped
              /\ readers[shared[g]] = IF sharedClaimed[g] THEN 1 ELSE 0
        /\ shared[g] = NoConn => ~sharedClaimed[g] /\ sharedUsers[g] = 0

\* Where a connection can be open, and that the current one is not closed.
SockInv ==
    /\ \A c \in Conns :
         /\ dialer[c] \in {"none", "dial", "err", "failed", "doneErr"} => sock[c] \in {"none", "closed"}
         /\ dialer[c] \in {"ok", "refused"} => sock[c] # "closed"
         /\ dialer[c] \in {"installed", "done"} /\ sock[c] \in {"open", "dead"} =>
                shared[connGen[c]] = c /\ connGen[c] \notin cancelled
    /\ ~closed /\ shared[state] # NoConn => sock[shared[state]] # "closed"

\* Clients hold installed connections and wait for attempts that exist.
ClientInv ==
    \A k \in Clients :
        /\ pc[k] = "holding" <=> held[k] # NoConn
        /\ held[k] # NoConn => dialer[held[k]] \in {"installed", "done"} /\ readers[held[k]] = 1
        /\ pc[k] = "select" => attempt[k] # NoConn /\ dialer[attempt[k]] # "none"

ReaderInv ==
    \A c \in Conns :
        /\ readers[c] <= 1
        /\ dialer[c] \notin {"installed", "done"} => readers[c] = 0 /\ c \notin dropped

\* The part that speaks of no client.
PoolInv == SingleConnection /\ DialInv /\ GenInv /\ SharedInv /\ SockInv /\ ReaderInv

CoreInv == CoreType /\ PoolInv /\ ClientInv

\* n is the number of elements of S.
Counts(n, S) ==
    \E f \in [1 .. n -> S] :
        /\ \A i, j \in 1 .. n : f[i] = f[j] => i = j
        /\ \A x \in S : \E i \in 1 .. n : f[i] = x

\* Whom the two counters count.
Holders(c) == {k \in Clients : held[k] = c}
Waiting(g) == {k \in Clients : pc[k] = "select" /\ current(k) = g}

UsersInv == ~closed /\ shared[state] # NoConn => Counts(sharedUsers[state], Holders(shared[state]))
WaitersInv == \A g \in Gens : sharedWaiters[g] \in Nat /\ Counts(sharedWaiters[g], Waiting(g))

\* The inductive invariant.
IInv == CoreInv /\ UsersInv /\ WaitersInv

USE NoConnFresh, ClientsFinite, DetectsDeathBool
USE DEF poolVars, genVars, waitVars, dialVars, connVars, clientVars,
        Dialing, Finished, DialerStates, SockStates, ClientStates,
        CloseConn, Return, Retry, current, LeaveWait, Tracked, GiveUp,
        markClaimed, StillCurrent, Installable, Idle

-----------------------------------------------------------------------------
(* Initially *)

\* The core invariant holds initially.
LEMMA CoreInit == Init => CoreInv
<1> SUFFICES ASSUME Init PROVE CoreInv
  BY Zenon
<1>1. CoreType
  <2>1. 0 \in Nat /\ 0 \in Int
    OBVIOUS
  <2> QED BY Zenon, <2>1 DEF Init, NewConnPool, CoreType
<1>2. SingleConnection /\ DialInv /\ GenInv /\ SharedInv
  BY Zenon DEF Init, NewConnPool, SingleConnection, DialInv, GenInv, SharedInv
<1>3. SockInv /\ ClientInv /\ ReaderInv
  BY DEF Init, NewConnPool, SockInv, ClientInv, ReaderInv
<1> QED BY Zenon, <1>1, <1>2, <1>3 DEF CoreInv, PoolInv

-----------------------------------------------------------------------------
(* Effects on the pool that several actions have *)

\* Steps of clients alone do not disturb the pool.
LEMMA PoolFrame ==
    ASSUME PoolInv,
           UNCHANGED <<poolVars, genVars, connecting, dialer, connGen, connVars, readers>>
    PROVE  PoolInv'
BY DEF PoolInv, SingleConnection, DialInv, GenInv, SharedInv, SockInv, ReaderInv

\* What removeConn followed by Close does to the shared connection.
DropEffect ==
    /\ shared[state] \in Conns
    /\ all' = [all EXCEPT ![state] = @ \ {shared[state]}]
    /\ shared' = [shared EXCEPT ![state] = NoConn]
    /\ sharedClaimed' = [sharedClaimed EXCEPT ![state] = FALSE]
    /\ sharedUsers' = [sharedUsers EXCEPT ![state] = 0]
    /\ dropped' = dropped \cup {shared[state]}
    /\ sock' = [sock EXCEPT ![shared[state]] = "closed"]
    /\ all' \in [Gens -> SUBSET Conns]
    /\ sock' \in [Conns -> SockStates]

\* Dropping the shared connection keeps the pool consistent.
LEMMA PoolDrop ==
    ASSUME CoreInv, DropEffect,
           UNCHANGED <<poolVars, connecting, dialer, connGen, readers>>
    PROVE  PoolInv'
<1> /\ CoreType /\ PoolInv /\ ClientInv /\ SingleConnection
    /\ DialInv /\ GenInv /\ SharedInv /\ SockInv /\ ReaderInv
  BY Zenon DEF CoreInv, PoolInv
<1>1. (SingleConnection /\ GenInv /\ DialInv)'
  BY DEF CoreType, SingleConnection, DialInv, GenInv, DropEffect
<1>2. (SharedInv /\ ReaderInv)'
  BY DEF CoreType, SharedInv, ReaderInv, DropEffect
<1>3. SockInv'
  BY DEF CoreType, SharedInv, SockInv, DropEffect
<1> QED BY Zenon, <1>1, <1>2, <1>3 DEF PoolInv

\* Closing a connection the pool no longer tracks keeps it consistent.
LEMMA PoolClose ==
    ASSUME CoreInv, NEW c \in Conns, dialer[c] \in {"installed", "done"},
           ~Tracked(c), CloseConn(c),
           UNCHANGED <<poolVars, genVars, connecting, dialer, connGen, dropped, readers>>
    PROVE  PoolInv'
<1> /\ CoreType /\ PoolInv /\ ClientInv /\ SingleConnection
    /\ DialInv /\ GenInv /\ SharedInv /\ SockInv /\ ReaderInv
  BY Zenon DEF CoreInv, PoolInv
<1>1. (SingleConnection /\ DialInv /\ GenInv /\ SharedInv /\ ReaderInv)'
  BY Zenon DEF SingleConnection, DialInv, GenInv, SharedInv, ReaderInv
<1>2. SockInv'
  BY DEF CoreType, SingleConnection, SharedInv, SockInv
<1> QED BY Zenon, <1>1, <1>2 DEF PoolInv

\* The one connection a state tracks is its shared one.
LEMMA TrackedShared ==
    ASSUME CoreInv, NEW c \in Conns, Tracked(c)
    PROVE  shared[state] = c /\ shared[state] # NoConn
<1> /\ CoreType /\ PoolInv /\ ClientInv /\ SingleConnection
    /\ DialInv /\ GenInv /\ SharedInv /\ SockInv /\ ReaderInv
  BY Zenon DEF CoreInv, PoolInv
<1> QED BY DEF CoreType, SingleConnection

\* removeConn and Close of the shared connection.
LEMMA DropFacts ==
    ASSUME CoreInv, shared[state] # NoConn, removeConn(state, shared[state]), CloseConn(shared[state])
    PROVE  DropEffect
<1> /\ CoreType /\ PoolInv /\ ClientInv /\ SingleConnection
    /\ DialInv /\ GenInv /\ SharedInv /\ SockInv /\ ReaderInv
  BY Zenon DEF CoreInv, PoolInv
<1> QED BY DEF CoreType, removeConn, DropEffect

\* Handing out the connection keeps the pool consistent.
LEMMA PoolClaim ==
    ASSUME CoreInv, shared[state] # NoConn, markClaimed,
           sharedUsers' = [sharedUsers EXCEPT ![state] = @ + 1],
           UNCHANGED <<poolVars, all, shared, connecting, dialer, connGen, connVars>>
    PROVE  PoolInv'
<1> /\ CoreType /\ PoolInv /\ ClientInv /\ SingleConnection
    /\ DialInv /\ GenInv /\ SharedInv /\ SockInv /\ ReaderInv
  BY Zenon DEF CoreInv, PoolInv
<1>1. (SingleConnection /\ DialInv /\ GenInv /\ SockInv)'
  BY Zenon DEF SingleConnection, DialInv, GenInv, SockInv
<1>2. (SharedInv /\ ReaderInv)'
  BY DEF CoreType, SharedInv, ReaderInv
<1> QED BY Zenon, <1>1, <1>2 DEF PoolInv

-----------------------------------------------------------------------------
(* One lemma per group of actions *)

\* The loop body of acquireShared preserves the core invariant.
LEMMA CoreAcquire ==
    ASSUME CoreInv, NEW k \in Clients, AcquireStep(k) PROVE CoreInv'
<1> /\ CoreType /\ PoolInv /\ ClientInv /\ SingleConnection
    /\ DialInv /\ GenInv /\ SharedInv /\ SockInv /\ ReaderInv
  BY Zenon DEF CoreInv, PoolInv
<1>1. CASE AcquireClosed(k)
  BY ZenonT(40), <1>1, PoolFrame DEF CoreInv, CoreType, ClientInv, AcquireClosed
<1>2. CASE AcquireClaim(k)
  <2>1. PoolInv'
    BY Zenon, <1>2, PoolClaim DEF AcquireClaim, claim
  <2>2. CoreType'
    BY SMTT(40), <1>2 DEF CoreType, AcquireClaim, claim
  <2>3. ClientInv'
    BY SMTT(40), <1>2 DEF CoreType, SharedInv, ReaderInv, ClientInv, AcquireClaim, claim
  <2> QED BY Zenon, <2>1, <2>2, <2>3 DEF CoreInv
<1>3. CASE AcquireDead(k)
  <2>1. DropEffect
    BY Zenon, <1>3, DropFacts DEF AcquireDead
  <2>2. PoolInv'
    BY Zenon, <1>3, <2>1, PoolDrop DEF AcquireDead
  <2> QED
    BY ZenonT(40), <1>3, <2>1, <2>2 DEF CoreInv, CoreType, ClientInv, DropEffect, AcquireDead
<1>4. CASE AcquireWait(k) /\ connecting[state] # NoConn
  <2>1. /\ pc[k] = "acquire" /\ pc' = [pc EXCEPT ![k] = "select"]
        /\ attempt' = [attempt EXCEPT ![k] = connecting[state]]
        /\ startDial' = [startDial EXCEPT ![k] = FALSE]
        /\ sharedWaiters' = [sharedWaiters EXCEPT ![state] = @ + 1]
        /\ UNCHANGED <<poolVars, genVars, connecting, dialVars, connVars, readers, held, ctxDone>>
    BY Zenon, <1>4 DEF AcquireWait
  <2>2. PoolInv'
    BY Zenon, <2>1, PoolFrame
  <2>3. CoreType'
    BY <2>1 DEF CoreType
  <2>4. ClientInv'
    BY SMTT(40), <1>4, <2>1 DEF CoreType, DialInv, ClientInv
  <2> QED BY Zenon, <2>2, <2>3, <2>4 DEF CoreInv
<1>5. CASE AcquireWait(k) /\ connecting[state] = NoConn
  <2>1. PICK c \in Conns :
          /\ dialer[c] = "none"
          /\ connecting' = [connecting EXCEPT ![state] = c]
          /\ dialer' = [dialer EXCEPT ![c] = "dial"]
          /\ connGen' = [connGen EXCEPT ![c] = state]
          /\ dialCtxDone' = IF k \in ctxDone THEN dialCtxDone \cup {c} ELSE dialCtxDone
          /\ attempt' = [attempt EXCEPT ![k] = c]
          /\ startDial' = [startDial EXCEPT ![k] = TRUE]
    BY Zenon, <1>5 DEF AcquireWait
  <2>2. /\ pc[k] = "acquire" /\ pc' = [pc EXCEPT ![k] = "select"] /\ shared[state] = NoConn
        /\ sharedWaiters' = [sharedWaiters EXCEPT ![state] = @ + 1]
        /\ UNCHANGED <<poolVars, genVars, connVars, readers, held, ctxDone>>
    BY Zenon, <1>5 DEF AcquireWait
  <2>3. CoreType'
    BY <2>1, <2>2 DEF CoreType
  <2>4. DialInv'
    BY <1>5, <2>1, <2>2 DEF CoreType, DialInv
  <2>5. (SingleConnection /\ GenInv /\ SharedInv)'
    BY <2>1, <2>2 DEF CoreType, SingleConnection, GenInv, SharedInv
  <2>6. (SockInv /\ ReaderInv)'
    <3>1. dialer \in [Conns -> DialerStates] /\ connGen \in [Conns -> Gens] /\ state \in Gens
      BY Zenon DEF CoreType
    <3>2. SockInv'
      BY <2>1, <2>2, <3>1 DEF SockInv
    <3>3. ReaderInv'
      BY <2>1, <2>2, <3>1 DEF ReaderInv
    <3> QED BY Zenon, <3>2, <3>3
  <2>7. ClientInv'
    BY <2>1, <2>2 DEF CoreType, ClientInv
  <2> QED BY Zenon, <2>3, <2>4, <2>5, <2>6, <2>7 DEF CoreInv, PoolInv
<1> QED BY Zenon, <1>1, <1>2, <1>3, <1>4, <1>5 DEF AcquireStep

\* Leaving the select keeps the types of what it changes.
LEMMA LeaveTypes ==
    ASSUME CoreInv, NEW k \in Clients, pc[k] = "select", LeaveWait(k)
    PROVE  /\ sharedWaiters' \in [Gens -> Int]
           /\ attempt' \in [Clients -> Conns \cup {NoConn}]
           /\ startDial' \in [Clients -> BOOLEAN]
<1> /\ CoreType /\ PoolInv /\ ClientInv /\ SingleConnection
    /\ DialInv /\ GenInv /\ SharedInv /\ SockInv /\ ReaderInv
  BY Zenon DEF CoreInv, PoolInv
<1> QED BY DEF CoreType, ClientInv

\* Leaving the select without a connection preserves the core invariant.
LEMMA CoreLeave ==
    ASSUME CoreInv, NEW k \in Clients, pc[k] = "select",
           LeaveWait(k), Return(k) \/ Retry(k),
           UNCHANGED <<poolVars, genVars, connecting, dialVars, connVars, readers, held>>
    PROVE  CoreInv'
<1> /\ CoreType /\ PoolInv /\ ClientInv /\ SingleConnection
    /\ DialInv /\ GenInv /\ SharedInv /\ SockInv /\ ReaderInv
  BY Zenon DEF CoreInv, PoolInv
<1>1. PoolInv'
  BY Zenon, PoolFrame
<1>2. CoreType'
  BY Zenon, LeaveTypes DEF CoreType
<1>3. ClientInv'
  BY DEF CoreType, ClientInv
<1> QED BY Zenon, <1>1, <1>2, <1>3 DEF CoreInv

\* The select and collectShared preserve the core invariant.
LEMMA CoreSelect ==
    ASSUME CoreInv, NEW k \in Clients, SelectStep(k) PROVE CoreInv'
<1> /\ CoreType /\ PoolInv /\ ClientInv /\ SingleConnection
    /\ DialInv /\ GenInv /\ SharedInv /\ SockInv /\ ReaderInv
  BY Zenon DEF CoreInv, PoolInv
<1>1. CASE SelectCtxDone(k) \/ SelectStateDone(k) \/ CollectFailed(k) \/ CollectStale(k)
  BY Zenon, <1>1, CoreLeave DEF SelectCtxDone, SelectStateDone, CollectFailed, CollectStale
<1>2. CASE CollectGone(k) /\ shared[state] = NoConn
  BY Zenon, <1>2, CoreLeave DEF CollectGone
<1>3. CASE CollectGone(k) /\ shared[state] # NoConn
  <2>1. /\ removeConn(state, shared[state]) /\ CloseConn(shared[state])
        /\ LeaveWait(k) /\ Retry(k) /\ pc[k] = "select"
        /\ UNCHANGED <<poolVars, connecting, dialVars, readers, held>>
    BY Zenon, <1>3 DEF CollectGone
  <2>2. DropEffect
    BY Zenon, <1>3, <2>1, DropFacts
  <2>3. PoolInv'
    BY Zenon, <2>1, <2>2, PoolDrop
  <2>4. CoreType'
    BY Zenon, <2>1, <2>2, LeaveTypes DEF CoreType, DropEffect
  <2>5. ClientInv'
    BY ZenonT(40), <2>1 DEF CoreType, ClientInv
  <2> QED BY Zenon, <2>3, <2>4, <2>5 DEF CoreInv
<1>4. CASE CollectClaim(k)
  <2>1. PoolInv'
    BY Zenon, <1>4, PoolClaim DEF CollectClaim, claim
  <2>2. CoreType'
    <3>1. pc[k] = "select" /\ LeaveWait(k) /\ claim(k) /\ shared[state] # NoConn
          /\ UNCHANGED <<poolVars, connecting, dialVars>>
      BY Zenon, <1>4 DEF CollectClaim
    <3>2. /\ readers' \in [Conns -> Nat] /\ sharedClaimed' \in [Gens -> BOOLEAN]
          /\ sharedUsers' \in [Gens -> Nat] /\ pc' \in [Clients -> ClientStates]
          /\ held' \in [Clients -> Conns \cup {NoConn}] /\ ctxDone' \subseteq Clients
          /\ UNCHANGED <<all, shared, connVars>>
      BY SMTT(40), <3>1 DEF CoreType, claim
    <3> QED BY Zenon, <3>1, <3>2, LeaveTypes DEF CoreInv, CoreType
  <2>3. ClientInv'
    <3> DEFINE c == shared[state]
    <3>1. c \in Conns /\ dialer[c] \in {"installed", "done"}
          /\ readers[c] = IF sharedClaimed[state] THEN 1 ELSE 0
      BY <1>4 DEF CoreType, SharedInv, CollectClaim
    <3>2. /\ readers' = [readers EXCEPT ![c] = IF sharedClaimed[state] THEN @ ELSE @ + 1]
          /\ pc' = [pc EXCEPT ![k] = "holding"] /\ held' = [held EXCEPT ![k] = c]
          /\ attempt' = [attempt EXCEPT ![k] = NoConn] /\ UNCHANGED dialer
      BY Zenon, <1>4 DEF CollectClaim, claim, markClaimed, LeaveWait, dialVars
    <3>3. readers'[c] = 1 /\ \A x \in Conns : x # c => readers'[x] = readers[x]
      BY <3>1, <3>2 DEF CoreType
    <3> HIDE DEF c
    <3> QED BY SMTT(40), <3>1, <3>2, <3>3 DEF CoreInv, CoreType, ClientInv
  <2> QED BY Zenon, <2>1, <2>2, <2>3 DEF CoreInv
<1> QED BY Zenon, <1>1, <1>2, <1>3, <1>4 DEF SelectStep

\* Release, Invalidate and forgetting a connection preserve the core invariant.
LEMMA CoreGiveUp ==
    ASSUME CoreInv, NEW k \in Clients,
           (\E reuse \in BOOLEAN : Release(k, reuse)) \/ Invalidate(k) \/ Forget(k)
    PROVE  CoreInv'
<1> /\ CoreType /\ PoolInv /\ ClientInv /\ SingleConnection
    /\ DialInv /\ GenInv /\ SharedInv /\ SockInv /\ ReaderInv
  BY Zenon DEF CoreInv, PoolInv
<1> DEFINE c == held[k]
<1>1. c \in Conns /\ dialer[c] \in {"installed", "done"} /\ GiveUp(k)
  BY DEF CoreType, ClientInv, Release, Invalidate, Forget
<1>2. ClientInv'
  BY <1>1 DEF CoreType, ClientInv
<1>3. CASE UNCHANGED <<genVars, connVars>>
  BY Zenon, <1>1, <1>2, <1>3, PoolFrame DEF CoreInv, CoreType
<1>4. CASE ~Tracked(c) /\ CloseConn(c) /\ UNCHANGED <<genVars, dropped>>
  <2>1. PoolInv'
    BY Zenon, <1>1, <1>4, PoolClose
  <2>2. sock' \in [Conns -> SockStates]
    BY Zenon, <1>1, <1>4 DEF CoreType
  <2> QED BY Zenon, <1>1, <1>2, <1>4, <2>1, <2>2 DEF CoreInv, CoreType
<1>5. CASE Tracked(c) /\ removeConn(state, c) /\ CloseConn(c)
  <2>1. DropEffect
    BY Zenon, <1>1, <1>5, TrackedShared, DropFacts
  <2>2. PoolInv'
    BY Zenon, <1>1, <2>1, PoolDrop
  <2> QED BY Zenon, <1>1, <1>2, <2>1, <2>2 DEF CoreInv, CoreType, DropEffect
<1>6. CASE /\ Tracked(c)
           /\ sharedUsers' = [sharedUsers EXCEPT ![state] =
                                IF shared[state] = c /\ @ > 0 THEN @ - 1 ELSE @]
           /\ UNCHANGED <<all, shared, sharedClaimed, connVars>>
  <2>1. sharedUsers' \in [Gens -> Nat]
    BY <1>6 DEF CoreType
  <2>2. (SingleConnection /\ DialInv /\ GenInv /\ SockInv /\ ReaderInv)'
    BY Zenon, <1>1, <1>6 DEF SingleConnection, DialInv, GenInv, SockInv, ReaderInv
  <2>3. SharedInv'
    BY <1>1, <1>6, TrackedShared DEF CoreType, SharedInv
  <2> QED BY Zenon, <1>1, <1>2, <1>6, <2>1, <2>2, <2>3 DEF CoreInv, CoreType, PoolInv
<1> QED
  BY Zenon, <1>3, <1>4, <1>5, <1>6 DEF Release, Invalidate, Forget, releaseConn, invalidateConn

\* connectSingle preserves the core invariant.
LEMMA CoreDial ==
    ASSUME CoreInv, NEW c \in Conns, DialStep(c) PROVE CoreInv'
<1> /\ CoreType /\ PoolInv /\ ClientInv /\ SingleConnection
    /\ DialInv /\ GenInv /\ SharedInv /\ SockInv /\ ReaderInv
  BY Zenon DEF CoreInv, PoolInv
<1>0. /\ state \in Gens /\ shared \in [Gens -> Conns \cup {NoConn}]
      /\ all \in [Gens -> SUBSET Conns] /\ connecting \in [Gens -> Conns \cup {NoConn}]
      /\ dialer \in [Conns -> DialerStates] /\ connGen \in [Conns -> Gens]
      /\ sock \in [Conns -> SockStates] /\ readers \in [Conns -> Nat]
  BY Zenon DEF CoreType
<1>1. CASE DialReturn(c)
  <2>1. PICK d \in {"ok", "err"}, s \in SockStates :
          /\ dialer[c] = "dial"
          /\ dialer' = [dialer EXCEPT ![c] = d] /\ sock' = [sock EXCEPT ![c] = s]
          /\ d = "ok" => s = "open"
          /\ d = "err" => s \in {"none", "closed"}
    <3>1. CASE UNCHANGED sock
      BY <1>1, <3>1 DEF CoreType, SockInv, DialReturn
    <3> QED BY Zenon, <1>1, <3>1 DEF DialReturn
  <2>2. UNCHANGED <<poolVars, genVars, waitVars, connGen, dialCtxDone, dropped, readers, clientVars>>
    BY Zenon, <1>1 DEF DialReturn
  <2>3. CoreType'
    BY Zenon, <2>1, <2>2 DEF CoreType
  <2>4. (SingleConnection /\ GenInv /\ DialInv)'
    BY <1>0, <2>1, <2>2 DEF SingleConnection, GenInv, DialInv
  <2>5. (SharedInv /\ ReaderInv)'
    BY <1>0, <2>1, <2>2 DEF SharedInv, ReaderInv
  <2>6. SockInv'
    BY <1>0, <2>1, <2>2 DEF SharedInv, SockInv
  <2>7. ClientInv'
    BY <2>1, <2>2 DEF CoreType, ClientInv
  <2> QED BY Zenon, <2>3, <2>4, <2>5, <2>6, <2>7 DEF CoreInv, PoolInv
<1>2. CASE ConnectInstall(c)
  <2> DEFINE g == connGen[c]
  <2>1. connecting[g] = c /\ shared[g] = NoConn /\ g \in Gens
    BY Zenon, <1>2 DEF CoreType, SingleConnection, DialInv, ConnectInstall
  <2>2. /\ connecting' = [connecting EXCEPT ![g] = NoConn]
        /\ dialer[c] \in {"ok", "err"}
        /\ UNCHANGED <<poolVars, sharedClaimed, sharedUsers, sharedWaiters, connGen,
                       dialCtxDone, connVars, readers, clientVars>>
    BY Zenon, <1>2 DEF ConnectInstall
  <2>3. CASE dialer[c] = "ok" /\ Installable(c)
    <3>1. /\ dialer' = [dialer EXCEPT ![c] = "installed"] /\ g = state /\ ~closed
          /\ shared' = [shared EXCEPT ![g] = c] /\ all' = [all EXCEPT ![g] = @ \cup {c}]
      BY Zenon, <1>2, <2>3 DEF ConnectInstall
    <3>2. all' \in [Gens -> SUBSET Conns] /\ shared' \in [Gens -> Conns \cup {NoConn}]
      BY ZenonT(40), <3>1 DEF CoreType
    <3>3. CoreType'
      BY Zenon, <2>2, <3>1, <3>2 DEF CoreType
    <3>4. SockInv'
      <4>1. state \notin cancelled
        BY Zenon, <3>1 DEF GenInv
      <4>2. dialer'[c] = "installed" /\ shared'[g] = c /\ sock[c] # "closed"
        BY Zenon, <1>0, <2>1, <2>3, <3>1 DEF SockInv
      <4>3. \A e \in Conns \ {c} : dialer'[e] = dialer[e]
        BY Zenon, <1>0, <3>1
      <4>4. \A h \in Gens : shared[h] # NoConn => shared'[h] = shared[h]
        BY Zenon, <1>0, <2>1, <3>1
      <4>5. UNCHANGED <<closed, state, cancelled, connGen, sock>>
        BY Zenon, <2>2
      <4>6. ASSUME NEW e \in Conns
            PROVE  /\ dialer'[e] \in {"none", "dial", "err", "failed", "doneErr"} => sock[e] \in {"none", "closed"}
                   /\ dialer'[e] \in {"ok", "refused"} => sock[e] # "closed"
                   /\ dialer'[e] \in {"installed", "done"} /\ sock[e] \in {"open", "dead"} =>
                          shared'[connGen[e]] = e /\ connGen[e] \notin cancelled
        <5>1. CASE e = c
          BY Zenon, <3>1, <4>1, <4>2, <5>1
        <5>2. CASE e # c
          <6>1. connGen[e] \in Gens
            BY Zenon, <1>0
          <6>2. shared[connGen[e]] = e => shared'[connGen[e]] = e
            BY Zenon, <4>4, <6>1
          <6> QED BY Zenon, <4>3, <5>2, <6>2 DEF SockInv
        <5> QED BY Zenon, <5>1, <5>2
      <4>7. sock[shared'[state]] # "closed"
        BY Zenon, <3>1, <4>2
      <4> HIDE DEF g
      <4> QED BY Zenon, <4>5, <4>6, <4>7 DEF SockInv
    <3>5. (SingleConnection /\ DialInv /\ GenInv)'
      <4>1. SingleConnection'
        BY <1>0, <2>1, <2>2, <3>1 DEF SingleConnection
      <4>2. DialInv'
        BY <1>0, <2>1, <2>2, <3>1 DEF DialInv
      <4>3. GenInv'
        BY <1>0, <2>1, <2>2, <3>1 DEF GenInv
      <4> QED BY Zenon, <4>1, <4>2, <4>3
    <3>6. (SharedInv /\ ReaderInv)'
      <4>1. SharedInv'
        BY <1>0, <2>1, <2>2, <3>1 DEF SharedInv, ReaderInv
      <4>2. ReaderInv'
        BY <1>0, <2>2, <3>1 DEF ReaderInv
      <4> QED BY Zenon, <4>1, <4>2
    <3>7. ClientInv'
      BY <2>2, <3>1 DEF CoreType, ClientInv
    <3> QED BY Zenon, <3>3, <3>4, <3>5, <3>6, <3>7 DEF CoreInv, PoolInv
  <2>4. CASE ~(dialer[c] = "ok" /\ Installable(c))
    <3>1. PICK d \in {"failed", "refused"} :
            /\ d = "failed" <=> dialer[c] = "err"
            /\ dialer' = [dialer EXCEPT ![c] = d]
            /\ UNCHANGED <<all, shared>>
      BY Zenon, <1>2, <2>4 DEF ConnectInstall
    <3>2. CoreType'
      BY Zenon, <2>1, <2>2, <3>1 DEF CoreType
    <3>3. (SingleConnection /\ GenInv /\ DialInv)'
      BY <1>0, <2>1, <2>2, <3>1 DEF SingleConnection, GenInv, DialInv
    <3>4. SharedInv' /\ ReaderInv'
      <4>1. SharedInv'
        BY <1>0, <2>2, <3>1 DEF SharedInv
      <4> QED BY <1>0, <2>2, <3>1, <4>1 DEF ReaderInv
    <3>5. SockInv'
      BY <1>0, <2>2, <3>1 DEF SockInv
    <3>6. ClientInv'
      BY <2>2, <3>1 DEF CoreType, ClientInv
    <3> QED BY Zenon, <3>2, <3>3, <3>4, <3>5, <3>6 DEF CoreInv, PoolInv
  <2> QED BY Zenon, <2>3, <2>4
<1>3. CASE ConnectDone(c)
  <2>1. PICK d \in {"done", "doneErr"} :
          /\ d = "done" <=> dialer[c] = "installed"
          /\ dialer' = [dialer EXCEPT ![c] = d]
    BY Zenon, <1>3 DEF ConnectDone
  <2>2. sock' \in [Conns -> SockStates]
    BY Zenon, <1>3 DEF CoreType, ConnectDone
  <2>3. CoreType'
    BY ZenonT(40), <1>3, <2>1, <2>2 DEF CoreType, ConnectDone
  <2>4. (SingleConnection /\ GenInv /\ DialInv)'
    BY <1>0, <1>3, <2>1 DEF SingleConnection, GenInv, DialInv, ConnectDone
  <2>5. (SharedInv /\ ReaderInv)'
    BY <1>0, <1>3, <2>1 DEF SharedInv, ReaderInv, ConnectDone
  <2>6. SockInv'
    <3>1. /\ UNCHANGED <<closed, state, cancelled, shared, connGen>>
          /\ sock' = sock \/ (dialer[c] = "refused" /\ sock' = [sock EXCEPT ![c] = "closed"])
          /\ dialer[c] \in {"installed", "failed", "refused"}
      BY Zenon, <1>3 DEF ConnectDone
    <3>2. \A e \in Conns \ {c} : dialer'[e] = dialer[e] /\ sock'[e] = sock[e]
      BY Zenon, <1>0, <2>1, <3>1
    <3>3. /\ dialer'[c] = d
          /\ dialer[c] = "refused" => sock'[c] = "closed"
          /\ dialer[c] # "refused" => sock'[c] = sock[c]
      <4>1. dialer[c] # "refused" => sock' = sock
        BY Zenon, <3>1
      <4>2. dialer[c] = "refused" => sock' = [sock EXCEPT ![c] = "closed"]
        BY Zenon, <1>3 DEF ConnectDone
      <4> QED BY Zenon, <1>0, <2>1, <4>1, <4>2
    <3>4. ASSUME NEW e \in Conns
          PROVE  /\ dialer'[e] \in {"none", "dial", "err", "failed", "doneErr"} => sock'[e] \in {"none", "closed"}
                 /\ dialer'[e] \in {"ok", "refused"} => sock'[e] # "closed"
                 /\ dialer'[e] \in {"installed", "done"} /\ sock'[e] \in {"open", "dead"} =>
                        shared[connGen[e]] = e /\ connGen[e] \notin cancelled
      <4>1. CASE e # c
        BY Zenon, <3>2, <4>1 DEF SockInv
      <4>2. CASE e = c
        BY Zenon, <2>1, <3>1, <3>3, <4>2 DEF SockInv
      <4> QED BY Zenon, <4>1, <4>2
    <3>5. ~closed /\ shared[state] # NoConn => sock'[shared[state]] # "closed"
      <4> SUFFICES ASSUME ~closed, shared[state] # NoConn PROVE sock'[shared[state]] # "closed"
        BY Zenon
      <4>0. state \in Gens /\ shared[state] \in Conns
        BY Zenon, <1>0
      <4>1. shared[state] \in Conns /\ dialer[shared[state]] \in {"installed", "done"}
        BY Zenon, <4>0 DEF SharedInv
      <4>2. sock[shared[state]] # "closed"
        BY Zenon DEF SockInv
      <4> QED BY Zenon, <3>2, <3>3, <4>1, <4>2
    <3> QED BY Zenon, <3>1, <3>4, <3>5 DEF SockInv
  <2>7. ClientInv'
    BY <1>3, <2>1 DEF CoreType, ClientInv, ConnectDone
  <2> QED BY Zenon, <2>3, <2>4, <2>5, <2>6, <2>7 DEF CoreInv, PoolInv
<1> QED BY Zenon, <1>1, <1>2, <1>3 DEF DialStep

\* A read loop that invalidates its connection, and CloseIdle, preserve it.
LEMMA CoreClose ==
    ASSUME CoreInv, CloseIdle \/ \E c \in Conns : ReaderInvalidate(c) PROVE CoreInv'
<1> /\ CoreType /\ PoolInv /\ ClientInv /\ SingleConnection
    /\ DialInv /\ GenInv /\ SharedInv /\ SockInv /\ ReaderInv
  BY Zenon DEF CoreInv, PoolInv
<1>1. UNCHANGED <<poolVars, waitVars, dialVars, readers, clientVars>>
  BY Zenon DEF CloseIdle, ReaderInvalidate
<1>2. ClientInv'
  BY Zenon, <1>1 DEF ClientInv
<1>3. CASE DropEffect
  <2>1. PoolInv'
    BY Zenon, <1>1, <1>3, PoolDrop
  <2> QED BY Zenon, <1>1, <1>2, <1>3, <2>1 DEF CoreInv, CoreType, DropEffect
<1>4. CASE CloseIdle
  BY Zenon, <1>3, <1>4, DropFacts DEF CloseIdle
<1>5. ASSUME NEW c \in Conns, ReaderInvalidate(c) PROVE CoreInv'
  <2>1. CASE UNCHANGED <<genVars, connVars>>
    BY Zenon, <1>1, <1>2, <2>1, PoolFrame DEF CoreInv, CoreType
  <2>2. CASE closed /\ CloseConn(c) /\ UNCHANGED <<genVars, dropped>>
    <3>1. dialer[c] \in {"installed", "done"}
      BY <1>5 DEF CoreType, ReaderInv, ReaderInvalidate
    <3>2. PoolInv'
      BY Zenon, <1>1, <2>2, <3>1, PoolClose
    <3>3. sock' \in [Conns -> SockStates]
      BY Zenon, <2>2 DEF CoreType
    <3> QED BY Zenon, <1>1, <1>2, <2>2, <3>2, <3>3 DEF CoreInv, CoreType
  <2>3. CASE Tracked(c) /\ removeConn(state, c) /\ CloseConn(c)
    BY Zenon, <1>3, <2>3, TrackedShared, DropFacts
  <2> QED BY Zenon, <1>5, <2>1, <2>2, <2>3 DEF ReaderInvalidate, invalidateConn
<1> QED BY Zenon, <1>4, <1>5

\* Reset, Close and closeState preserve the core invariant.
LEMMA CorePool ==
    ASSUME CoreInv, Reset \/ Close \/ \E g \in Gens : closeState(g) PROVE CoreInv'
<1> /\ CoreType /\ PoolInv /\ ClientInv /\ SingleConnection
    /\ DialInv /\ GenInv /\ SharedInv /\ SockInv /\ ReaderInv
  BY Zenon DEF CoreInv, PoolInv
<1>0. /\ state \in Gens /\ shared \in [Gens -> Conns \cup {NoConn}]
      /\ all \in [Gens -> SUBSET Conns] /\ connecting \in [Gens -> Conns \cup {NoConn}]
      /\ dialer \in [Conns -> DialerStates] /\ connGen \in [Conns -> Gens]
      /\ sock \in [Conns -> SockStates] /\ readers \in [Conns -> Nat]
  BY Zenon DEF CoreType
<1>1. CASE Reset \/ Close
  <2>1. /\ state' \in Gens /\ closed' \in BOOLEAN /\ closing' = closing \cup {state}
        /\ used' = used \cup {state'}
        /\ closed' \/ state' \notin used
        /\ closed => closed'
        /\ closed' => state' = state
        /\ UNCHANGED <<cancelled, genVars, waitVars, dialVars, connVars, readers, clientVars>>
    <3>1. CASE Reset
      BY Zenon, <3>1 DEF CoreType, Reset
    <3>2. CASE Close
      <4>1. state \in used
        BY Zenon DEF GenInv
      <4>2. used' = used \cup {state}
        BY Zenon, <3>2, <4>1 DEF Close
      <4> QED BY Zenon, <1>0, <3>2, <4>2 DEF Close
    <3> QED BY Zenon, <1>1, <3>1, <3>2
  <2>2. CoreType' /\ ClientInv'
    <3>1. CoreType'
      BY Zenon, <2>1 DEF CoreType
    <3>2. ClientInv'
      BY Zenon, <2>1 DEF ClientInv
    <3> QED BY Zenon, <3>1, <3>2
  <2>3. (SingleConnection /\ DialInv /\ SharedInv /\ ReaderInv)'
    BY Zenon, <2>1 DEF SingleConnection, DialInv, SharedInv, ReaderInv
  <2>4. (GenInv /\ SockInv)'
    BY <1>0, <2>1 DEF GenInv, SockInv
  <2> QED BY Zenon, <2>2, <2>3, <2>4 DEF CoreInv, PoolInv
<1>2. ASSUME NEW g \in Gens, closeState(g) PROVE CoreInv'
  <2>1. (SingleConnection /\ DialInv /\ SharedInv /\ ReaderInv /\ ClientInv)'
    <3>1. UNCHANGED <<genVars, waitVars, dialVars, dropped, readers, clientVars>>
      BY Zenon, <1>2 DEF closeState
    <3>2. (SingleConnection /\ DialInv /\ SharedInv)'
      BY Zenon, <3>1 DEF SingleConnection, DialInv, SharedInv
    <3>3. (ReaderInv /\ ClientInv)'
      BY Zenon, <3>1 DEF ReaderInv, ClientInv
    <3> QED BY Zenon, <3>2, <3>3
  <2>2. CoreType'
    BY Zenon, <1>2 DEF CoreType, closeState
  <2>3. GenInv'
    BY <1>0, <1>2 DEF GenInv, closeState
  <2>4. SockInv'
    BY <1>0, <1>2 DEF SingleConnection, GenInv, SharedInv, SockInv, closeState
  <2> QED BY ZenonT(40), <2>1, <2>2, <2>3, <2>4 DEF CoreInv, PoolInv
<1> QED BY Zenon, <1>1, <1>2

\* New calls, cancellation and dying peers preserve the core invariant.
LEMMA CoreEnv ==
    ASSUME CoreInv, \/ \E k \in Clients : Acquire(k) \/ CancelCtx(k)
                    \/ \E c \in Conns : ConnDies(c)
    PROVE  CoreInv'
<1> /\ CoreType /\ PoolInv /\ ClientInv /\ SingleConnection
    /\ DialInv /\ GenInv /\ SharedInv /\ SockInv /\ ReaderInv
  BY ZenonT(40) DEF CoreInv, PoolInv
<1>1. ASSUME NEW k \in Clients, Acquire(k) PROVE CoreInv'
  <2>1. /\ pc[k] = "idle" /\ pc' = [pc EXCEPT ![k] = "acquire"]
        /\ UNCHANGED <<poolVars, genVars, waitVars, dialVars, connVars, readers, attempt, startDial, held, ctxDone>>
    BY Zenon, <1>1 DEF Acquire, Retry
  <2>2. PoolInv'
    BY Zenon, <2>1, PoolFrame DEF waitVars, dialVars
  <2>3. CoreType'
    BY Zenon, <2>1 DEF CoreType, poolVars, genVars, waitVars, dialVars, connVars
  <2>4. ClientInv'
    BY ZenonT(40), <2>1 DEF CoreType, ClientInv, dialVars
  <2> QED BY Zenon, <2>2, <2>3, <2>4 DEF CoreInv
<1>2. ASSUME NEW k \in Clients, CancelCtx(k) PROVE CoreInv'
  <2>1. CoreType'
    <3>1. pc[k] = "select" => attempt[k] \in Conns
      <4>1. attempt[k] \in Conns \cup {NoConn}
        BY Zenon DEF CoreType
      <4> QED BY Zenon, <4>1 DEF ClientInv
    <3>2. dialCtxDone' \subseteq Conns /\ ctxDone' \subseteq Clients
      BY Zenon, <1>2, <3>1 DEF CoreType, CancelCtx
    <3>3. UNCHANGED <<poolVars, genVars, waitVars, dialer, connGen, connVars, readers,
                      pc, attempt, startDial, held>>
      BY Zenon, <1>2 DEF CancelCtx
    <3> QED BY Zenon, <3>2, <3>3 DEF CoreType
  <2> QED BY ZenonT(40), <1>2, <2>1, PoolFrame DEF CoreInv, ClientInv, CancelCtx
<1>3. ASSUME NEW c \in Conns, ConnDies(c) PROVE CoreInv'
  <2>1. CoreType' /\ ClientInv'
    BY Zenon, <1>3 DEF CoreType, ClientInv, ConnDies
  <2>2. (SingleConnection /\ DialInv /\ GenInv /\ SharedInv /\ ReaderInv)'
    <3>1. SingleConnection' /\ DialInv'
      BY Zenon, <1>3 DEF SingleConnection, DialInv, ConnDies
    <3>2. GenInv' /\ SharedInv'
      BY ZenonT(40), <1>3 DEF GenInv, SharedInv, ConnDies
    <3>3. ReaderInv'
      BY Zenon, <1>3 DEF ReaderInv, ConnDies
    <3> QED BY Zenon, <3>1, <3>2, <3>3
  <2>3. SockInv'
    <3>1. shared[state] \in Conns \cup {NoConn} /\ sock \in [Conns -> SockStates]
      BY Zenon DEF CoreType
    <3>2. \A e \in Conns : sock'[e] = sock[e] \/ (sock[e] = "open" /\ sock'[e] = "dead")
      BY Zenon, <1>3, <3>1 DEF ConnDies
    <3>3. UNCHANGED <<closed, state, cancelled, shared, dialer, connGen>>
      BY Zenon, <1>3 DEF ConnDies
    <3>4. ASSUME NEW e \in Conns
          PROVE  /\ dialer[e] \in {"none", "dial", "err", "failed", "doneErr"} => sock'[e] \in {"none", "closed"}
                 /\ dialer[e] \in {"ok", "refused"} => sock'[e] # "closed"
                 /\ dialer[e] \in {"installed", "done"} /\ sock'[e] \in {"open", "dead"} =>
                        shared[connGen[e]] = e /\ connGen[e] \notin cancelled
      BY Zenon, <3>2 DEF SockInv
    <3>5. ~closed /\ shared[state] # NoConn => sock'[shared[state]] # "closed"
      BY Zenon, <3>1, <3>2 DEF SockInv
    <3> QED BY Zenon, <3>3, <3>4, <3>5 DEF SockInv
  <2> QED BY Zenon, <2>1, <2>2, <2>3 DEF CoreInv, PoolInv
<1> QED BY Zenon, <1>1, <1>2, <1>3

\* Every step preserves the core invariant.
LEMMA CoreNext ==
    ASSUME CoreInv, [Next]_vars PROVE CoreInv'
<1>1. CASE UNCHANGED vars
  BY Zenon, <1>1, PoolFrame DEF CoreInv, vars, CoreType, ClientInv
<1>2. ASSUME NEW k \in Clients, ClientStep(k) PROVE CoreInv'
  BY Zenon, <1>2, CoreAcquire, CoreSelect, CoreGiveUp, CoreEnv DEF ClientStep
<1>3. ASSUME NEW c \in Conns, DialStep(c) \/ ReaderInvalidate(c) \/ ConnDies(c) PROVE CoreInv'
  BY Zenon, <1>3, CoreDial, CoreClose, CoreEnv
<1>4. CASE CloseIdle \/ Reset \/ Close \/ \E g \in Gens : closeState(g)
  BY Zenon, <1>4, CoreClose, CorePool
<1> QED BY Zenon, <1>1, <1>2, <1>3, <1>4 DEF Next

-----------------------------------------------------------------------------
(* Counting *)

\* Nothing has no elements, and what has none is nothing.
LEMMA CountNone == ASSUME NEW S PROVE Counts(0, S) <=> S = {}
<1>1. 1 .. 0 = {}
  OBVIOUS
<1>2. ASSUME S = {} PROVE [i \in 1 .. 0 |-> i] \in [1 .. 0 -> S]
  BY <1>1
<1>3. ASSUME S = {} PROVE Counts(0, S)
  BY Zenon, <1>1, <1>2, <1>3 DEF Counts
<1>4. ASSUME Counts(0, S) PROVE S = {}
  BY Zenon, <1>1, <1>4 DEF Counts
<1> QED BY Zenon, <1>3, <1>4

\* What is counted as something has an element.
LEMMA CountSome == ASSUME NEW S, NEW n \in Nat, n # 0, Counts(n, S) PROVE S # {}
<1>1. 1 \in 1 .. n
  OBVIOUS
<1> QED BY Zenon, <1>1 DEF Counts

\* One more.
LEMMA CountAdd ==
    ASSUME NEW S, NEW n \in Nat, Counts(n, S), NEW x, x \notin S
    PROVE  Counts(n + 1, S \cup {x})
<1>1. PICK f \in [1 .. n -> S] :
        /\ \A i, j \in 1 .. n : f[i] = f[j] => i = j
        /\ \A y \in S : \E i \in 1 .. n : f[i] = y
  BY Zenon DEF Counts
<1> DEFINE g == [i \in 1 .. n + 1 |-> IF i = n + 1 THEN x ELSE f[i]]
<1>2. \A i \in 1 .. n : i \in 1 .. n + 1 /\ g[i] = f[i] /\ f[i] \in S
  OBVIOUS
<1>3. n + 1 \in 1 .. n + 1 /\ g[n + 1] = x /\ \A i \in 1 .. n + 1 : i # n + 1 => i \in 1 .. n
  OBVIOUS
<1>4. g \in [1 .. n + 1 -> S \cup {x}]
  BY <1>2, <1>3
<1>5. \A i, j \in 1 .. n + 1 : g[i] = g[j] => i = j
  <2> HIDE DEF g
  <2> QED BY Zenon, <1>1, <1>2, <1>3
<1>6. \A y \in S \cup {x} : \E i \in 1 .. n + 1 : g[i] = y
  <2> HIDE DEF g
  <2> QED BY Zenon, <1>1, <1>2, <1>3
<1> QED BY Zenon, <1>4, <1>5, <1>6 DEF Counts

\* One less.
LEMMA CountRemove ==
    ASSUME NEW S, NEW n \in Nat, Counts(n, S), NEW x \in S
    PROVE  n # 0 /\ Counts(n - 1, S \ {x})
<1>1. PICK f \in [1 .. n -> S] :
        /\ \A i, j \in 1 .. n : f[i] = f[j] => i = j
        /\ \A y \in S : \E i \in 1 .. n : f[i] = y
  BY Zenon DEF Counts
<1>2. PICK k \in 1 .. n : f[k] = x
  BY Zenon, <1>1
<1>3. n # 0 /\ n \in 1 .. n /\ \A i \in 1 .. n - 1 : i \in 1 .. n /\ i # n
  BY <1>2
<1>4. \A i \in 1 .. n : i # n => i \in 1 .. n - 1
  OBVIOUS
<1> DEFINE g == [i \in 1 .. n - 1 |-> IF i = k THEN f[n] ELSE f[i]]
<1>5. \A i \in 1 .. n - 1 : g[i] = IF i = k THEN f[n] ELSE f[i]
  BY Zenon
<1> HIDE DEF g
<1>6. \A i \in 1 .. n - 1 : g[i] \in S \ {x}
  BY Zenon, <1>1, <1>2, <1>3, <1>5
<1>7. g \in [1 .. n - 1 -> S \ {x}]
  BY Zenon, <1>6 DEF g
<1>8. \A i, j \in 1 .. n - 1 : g[i] = g[j] => i = j
  BY ZenonT(40), <1>1, <1>2, <1>3, <1>5
<1>9. ASSUME NEW y \in S \ {x} PROVE \E i \in 1 .. n - 1 : g[i] = y
  <2>1. PICK i \in 1 .. n : f[i] = y
    BY Zenon, <1>1
  <2>2. CASE i = n
    <3>1. k # n
      BY Zenon, <1>2, <2>1, <2>2
    <3> QED BY Zenon, <1>4, <1>5, <2>1, <2>2, <3>1
  <2>3. CASE i # n
    <3>1. i # k
      BY Zenon, <1>2, <2>1
    <3> QED BY Zenon, <1>4, <1>5, <2>1, <2>3, <3>1
  <2> QED BY Zenon, <2>2, <2>3
<1> QED BY Zenon, <1>3, <1>7, <1>8, <1>9 DEF Counts

-----------------------------------------------------------------------------
(* The counters *)

\* Handing the connection to k adds k to its holders.
LEMMA UsersClaim ==
    ASSUME IInv, ~closed, NEW k \in Clients, pc[k] # "holding", shared[state] # NoConn,
           claim(k), UNCHANGED <<closed, state>>
    PROVE  UsersInv'
<1> /\ CoreInv /\ CoreType /\ PoolInv /\ ClientInv /\ SingleConnection
    /\ DialInv /\ GenInv /\ SharedInv /\ SockInv /\ ReaderInv
    /\ UsersInv /\ WaitersInv
  BY Zenon DEF IInv, CoreInv, PoolInv
<1> DEFINE c == shared[state]
<1>1. k \notin Holders(c) /\ Holders(c)' = Holders(c) \cup {k}
  BY DEF CoreType, ClientInv, claim, Holders
<1>2. sharedUsers[state] \in Nat /\ Counts(sharedUsers[state], Holders(c))
  BY Zenon DEF UsersInv, CoreType
<1>3. Counts(sharedUsers[state] + 1, Holders(c) \cup {k})
  BY Zenon, <1>1, <1>2, CountAdd
<1>4. sharedUsers'[state'] = sharedUsers[state] + 1 /\ c' = c
  BY Zenon DEF CoreType, claim
<1> QED BY Zenon, <1>1, <1>3, <1>4 DEF UsersInv, Holders

\* Giving the connection up removes k from its holders.
LEMMA UsersGiveUp ==
    ASSUME IInv, NEW k \in Clients, GiveUp(k),
           \/ \E reuse \in BOOLEAN : releaseConn(held[k], reuse)
           \/ invalidateConn(held[k])
           \/ ConnCtxDone(held[k]) /\ UNCHANGED <<genVars, connVars>>
    PROVE  UsersInv'
<1> /\ CoreInv /\ CoreType /\ PoolInv /\ ClientInv /\ SingleConnection
    /\ DialInv /\ GenInv /\ SharedInv /\ SockInv /\ ReaderInv
    /\ UsersInv /\ WaitersInv
  BY Zenon DEF IInv, CoreInv, PoolInv
<1> DEFINE c == shared[state]
<1> SUFFICES ASSUME ~closed', shared'[state'] # NoConn
             PROVE  Counts(sharedUsers[state], Holders(c))'
  BY ZenonT(40) DEF UsersInv
<1>0. /\ state \in Gens /\ shared \in [Gens -> Conns \cup {NoConn}]
      /\ connGen \in [Conns -> Gens] /\ sharedUsers \in [Gens -> Nat]
  BY Zenon DEF CoreType
<1>1. held[k] \in Conns /\ c \in Conns /\ c' = c /\ state' = state /\ ~closed
  <2>0. /\ held[k] \in Conns \cup {NoConn} /\ state \in Gens
        /\ shared \in [Gens -> Conns \cup {NoConn}] /\ shared[state] \in Conns \cup {NoConn}
    BY Zenon DEF CoreType
  <2>1. held[k] \in Conns
    <3>1. held[k] # NoConn
      BY Zenon DEF ClientInv, GiveUp
    <3> QED BY Zenon, <2>0, <3>1
  <2>2. UNCHANGED <<closed, state>>
    BY Zenon DEF GiveUp, poolVars
  <2>3. shared' = shared \/ shared' = [shared EXCEPT ![state] = NoConn]
    BY Zenon DEF releaseConn, invalidateConn, removeConn, genVars
  <2>4. shared' = shared
    BY Zenon, <2>0, <2>2, <2>3
  <2>5. shared'[state'] = shared[state]
    BY Zenon, <2>2, <2>4
  <2>6. shared[state] \in Conns
    BY Zenon, <2>0, <2>5
  <2>7. ~closed /\ state' = state
    BY SMT, <2>2
  <2> QED BY Zenon, <2>1, <2>5, <2>6, <2>7
<1>2. sharedUsers[state] \in Nat /\ Counts(sharedUsers[state], Holders(c))
  BY Zenon, <1>1 DEF UsersInv, CoreType
<1>3. CASE held[k] # c
  <2>1. Holders(c)' = Holders(c)
    BY ZenonT(40), <1>1, <1>3 DEF Holders, CoreType
  <2>2. sharedUsers'[state] = sharedUsers[state]
    <3>1. ~Tracked(held[k])
      BY Zenon, <1>0, <1>1, <1>3 DEF SingleConnection, Tracked
    <3>2. sharedUsers' = sharedUsers
      BY Zenon, <3>1 DEF releaseConn, invalidateConn
    <3> QED BY Zenon, <3>2
  <2> QED BY Zenon, <1>1, <1>2, <2>1, <2>2 DEF Holders
<1>4. CASE held[k] = c
  <2>1. ~ConnCtxDone(c) /\ Tracked(c)
    <3>1. c \notin dropped /\ connGen[c] = state
      BY Zenon, <1>0, <1>1 DEF SharedInv
    <3>2. state \notin cancelled
      BY Zenon, <1>1 DEF GenInv
    <3>3. c \in all[state]
      BY Zenon, <1>0, <1>1 DEF SingleConnection
    <3> QED BY Zenon, <1>1, <3>1, <3>2, <3>3 DEF ConnCtxDone, Tracked
  <2>2. sharedUsers' = [sharedUsers EXCEPT ![state] = IF shared[state] = c /\ @ > 0 THEN @ - 1 ELSE @]
    <3>1. ~removeConn(state, c)
      <4> SUFFICES ASSUME removeConn(state, c) PROVE FALSE
        OBVIOUS
      <4>1. shared' = [shared EXCEPT ![state] = NoConn]
        BY Zenon DEF removeConn
      <4>2. shared'[state] = NoConn
        BY Zenon, <4>1 DEF CoreType
      <4> QED BY Zenon, <1>1, <4>2
    <3>2. CASE \E reuse \in BOOLEAN : releaseConn(c, reuse)
      BY Zenon, <3>1, <3>2, <2>1 DEF releaseConn
    <3>3. CASE invalidateConn(c)
      BY Zenon, <3>1, <3>3, <2>1 DEF invalidateConn, Tracked
    <3> QED BY Zenon, <1>4, <2>1, <3>2, <3>3
  <2>3. k \in Holders(c) /\ Holders(c)' = Holders(c) \ {k}
    BY ZenonT(40), <1>1, <1>4 DEF Holders, CoreType
  <2>4. sharedUsers[state] # 0 /\ Counts(sharedUsers[state] - 1, Holders(c) \ {k})
    BY Zenon, <1>2, <2>3, CountRemove
  <2>5. sharedUsers'[state] = sharedUsers[state] - 1
    BY <1>0, <1>2, <2>2, <2>4
  <2> QED BY ZenonT(40), <1>1, <2>3, <2>4, <2>5
<1> QED BY Zenon, <1>3, <1>4

\* Steps that leave the holders and the current connection alone, or leave no
\* current connection.
LEMMA UsersOther ==
    ASSUME IInv,
           \/ UNCHANGED <<closed, state, shared, sharedUsers, held>>
           \/ closed'
           \/ shared'[state'] = NoConn
           \/ \E c \in Conns : ConnectInstall(c)
    PROVE  UsersInv'
<1> /\ CoreInv /\ CoreType /\ PoolInv /\ ClientInv /\ SingleConnection
    /\ DialInv /\ GenInv /\ SharedInv /\ SockInv /\ ReaderInv
    /\ UsersInv /\ WaitersInv
  BY Zenon DEF IInv, CoreInv, PoolInv
<1>1. CASE UNCHANGED <<closed, state, shared, sharedUsers, held>>
  BY Zenon, <1>1 DEF UsersInv, Holders
<1>2. CASE closed' \/ shared'[state'] = NoConn
  BY Zenon, <1>2 DEF UsersInv
<1>3. ASSUME NEW c \in Conns, ConnectInstall(c),
             ~UNCHANGED <<closed, state, shared, sharedUsers, held>>
      PROVE  UsersInv'
  <2>1. dialer[c] = "ok" /\ state = connGen[c] /\ shared' = [shared EXCEPT ![state] = c]
    BY Zenon, <1>3 DEF ConnectInstall
  <2>2. shared[state] = NoConn /\ sharedUsers[state] = 0
    <3>1. state \in Gens /\ connecting[state] = c
      BY Zenon, <2>1 DEF CoreType, DialInv, Dialing
    <3> QED BY Zenon, <3>1 DEF SingleConnection, SharedInv
  <2>3. Holders(c) = {}
    <3>1. ASSUME NEW k \in Clients, held[k] = c PROVE FALSE
      BY Zenon, <2>1, <3>1 DEF CoreType, ClientInv
    <3> QED BY Zenon, <3>1 DEF Holders
  <2>4. shared'[state'] = c /\ sharedUsers'[state'] = 0 /\ held' = held
    <3>1. state \in Gens /\ shared \in [Gens -> Conns \cup {NoConn}]
      BY Zenon DEF CoreType
    <3>2. UNCHANGED <<state, sharedUsers, held>>
      BY Zenon, <1>3 DEF ConnectInstall, poolVars, clientVars
    <3> QED BY Zenon, <2>1, <2>2, <3>1, <3>2
  <2> QED BY Zenon, <2>3, <2>4, CountNone DEF UsersInv, Holders
<1> QED BY Zenon, <1>1, <1>2, <1>3

\* Every step keeps sharedUsers exact.
LEMMA UsersNext ==
    ASSUME IInv, [Next]_vars
    PROVE  UsersInv'
<1> /\ CoreInv /\ CoreType /\ PoolInv /\ ClientInv /\ SingleConnection
    /\ DialInv /\ GenInv /\ SharedInv /\ SockInv /\ ReaderInv
    /\ UsersInv /\ WaitersInv
  BY Zenon DEF IInv, CoreInv, PoolInv
<1>1. CASE UNCHANGED vars
  BY Zenon, <1>1, UsersOther DEF vars
<1>2. ASSUME NEW k \in Clients, ClientStep(k) PROVE UsersInv'
  <2>1. CASE AcquireClaim(k) \/ CollectClaim(k)
    BY Zenon, <2>1, UsersClaim DEF AcquireClaim, CollectClaim
  <2>2. CASE (\E reuse \in BOOLEAN : Release(k, reuse)) \/ Invalidate(k) \/ Forget(k)
    BY ZenonT(40), <2>2, UsersGiveUp DEF Release, Invalidate, Forget
  <2>3. CASE AcquireDead(k) \/ CollectGone(k)
    <3>1. /\ UNCHANGED <<closed, state>>
          /\ shared' = [shared EXCEPT ![state] = NoConn] \/ (shared' = shared /\ shared[state] = NoConn)
      BY Zenon, <2>3 DEF AcquireDead, CollectGone, removeConn, poolVars, genVars
    <3>2. shared'[state'] = NoConn
      BY Zenon, <3>1 DEF CoreType
    <3> QED BY Zenon, <3>2, UsersOther
  <2>4. CASE Acquire(k) \/ AcquireClosed(k) \/ AcquireWait(k) \/ CancelCtx(k)
    BY Zenon, <2>4, UsersOther DEF Acquire, AcquireClosed, AcquireWait, CancelCtx
  <2>5. CASE SelectCtxDone(k) \/ SelectStateDone(k) \/ CollectFailed(k) \/ CollectStale(k)
    BY Zenon, <2>5, UsersOther DEF SelectCtxDone, SelectStateDone, CollectFailed, CollectStale
  <2> QED BY Zenon, <1>2, <2>1, <2>2, <2>3, <2>4, <2>5 DEF ClientStep, AcquireStep, SelectStep
<1>3. ASSUME NEW c \in Conns, DialStep(c) \/ ConnDies(c) PROVE UsersInv'
  <2>1. CASE ConnectInstall(c)
    BY Zenon, <2>1, UsersOther
  <2>2. CASE DialReturn(c) \/ ConnectDone(c) \/ ConnDies(c)
    BY Zenon, <2>2, UsersOther DEF DialReturn, ConnectDone, ConnDies
  <2> QED BY Zenon, <1>3, <2>1, <2>2 DEF DialStep
<1>4. ASSUME NEW c \in Conns, ReaderInvalidate(c) PROVE UsersInv'
  <2>1. CASE Tracked(c)
    <3>1. removeConn(state, c) /\ c = shared[state] /\ UNCHANGED <<closed, state>>
      BY Zenon, <1>4, <2>1, TrackedShared DEF ReaderInvalidate, invalidateConn
    <3>2. shared'[state'] = NoConn
      BY Zenon, <3>1 DEF CoreType, removeConn
    <3> QED BY Zenon, <3>2, UsersOther
  <2>2. CASE ~Tracked(c)
    BY Zenon, <1>4, <2>2, UsersOther DEF ReaderInvalidate, invalidateConn
  <2> QED BY Zenon, <2>1, <2>2
<1>5. CASE CloseIdle
  <2>1. shared'[state'] = NoConn
    BY Zenon, <1>5 DEF CoreType, CloseIdle, removeConn
  <2> QED BY Zenon, <2>1, UsersOther
<1>6. CASE Reset
  <2>1. shared'[state'] = NoConn
    BY Zenon, <1>6 DEF CoreType, GenInv, Reset
  <2> QED BY Zenon, <2>1, UsersOther
<1>7. CASE Close
  BY Zenon, <1>7, UsersOther DEF Close
<1>8. ASSUME NEW g \in Gens, closeState(g) PROVE UsersInv'
  BY Zenon, <1>8, UsersOther DEF closeState
<1> QED BY Zenon, <1>1, <1>2, <1>3, <1>4, <1>5, <1>6, <1>7, <1>8 DEF Next

\* A step that keeps every waiter and every counter.
WaitersSame ==
    /\ sharedWaiters' = sharedWaiters
    /\ \A g \in Gens : Waiting(g)' = Waiting(g)

\* Such a step keeps sharedWaiters exact.
LEMMA WaitersUnchanged ==
    ASSUME IInv, WaitersSame
    PROVE  WaitersInv'
BY Zenon DEF IInv, WaitersInv, WaitersSame

\* Entering the select adds k to the waiters of the current state.
LEMMA WaitersEnter ==
    ASSUME IInv, NEW k \in Clients, AcquireWait(k)
    PROVE  WaitersInv'
<1> /\ CoreInv /\ CoreType /\ PoolInv /\ ClientInv /\ SingleConnection
    /\ DialInv /\ GenInv /\ SharedInv /\ SockInv /\ ReaderInv
    /\ UsersInv /\ WaitersInv
  BY ZenonT(40) DEF IInv, CoreInv, PoolInv
<1>1. /\ state \in Gens /\ pc[k] = "acquire"
      /\ pc' = [pc EXCEPT ![k] = "select"]
      /\ sharedWaiters' = [sharedWaiters EXCEPT ![state] = @ + 1]
      /\ \A kk \in Clients \ {k} : attempt'[kk] = attempt[kk]
      /\ \A c \in Conns : dialer[c] # "none" => connGen'[c] = connGen[c]
      /\ attempt'[k] \in Conns /\ connGen'[attempt'[k]] = state
  <2>1. /\ state \in Gens /\ pc[k] = "acquire"
        /\ pc' = [pc EXCEPT ![k] = "select"]
        /\ sharedWaiters' = [sharedWaiters EXCEPT ![state] = @ + 1]
    BY Zenon DEF CoreType, AcquireWait
  <2>2. PICK c \in Conns : /\ attempt' = [attempt EXCEPT ![k] = c]
                          /\ \/ connGen' = connGen /\ c = connecting[state] /\ c # NoConn
                             \/ dialer[c] = "none" /\ connGen' = [connGen EXCEPT ![c] = state]
    BY Zenon DEF AcquireWait, CoreType, dialVars
  <2>3. connGen'[c] = state /\ \A d \in Conns : dialer[d] # "none" => connGen'[d] = connGen[d]
    <3>1. connGen \in [Conns -> Gens]
      BY Zenon DEF CoreType
    <3>2. c = connecting[state] /\ c # NoConn => connGen[c] = state
      BY Zenon, <2>1 DEF DialInv
    <3> QED BY Zenon, <2>1, <2>2, <3>1, <3>2
  <2>4. attempt'[k] = c /\ \A kk \in Clients \ {k} : attempt'[kk] = attempt[kk]
    BY Zenon, <2>2 DEF CoreType
  <2> QED BY Zenon, <2>1, <2>3, <2>4
<1>0. /\ \A kk \in Clients \ {k} : pc'[kk] = pc[kk] /\ (pc[kk] = "select" => current(kk)' = current(kk))
      /\ pc'[k] = "select" /\ current(k)' = state
  <2>1. ASSUME NEW kk \in Clients \ {k}
        PROVE  pc'[kk] = pc[kk] /\ (pc[kk] = "select" => current(kk)' = current(kk))
    <3>1. pc'[kk] = pc[kk] /\ attempt'[kk] = attempt[kk]
      BY Zenon, <1>1 DEF CoreType
    <3>2. pc[kk] = "select" => attempt[kk] \in Conns /\ dialer[attempt[kk]] # "none"
      <4>1. attempt[kk] \in Conns \cup {NoConn}
        BY Zenon DEF CoreType
      <4> QED BY Zenon, <4>1 DEF ClientInv
    <3> QED BY Zenon, <1>1, <3>1, <3>2 DEF current
  <2>2. pc'[k] = "select"
    BY Zenon, <1>1 DEF CoreType
  <2> QED BY Zenon, <1>1, <2>1, <2>2 DEF current
<1> SUFFICES ASSUME NEW g \in Gens PROVE sharedWaiters'[g] \in Nat /\ Counts(sharedWaiters'[g], Waiting(g)')
  BY Zenon DEF WaitersInv
<1>2. sharedWaiters[g] \in Nat /\ Counts(sharedWaiters[g], Waiting(g))
  BY Zenon DEF WaitersInv
<1>3. CASE g = state
  <2>1. k \notin Waiting(g) /\ Waiting(g)' = Waiting(g) \cup {k}
    <3>1. ASSUME NEW kk \in Clients
          PROVE  pc'[kk] = "select" /\ current(kk)' = g <=> (pc[kk] = "select" /\ current(kk) = g) \/ kk = k
      <4>1. CASE kk = k
        BY Zenon, <1>0, <1>3, <4>1
      <4>2. CASE kk # k
        BY Zenon, <1>0, <4>2
      <4> QED BY Zenon, <4>1, <4>2
    <3>2. pc[k] # "select"
      BY Zenon, <1>1
    <3> HIDE DEF current
    <3> QED BY Zenon, <3>1, <3>2 DEF Waiting
  <2>2. Counts(sharedWaiters[g] + 1, Waiting(g) \cup {k})
    BY ZenonT(40), <1>2, <2>1, CountAdd
  <2>3. sharedWaiters'[g] = sharedWaiters[g] + 1 /\ sharedWaiters[g] + 1 \in Nat
    <3>1. sharedWaiters'[g] = sharedWaiters[g] + 1
      BY Zenon, <1>1, <1>3 DEF CoreType
    <3>2. sharedWaiters[g] + 1 \in Nat
      BY SMT, <1>2
    <3> QED BY Zenon, <3>1, <3>2
  <2> QED BY Zenon, <2>1, <2>2, <2>3
<1>4. CASE g # state
  <2>1. Waiting(g)' = Waiting(g)
    <3>1. ASSUME NEW kk \in Clients
          PROVE  pc'[kk] = "select" /\ current(kk)' = g <=> pc[kk] = "select" /\ current(kk) = g
      <4>1. CASE kk = k
        BY Zenon, <1>0, <1>1, <1>4, <4>1
      <4>2. CASE kk # k
        BY Zenon, <1>0, <4>2
      <4> QED BY Zenon, <4>1, <4>2
    <3> HIDE DEF current
    <3> QED BY Zenon, <3>1 DEF Waiting
  <2> QED BY ZenonT(40), <1>1, <1>2, <1>4, <2>1 DEF IInv, CoreInv, CoreType
<1> QED BY Zenon, <1>3, <1>4

\* Leaving the select removes k from the waiters of the state it waited in.
LEMMA WaitersLeave ==
    ASSUME IInv, NEW k \in Clients, pc[k] = "select", LeaveWait(k),
           NEW p \in ClientStates \ {"select"}, pc' = [pc EXCEPT ![k] = p],
           UNCHANGED connGen
    PROVE  WaitersInv'
<1> /\ CoreInv /\ CoreType /\ PoolInv /\ ClientInv /\ SingleConnection
    /\ DialInv /\ GenInv /\ SharedInv /\ SockInv /\ ReaderInv
    /\ UsersInv /\ WaitersInv
  BY Zenon DEF IInv, CoreInv, PoolInv
<1>1. current(k) \in Gens
  BY DEF CoreType, ClientInv
<1> SUFFICES ASSUME NEW g \in Gens PROVE sharedWaiters'[g] \in Nat /\ Counts(sharedWaiters'[g], Waiting(g)')
  BY Zenon DEF WaitersInv
<1>2. sharedWaiters[g] \in Nat /\ Counts(sharedWaiters[g], Waiting(g))
  BY Zenon DEF WaitersInv
<1>3. CASE g = current(k)
  <2>1. k \in Waiting(g) /\ Waiting(g)' = Waiting(g) \ {k}
    BY Zenon, <1>3 DEF CoreType, Waiting
  <2>2. sharedWaiters[g] # 0 /\ Counts(sharedWaiters[g] - 1, Waiting(g) \ {k})
    BY Zenon, <1>2, <2>1, CountRemove
  <2>3. sharedWaiters'[g] = sharedWaiters[g] - 1
    BY Zenon, <1>1, <1>3 DEF CoreType
  <2>4. \A n \in Nat : n # 0 => n - 1 \in Nat
    OBVIOUS
  <2> QED BY Zenon, <1>2, <2>1, <2>2, <2>3, <2>4
<1>4. CASE g # current(k)
  <2>1. Waiting(g)' = Waiting(g)
    BY Zenon, <1>4 DEF CoreType, Waiting
  <2> QED BY ZenonT(40), <1>1, <1>2, <1>4, <2>1 DEF IInv, CoreInv, CoreType
<1> QED BY Zenon, <1>3, <1>4

\* Every step keeps sharedWaiters exact.
LEMMA WaitersNext ==
    ASSUME IInv, [Next]_vars
    PROVE  WaitersInv'
<1> /\ CoreInv /\ CoreType /\ PoolInv /\ ClientInv /\ SingleConnection
    /\ DialInv /\ GenInv /\ SharedInv /\ SockInv /\ ReaderInv
    /\ UsersInv /\ WaitersInv
  BY Zenon DEF IInv, CoreInv, PoolInv
<1>1. CASE UNCHANGED <<sharedWaiters, connGen, pc, attempt>>
  <2>1. WaitersSame
    BY Zenon, <1>1 DEF WaitersSame, Waiting
  <2> QED BY Zenon, <2>1, WaitersUnchanged
<1>2. ASSUME NEW k \in Clients, ClientStep(k) PROVE WaitersInv'
  <2>1. CASE AcquireWait(k)
    BY Zenon, <2>1, WaitersEnter
  <2>2. CASE SelectStep(k)
    <3>1. /\ pc[k] = "select" /\ LeaveWait(k) /\ UNCHANGED connGen
          /\ \E p \in ClientStates \ {"select"} : pc' = [pc EXCEPT ![k] = p]
      BY Zenon, <2>2 DEF SelectStep, SelectCtxDone, SelectStateDone, CollectFailed, CollectStale,
             CollectGone, CollectClaim, claim
    <3> QED BY Zenon, <3>1, WaitersLeave
  <2>3. CASE \/ Acquire(k) \/ AcquireClosed(k) \/ AcquireClaim(k)
             \/ (\E reuse \in BOOLEAN : Release(k, reuse)) \/ Invalidate(k) \/ Forget(k)
    <3>1. /\ pc[k] # "select" /\ \E p \in ClientStates \ {"select"} : pc' = [pc EXCEPT ![k] = p]
          /\ UNCHANGED <<sharedWaiters, connGen, attempt>>
      BY Zenon, <2>3 DEF Acquire, AcquireClosed, AcquireClaim, Release, Invalidate, Forget, claim
    <3>2. WaitersSame
      BY ZenonT(40), <3>1 DEF WaitersSame, Waiting, CoreType
    <3> QED BY Zenon, <3>2, WaitersUnchanged
  <2>4. CASE AcquireDead(k) \/ CancelCtx(k)
    BY Zenon, <1>1, <2>4 DEF AcquireDead, CancelCtx
  <2> QED BY Zenon, <1>2, <2>1, <2>2, <2>3, <2>4 DEF ClientStep, AcquireStep
<1>3. ASSUME NEW c \in Conns, DialStep(c) \/ ReaderInvalidate(c) \/ ConnDies(c) PROVE WaitersInv'
  BY Zenon, <1>1, <1>3 DEF DialStep, DialReturn, ConnectInstall, ConnectDone, ReaderInvalidate, ConnDies
<1>4. CASE CloseIdle \/ Reset \/ Close \/ UNCHANGED vars
  BY Zenon, <1>1, <1>4 DEF CloseIdle, Reset, Close, vars
<1>5. ASSUME NEW g \in Gens, closeState(g) PROVE WaitersInv'
  BY Zenon, <1>1, <1>5 DEF closeState
<1> QED BY Zenon, <1>2, <1>3, <1>4, <1>5 DEF Next

\* The connection CloseIdle must spare has a holder or a waiter.
LEMMA IdleCounted ==
    ASSUME IInv, ~closed, shared[state] # NoConn, ~Idle
    PROVE  \E k \in Clients : held[k] = shared[state] \/ (pc[k] = "select" /\ current(k) = state)
<1>1. /\ sharedUsers[state] \in Nat /\ Counts(sharedUsers[state], Holders(shared[state]))
      /\ sharedWaiters[state] \in Nat /\ Counts(sharedWaiters[state], Waiting(state))
  BY Zenon DEF IInv, CoreInv, CoreType, UsersInv, WaitersInv
<1>2. Holders(shared[state]) # {} \/ Waiting(state) # {}
  BY Zenon, <1>1, CountSome DEF Idle
<1> QED BY Zenon, <1>2 DEF Holders, Waiting

\* IInv holds initially.
LEMMA InvInit == Init => IInv
<1> SUFFICES ASSUME Init PROVE UsersInv /\ WaitersInv
  BY Zenon, CoreInit DEF IInv
<1>1. \A g \in Gens : Waiting(g) = {} /\ sharedWaiters[g] = 0
  BY Zenon DEF Init, NewConnPool, Waiting
<1> QED BY Zenon, <1>1, CountNone DEF Init, NewConnPool, UsersInv, WaitersInv

\* Every step of the pool preserves IInv.
LEMMA InvNext == IInv /\ [Next]_vars => IInv'
  BY Zenon, CoreNext, UsersNext, WaitersNext DEF IInv

-----------------------------------------------------------------------------
(* Theorems *)

\* CoreInv is an inductive invariant of the pool.
THEOREM CoreInvariance == Spec => []CoreInv
<1>1. CoreInv /\ [Next]_vars => CoreInv'
  BY Zenon, CoreNext
<1> QED BY <1>1, CoreInit, PTL DEF Spec

\* A generation tracks at most one connection (conn_pool.go, single mode).
THEOREM AtMostOneConnection == Spec => []SingleConnection
<1>1. CoreInv => SingleConnection
  BY Zenon DEF CoreInv, PoolInv
<1> QED BY <1>1, CoreInvariance, PTL

\* No dialed connection is lost by Reset, Close, Invalidate or a late dial.
THEOREM NoConnectionLeaks == Spec => []NoLeak
<1>1. CoreInv => NoLeak
  <2> SUFFICES ASSUME CoreInv, NEW c \in Conns, sock[c] \in {"open", "dead"},
                      dialer[c] \notin {"ok", "refused"}
               PROVE  Tracked(c) \/ \E g \in closing : c \in all[g]
    BY Zenon DEF NoLeak
  <2> /\ CoreInv /\ CoreType /\ PoolInv /\ ClientInv /\ SingleConnection
      /\ DialInv /\ GenInv /\ SharedInv /\ SockInv /\ ReaderInv
    BY Zenon DEF CoreInv, PoolInv
  <2>1. dialer[c] \in {"installed", "done"}
    BY ZenonT(40) DEF CoreType, SockInv
  <2>2. shared[connGen[c]] = c /\ connGen[c] \notin cancelled
    BY Zenon, <2>1 DEF SockInv
  <2>3. connGen[c] \in Gens /\ connGen[c] \in used /\ c # NoConn
    BY Zenon DEF CoreType, GenInv
  <2>4. c \in all[connGen[c]]
    BY Zenon, <2>2, <2>3 DEF SingleConnection
  <2>5. (connGen[c] = state /\ ~closed) \/ connGen[c] \in closing
    BY Zenon, <2>2, <2>3 DEF GenInv
  <2> QED BY Zenon, <2>4, <2>5 DEF Tracked
<1> QED BY <1>1, CoreInvariance, PTL

\* Exactly one client is told to start the read loop of a connection.
THEOREM ExactlyOneReader == Spec => []OneReader
<1>1. CoreInv => OneReader
  BY DEF CoreInv, PoolInv, CoreType, ClientInv, ReaderInv, OneReader
<1> QED BY <1>1, CoreInvariance, PTL

\* No client is handed a connection the pool has closed.
THEOREM HandsOutOpen == Spec => NeverHandsOutClosed
<1>1. CoreInv /\ [Next]_vars =>
        [\A k \in Clients : pc[k] # "holding" /\ pc'[k] = "holding"
            => ~closed /\ sock[held'[k]] # "closed"]_vars
  <2> SUFFICES ASSUME CoreInv, Next, NEW k \in Clients, pc[k] # "holding", pc'[k] = "holding"
               PROVE  ~closed /\ sock[held'[k]] # "closed"
    BY Zenon
  <2> /\ CoreInv /\ CoreType /\ PoolInv /\ ClientInv /\ SingleConnection
      /\ DialInv /\ GenInv /\ SharedInv /\ SockInv /\ ReaderInv
    BY Zenon DEF CoreInv, PoolInv
  <2>1. AcquireClaim(k) \/ CollectClaim(k)
    <3>1. ASSUME NEW kk \in Clients, ClientStep(kk), ~AcquireClaim(k), ~CollectClaim(k) PROVE FALSE
      <4>1. CASE Acquire(kk) \/ CancelCtx(kk) \/ AcquireStep(kk)
        <5>1. CASE AcquireClaim(kk)
          BY Zenon, <3>1, <5>1 DEF CoreType, AcquireClaim, claim
        <5>2. CASE \E p \in {"idle", "acquire", "select"} : pc' = [pc EXCEPT ![kk] = p]
          BY Zenon, <5>2 DEF CoreType
        <5>3. CASE pc' = pc
          BY Zenon, <5>3
        <5> QED
          BY Zenon, <4>1, <5>1, <5>2, <5>3 DEF Acquire, CancelCtx, AcquireStep, AcquireClosed,
                 AcquireDead, AcquireWait
      <4>2. CASE SelectStep(kk)
        <5>1. CASE CollectClaim(kk)
          BY Zenon, <3>1, <5>1 DEF CoreType, CollectClaim, claim
        <5>2. CASE Return(kk) \/ Retry(kk)
          BY Zenon, <5>2 DEF CoreType
        <5> QED
          BY Zenon, <4>2, <5>1, <5>2 DEF SelectStep, SelectCtxDone, SelectStateDone,
                 CollectFailed, CollectStale, CollectGone
      <4>3. CASE GiveUp(kk)
        BY Zenon, <4>3 DEF CoreType
      <4> QED BY Zenon, <3>1, <4>1, <4>2, <4>3 DEF ClientStep, Release, Invalidate, Forget
    <3>2. UNCHANGED pc \/ \E kk \in Clients : ClientStep(kk)
      BY ZenonT(40) DEF Next, DialStep, DialReturn, ConnectInstall, ConnectDone, ReaderInvalidate, ConnDies,
             CloseIdle, Reset, Close, closeState
    <3> QED BY Zenon, <3>1, <3>2
  <2>2. ~closed /\ shared[state] # NoConn /\ held'[k] = shared[state]
    <3>1. claim(k) /\ ~closed /\ shared[state] # NoConn
      BY Zenon, <2>1 DEF AcquireClaim, CollectClaim
    <3> QED BY Zenon, <3>1 DEF CoreType, claim
  <2> QED BY Zenon, <2>2 DEF SockInv
<1> QED BY <1>1, CoreInvariance, PTL DEF Spec, NeverHandsOutClosed

\* IInv is an inductive invariant of the pool.
THEOREM Invariance == Spec => []IInv
  BY InvInit, InvNext, PTL DEF Spec

\* CloseIdle leaves a connection somebody holds or waits for alone.
THEOREM IdleCloseIsSafe == Spec => IdleCloseSpares
<1>1. IInv /\ [Next]_vars =>
        [CloseIdle => \A k \in Clients : held[k] # shared[state]
                        /\ ~(pc[k] = "select" /\ current(k) = state)]_vars
  <2> SUFFICES ASSUME IInv, CloseIdle, NEW k \in Clients
               PROVE  held[k] # shared[state] /\ ~(pc[k] = "select" /\ current(k) = state)
    BY Zenon
  <2>1. Counts(0, Holders(shared[state])) /\ Counts(0, Waiting(state))
    <3>1. ~closed /\ state \in Gens /\ shared[state] # NoConn /\ sharedUsers[state] = 0 /\ sharedWaiters[state] = 0
      BY Zenon DEF IInv, CoreInv, CoreType, CloseIdle
    <3>2. UsersInv /\ WaitersInv
      BY Zenon DEF IInv
    <3> QED BY Zenon, <3>1, <3>2 DEF UsersInv, WaitersInv
  <2>2. Holders(shared[state]) = {} /\ Waiting(state) = {}
    BY Zenon, <2>1, CountNone
  <2> QED BY Zenon, <2>2 DEF Holders, Waiting
<1> QED BY <1>1, Invariance, PTL DEF Spec, IdleCloseSpares

HIDE DEF poolVars, genVars, waitVars, dialVars, connVars, clientVars,
         Dialing, Finished, DialerStates, SockStates, ClientStates,
         CloseConn, Return, Retry, current, LeaveWait, Tracked, GiveUp,
         markClaimed, StillCurrent, Installable, Idle

-----------------------------------------------------------------------------
(* Whom the shared connection is kept for *)

\* The client that started the dial of c waits for it.
Starter(c) == \E k \in Clients : pc[k] = "select" /\ startDial[k] /\ attempt[k] = c

\* While no client has failed, every dial of the current state is waited for by
\* its starter, until it has succeeded.
StarterInv ==
    ~closed => \A c \in Conns : connGen[c] = state /\ dialer[c] \notin {"none", "done"} => Starter(c)

\* A client holds the shared connection, or is bound to get it or to fail.
User ==
    \E k \in Clients :
        \/ held[k] = shared[state]
        \/ pc[k] = "select" /\ current(k) = state /\ (startDial[k] \/ dialer[attempt[k]] = "done")

InUseInv == ~closed /\ shared[state] # NoConn => User

\* Acquire returns without a connection.
Fails(k) == pc[k] \in {"acquire", "select"} /\ pc'[k] = "idle"

\* Steps of the pool but Release and the death of a peer.
KeepStep ==
    \/ \E k \in Clients : \/ Acquire(k) \/ AcquireStep(k) \/ SelectStep(k) \/ CancelCtx(k)
                          \/ Invalidate(k) \/ Forget(k)
    \/ \E c \in Conns : DialStep(c) \/ ReaderInvalidate(c)
    \/ CloseIdle \/ Reset \/ Close
    \/ \E g \in Gens : closeState(g)
    \/ UNCHANGED vars

WaitSame(k) == pc'[k] = pc[k] /\ attempt'[k] = attempt[k] /\ startDial'[k] = startDial[k]

\* Starters that go on waiting.
LEMMA StarterFrame ==
    ASSUME StarterInv, ~closed, state' = state, connGen' = connGen,
           \A c \in Conns : dialer'[c] \in {"none", "done"} \/ dialer[c] \notin {"none", "done"},
           \A k \in Clients : /\ pc[k] = "select" /\ startDial[k] /\ connGen[attempt[k]] = state
                             /\ dialer'[attempt[k]] \notin {"none", "done"} => WaitSame(k)
    PROVE  StarterInv'
<1> SUFFICES ASSUME NEW c \in Conns, connGen[c] = state, dialer'[c] \notin {"none", "done"} PROVE Starter(c)'
  BY Zenon DEF StarterInv
<1>1. PICK k \in Clients : pc[k] = "select" /\ startDial[k] /\ attempt[k] = c
  BY Zenon DEF StarterInv, Starter
<1>2. WaitSame(k)
  BY Zenon, <1>1
<1> QED BY Zenon, <1>1, <1>2 DEF Starter, WaitSame

\* Client k alone moves, and does not wait as the starter of a dial that goes on.
LEMMA StarterClient ==
    ASSUME CoreInv, StarterInv, ~closed, NEW k \in Clients,
           UNCHANGED <<state, connGen, dialer>>, \A l \in Clients \ {k} : WaitSame(l),
           \/ pc[k] # "select" \/ ~startDial[k] \/ connGen[attempt[k]] # state
           \/ dialer[attempt[k]] = "done"
    PROVE  StarterInv'
  BY Zenon, StarterFrame

\* The starter of a dial waits until it has succeeded, or fails.
LEMMA StarterNext ==
    ASSUME CoreInv, StarterInv, [Next]_vars, \A k \in Clients : ~Fails(k)
    PROVE  StarterInv'
<1> CoreType /\ ClientInv /\ GenInv
  BY Zenon DEF CoreInv, PoolInv
<1> SUFFICES ASSUME ~closed PROVE StarterInv'
  <2>1. CASE closed
    <3>1. closed'
      BY ZenonT(40), <2>1 DEF Next, ClientStep, ConnDies, Acquire, AcquireStep, AcquireClosed, AcquireClaim, AcquireDead, AcquireWait, SelectStep,
         SelectCtxDone, SelectStateDone, CollectFailed, CollectStale, CollectGone, CollectClaim, CancelCtx,
         Invalidate, Forget, Release, GiveUp, DialStep, DialReturn, ConnectInstall, ConnectDone, ReaderInvalidate,
         CloseIdle, Reset, Close, closeState, poolVars, vars
    <3> QED BY ZenonT(40), <3>1 DEF StarterInv
  <2> QED BY Zenon, <2>1
<1>1. ASSUME NEW k \in Clients, AcquireWait(k) PROVE StarterInv'
  <2>1. pc[k] = "acquire" /\ pc' = [pc EXCEPT ![k] = "select"] /\ state' = state /\ closed' = closed
    BY ZenonT(40), <1>1 DEF AcquireWait, poolVars
  <2>2. \A l \in Clients \ {k} : WaitSame(l)
    BY ZenonT(40), <1>1 DEF AcquireWait, CoreType, WaitSame
  <2>3. CASE connecting[state] # NoConn
    BY Zenon, <1>1, <2>1, <2>2, <2>3, StarterClient DEF AcquireWait, dialVars
  <2>4. CASE connecting[state] = NoConn
    <3>1. PICK d \in Conns : /\ dialer' = [dialer EXCEPT ![d] = "dial"]
                            /\ connGen' = [connGen EXCEPT ![d] = state]
                            /\ attempt' = [attempt EXCEPT ![k] = d]
                            /\ startDial' = [startDial EXCEPT ![k] = TRUE]
      BY Zenon, <1>1, <2>4 DEF AcquireWait
    <3> SUFFICES ASSUME NEW c \in Conns, connGen'[c] = state, dialer'[c] \notin {"none", "done"}
                 PROVE  Starter(c)'
      BY Zenon, <2>1 DEF StarterInv
    <3>2. CASE c = d
      BY ZenonT(40), <2>1, <3>1, <3>2 DEF Starter, CoreType
    <3>3. CASE c # d
      <4>1. PICK l \in Clients : pc[l] = "select" /\ startDial[l] /\ attempt[l] = c
        BY Zenon, <3>1, <3>3 DEF StarterInv, Starter, CoreType
      <4> QED BY Zenon, <2>1, <2>2, <4>1 DEF Starter, WaitSame
    <3> QED BY Zenon, <3>2, <3>3
  <2> QED BY Zenon, <2>3, <2>4
<1>2. ASSUME NEW k \in Clients,
             Acquire(k) \/ AcquireClosed(k) \/ AcquireClaim(k) \/ AcquireDead(k)
                \/ Invalidate(k) \/ Forget(k) \/ \E reuse \in BOOLEAN : Release(k, reuse)
      PROVE  StarterInv'
  <2>1. pc[k] # "select" /\ UNCHANGED <<state, connGen, dialer>>
    BY Zenon, <1>2 DEF Acquire, AcquireClosed, AcquireClaim, AcquireDead, Invalidate, Forget, Release, GiveUp,
       poolVars, dialVars
  <2>2. \A l \in Clients \ {k} : WaitSame(l)
    <3>1. UNCHANGED <<attempt, startDial>> /\ (pc' = pc \/ \E to : pc' = [pc EXCEPT ![k] = to])
      BY ZenonT(40), <1>2 DEF Acquire, AcquireClosed, AcquireClaim, AcquireDead, Invalidate, Forget, Release,
         GiveUp, claim, Return, Retry, clientVars
    <3> QED BY ZenonT(40), <3>1 DEF WaitSame, CoreType
  <2> QED BY ZenonT(40), <2>1, <2>2, StarterClient
<1>3. ASSUME NEW k \in Clients, SelectStep(k) PROVE StarterInv'
  <2>1. UNCHANGED <<state, connGen, dialer>>
    BY ZenonT(40), <1>3 DEF SelectStep, SelectCtxDone, SelectStateDone, CollectFailed, CollectStale, CollectGone,
       CollectClaim, poolVars, dialVars
  <2>2. \A l \in Clients \ {k} : WaitSame(l)
    <3>1. LeaveWait(k) /\ \E to : pc' = [pc EXCEPT ![k] = to]
      BY ZenonT(40), <1>3 DEF SelectStep, SelectCtxDone, SelectStateDone, CollectFailed, CollectStale, CollectGone,
         CollectClaim, claim, Return, Retry
    <3> QED BY ZenonT(40), <3>1 DEF LeaveWait, WaitSame, CoreType
  <2>3. ~startDial[k] \/ connGen[attempt[k]] # state \/ dialer[attempt[k]] = "done"
    <3>1. pc[k] = "select" /\ pc'[k] # "idle"
      BY Zenon, <1>3 DEF SelectStep, SelectCtxDone, SelectStateDone, CollectFailed, CollectStale, CollectGone,
         CollectClaim, Fails
    <3>2. ~Return(k)
      BY Zenon, <3>1 DEF Return, CoreType
    <3>3. CASE SelectStateDone(k)
      BY Zenon, <3>3 DEF SelectStateDone, current, GenInv
    <3>4. CASE CollectFailed(k)
      BY Zenon, <3>2, <3>4 DEF CollectFailed
    <3> QED BY Zenon, <1>3, <3>2, <3>3, <3>4 DEF SelectStep, SelectCtxDone, CollectStale, CollectGone, CollectClaim
  <2> QED BY Zenon, <2>1, <2>2, <2>3, StarterClient
<1>4. ASSUME NEW c \in Conns, DialStep(c) PROVE StarterInv'
  <2>1. UNCHANGED <<state, connGen, pc, attempt, startDial>>
    BY Zenon, <1>4 DEF DialStep, DialReturn, ConnectInstall, ConnectDone, poolVars, clientVars
  <2>2. \A d \in Conns : dialer'[d] \in {"none", "done"} \/ dialer[d] \notin {"none", "done"}
    BY Zenon, <1>4 DEF DialStep, DialReturn, ConnectInstall, ConnectDone, CoreType
  <2> QED BY Zenon, <2>1, <2>2, StarterFrame DEF WaitSame
<1>5. CASE UNCHANGED <<state, connGen, dialer, pc, attempt, startDial>>
  BY Zenon, <1>5, StarterFrame DEF WaitSame
<1>6. CASE Reset
  <2>1. state' \notin used /\ connGen' = connGen
    BY Zenon, <1>6 DEF Reset, dialVars
  <2> QED BY Zenon, <2>1 DEF StarterInv, GenInv
<1>7. CASE Close
  BY Zenon, <1>7 DEF Close, StarterInv
<1>8. ASSUME NEW c \in Conns, ReaderInvalidate(c) PROVE StarterInv'
  BY Zenon, <1>5, <1>8 DEF ReaderInvalidate, poolVars, dialVars, clientVars
<1>9. ASSUME NEW k \in Clients, CancelCtx(k) PROVE StarterInv'
  BY Zenon, <1>5, <1>9 DEF CancelCtx, poolVars
<1>10. CASE CloseIdle \/ (\E c \in Conns : ConnDies(c)) \/ (\E g \in Gens : closeState(g)) \/ UNCHANGED vars
  BY Zenon, <1>5, <1>10 DEF CloseIdle, ConnDies, closeState, vars, poolVars, dialVars, clientVars
<1> QED
  BY ZenonT(40), <1>1, <1>2, <1>3, <1>4, <1>6, <1>7, <1>8, <1>9, <1>10 DEF Next, ClientStep, AcquireStep

\* A client waits for an attempt.
LEMMA AttemptExists == ASSUME CoreInv, NEW l \in Clients, pc[l] = "select" PROVE attempt[l] \in Conns
<1>1. attempt[l] \in Conns \cup {NoConn}
  BY Zenon DEF CoreInv, CoreType
<1>2. attempt[l] # NoConn
  BY Zenon DEF CoreInv, ClientInv
<1> QED BY Zenon, <1>1, <1>2

\* A user that goes on as it did.
LEMMA UserFrame ==
    ASSUME InUseInv, ~closed, shared[state] # NoConn, state' = state, connGen' = connGen, shared' = shared,
           \A c \in Conns : dialer[c] = "done" => dialer'[c] = "done",
           CoreInv, NEW K \in SUBSET Clients, UNCHANGED closed,
           \A l \in Clients \ K : WaitSame(l) /\ held'[l] = held[l],
           \A k \in K : /\ held[k] # shared[state]
                       /\ ~(pc[k] = "select" /\ current(k) = state /\ (startDial[k] \/ dialer[attempt[k]] = "done"))
    PROVE  InUseInv'
<1>1. PICK l \in Clients :
        \/ held[l] = shared[state]
        \/ pc[l] = "select" /\ current(l) = state /\ (startDial[l] \/ dialer[attempt[l]] = "done")
  BY Zenon DEF InUseInv, User
<1>2. WaitSame(l) /\ held'[l] = held[l]
  BY Zenon, <1>1
<1>3. pc[l] = "select" => attempt[l] \in Conns
  BY Zenon, <1>1, AttemptExists
<1> QED BY ZenonT(40), <1>1, <1>2, <1>3 DEF InUseInv, User, WaitSame, current

\* Nobody moves.
LEMMA UserSame ==
    ASSUME CoreInv, InUseInv, UNCHANGED <<closed, state, connGen, shared, pc, attempt, startDial, held>>,
           \A c \in Conns : dialer[c] = "done" => dialer'[c] = "done"
    PROVE  InUseInv'
<1>1. CASE closed \/ shared[state] = NoConn
  BY Zenon, <1>1 DEF InUseInv
<1>2. CASE ~closed /\ shared[state] # NoConn
  <2>1. \A l \in Clients \ {} : WaitSame(l) /\ held'[l] = held[l]
    BY Zenon DEF WaitSame
  <2>2. {} \in SUBSET Clients /\ \A k \in {} : FALSE
    BY Zenon
  <2> QED BY Zenon, <1>2, <2>1, <2>2, UserFrame
<1> QED BY Zenon, <1>1, <1>2

\* A connection is shared only for a client: unless somebody fails or gives the
\* connection back, there is one as long as the connection is shared.
LEMMA UserNext ==
    ASSUME CoreInv, StarterInv, InUseInv, KeepStep, ~DetectsDeath, \A k \in Clients : ~Fails(k)
    PROVE  InUseInv'
<1> CoreType /\ ClientInv /\ GenInv /\ SharedInv /\ SingleConnection
  BY Zenon DEF CoreInv, PoolInv
<1>1. CASE closed' \/ shared'[state'] = NoConn
  BY Zenon, <1>1 DEF InUseInv
<1>2. ASSUME NEW k \in Clients, AcquireStep(k) PROVE InUseInv'
  <2>1. CASE AcquireClaim(k)
    BY Zenon, <2>1 DEF AcquireClaim, claim, InUseInv, User, CoreType, poolVars
  <2>2. CASE AcquireClosed(k)
    BY Zenon, <1>1, <2>2 DEF AcquireClosed, poolVars
  <2>3. CASE AcquireWait(k)
    BY Zenon, <1>1, <2>3 DEF AcquireWait, poolVars, genVars
  <2>4. ~AcquireDead(k)
    BY Zenon DEF AcquireDead, IsAlive
  <2> QED BY Zenon, <1>2, <2>1, <2>2, <2>3, <2>4 DEF AcquireStep
<1>3. ASSUME NEW k \in Clients, SelectStep(k), ~closed, shared[state] # NoConn PROVE InUseInv'
  <2>1. pc[k] = "select" /\ pc'[k] # "idle"
    BY Zenon, <1>3 DEF SelectStep, SelectCtxDone, SelectStateDone, CollectFailed, CollectStale, CollectGone,
       CollectClaim, Fails
  <2>2. ~Return(k) /\ held[k] # shared[state]
    BY ZenonT(40), <1>3, <2>1 DEF Return, CoreType, ClientInv
  <2>3. CASE CollectClaim(k)
    BY ZenonT(40), <2>3 DEF CollectClaim, claim, InUseInv, User, CoreType, poolVars
  <2>4. ~CollectGone(k) /\ ~SelectCtxDone(k) /\ ~CollectStale(k)
    BY Zenon, <1>3, <2>2 DEF CollectGone, SelectCtxDone, CollectStale, IsAlive
  <2>5. CASE SelectStateDone(k) \/ CollectFailed(k)
    <3>1. UNCHANGED <<closed, state, connGen, shared, dialer>>
      BY Zenon, <2>5 DEF SelectStateDone, CollectFailed, poolVars, genVars, dialVars
    <3>2. \A l \in Clients \ {k} : WaitSame(l) /\ held'[l] = held[l]
      BY ZenonT(40), <2>5 DEF SelectStateDone, CollectFailed, LeaveWait, Return, Retry, WaitSame, CoreType
    <3>3. ~(current(k) = state /\ (startDial[k] \/ dialer[attempt[k]] = "done"))
      <4>1. CASE SelectStateDone(k)
        BY Zenon, <1>3, <4>1 DEF SelectStateDone, GenInv
      <4>2. CASE CollectFailed(k)
        BY Zenon, <2>2, <4>2 DEF CollectFailed
      <4> QED BY Zenon, <2>5, <4>1, <4>2
    <3>4. {k} \in SUBSET Clients
      BY Zenon
    <3> QED BY ZenonT(40), <1>3, <2>2, <3>1, <3>2, <3>3, <3>4, UserFrame
  <2> QED BY Zenon, <1>3, <2>3, <2>4, <2>5 DEF SelectStep
<1>4. ASSUME NEW k \in Clients, Acquire(k) \/ Forget(k), ~closed, shared[state] # NoConn PROVE InUseInv'
  <2>1. UNCHANGED <<closed, state, connGen, shared, dialer>> /\ pc[k] # "select"
    BY ZenonT(40), <1>4 DEF Acquire, Forget, GiveUp, poolVars, genVars, dialVars
  <2>2. \A l \in Clients \ {k} : WaitSame(l) /\ held'[l] = held[l]
    BY Zenon, <1>4 DEF Acquire, Forget, GiveUp, Return, Retry, WaitSame, CoreType
  <2>3. held[k] # shared[state]
    <3>1. CASE Acquire(k)
      BY Zenon, <1>4, <3>1 DEF Acquire, ClientInv
    <3>2. CASE Forget(k)
      <4>1. shared[state] \notin dropped /\ connGen[shared[state]] = state /\ state \notin cancelled
        BY Zenon, <1>4 DEF SharedInv, GenInv, CoreType
      <4> QED BY Zenon, <3>2, <4>1 DEF Forget, ConnCtxDone
    <3> QED BY Zenon, <1>4, <3>1, <3>2
  <2>4. {k} \in SUBSET Clients
    BY Zenon
  <2> QED BY ZenonT(40), <1>4, <2>1, <2>2, <2>3, <2>4, UserFrame
<1>5. ASSUME NEW k \in Clients, Invalidate(k), ~closed, shared[state] # NoConn PROVE InUseInv'
  <2>1. UNCHANGED <<closed, state, connGen, dialer>> /\ pc[k] = "holding"
    BY Zenon, <1>5 DEF Invalidate, GiveUp, poolVars, dialVars
  <2>2. \A l \in Clients \ {k} : WaitSame(l) /\ held'[l] = held[l]
    BY Zenon, <1>5 DEF Invalidate, GiveUp, Return, WaitSame, CoreType
  <2>3. CASE held[k] = shared[state]
    <3>1. shared'[state] = NoConn
      BY Zenon, <1>5, <2>3 DEF Invalidate, invalidateConn, removeConn, Tracked, SingleConnection, CoreType
    <3> QED BY ZenonT(40), <1>1, <2>1, <3>1
  <2>4. CASE held[k] # shared[state]
    <3>1. shared' = shared
      BY Zenon, <1>5, <2>4 DEF Invalidate, invalidateConn, removeConn, genVars
    <3>2. {k} \in SUBSET Clients /\ pc[k] # "select"
      BY <2>1
    <3> QED BY ZenonT(40), <1>5, <2>1, <2>2, <2>4, <3>1, <3>2, UserFrame
  <2> QED BY Zenon, <2>3, <2>4
<1>6. ASSUME NEW c \in Conns, DialReturn(c) \/ ConnectDone(c) PROVE InUseInv'
  <2>1. UNCHANGED <<closed, state, connGen, shared, pc, attempt, startDial, held>>
    BY ZenonT(40), <1>6 DEF DialReturn, ConnectDone, poolVars, genVars, clientVars
  <2>2. \A d \in Conns : dialer[d] = "done" => dialer'[d] = "done"
    BY ZenonT(40), <1>6 DEF DialReturn, ConnectDone, CoreType
  <2> QED BY Zenon, <2>1, <2>2, UserSame
<1>7. ASSUME NEW c \in Conns, ConnectInstall(c) PROVE InUseInv'
  <2>1. UNCHANGED <<closed, state, connGen, pc, attempt, startDial, held>> /\ dialer[c] \in {"ok", "err"}
    BY ZenonT(40), <1>7 DEF ConnectInstall, poolVars, clientVars
  <2>2. \A d \in Conns : dialer[d] = "done" => dialer'[d] = "done"
    BY Zenon, <1>7 DEF ConnectInstall, CoreType
  <2>3. CASE shared' = shared
    BY Zenon, <2>1, <2>2, <2>3, UserSame
  <2>4. CASE ~closed /\ connGen[c] = state
    <3>1. PICK k \in Clients : pc[k] = "select" /\ startDial[k] /\ attempt[k] = c
      <4>1. dialer[c] \notin {"none", "done"}
        BY <2>1
      <4> QED BY Zenon, <2>4, <4>1 DEF StarterInv, Starter
    <3> QED BY ZenonT(40), <2>1, <2>4, <3>1 DEF InUseInv, User, current
  <2> QED BY Zenon, <1>7, <2>3, <2>4 DEF ConnectInstall, Installable
<1>8. ASSUME NEW c \in Conns, ReaderInvalidate(c) PROVE InUseInv'
  <2>1. UNCHANGED <<closed, state, connGen, dialer, pc, attempt, startDial, held>>
    BY Zenon, <1>8 DEF ReaderInvalidate, poolVars, dialVars, clientVars
  <2>2. CASE shared' = shared
    BY Zenon, <2>1, <2>2, UserSame
  <2>3. CASE shared' = [shared EXCEPT ![state] = NoConn]
    BY Zenon, <1>1, <2>1, <2>3 DEF CoreType
  <2> QED BY Zenon, <1>8, <2>2, <2>3 DEF ReaderInvalidate, invalidateConn, removeConn, genVars
<1>9. CASE CloseIdle \/ Reset \/ Close
  <2>1. CASE CloseIdle
    BY Zenon, <1>1, <2>1 DEF CloseIdle, removeConn, CoreType, poolVars
  <2>2. CASE Reset
    BY Zenon, <1>1, <2>2 DEF Reset, GenInv, genVars
  <2>3. CASE Close
    BY Zenon, <1>1, <2>3 DEF Close
  <2> QED BY ZenonT(40), <1>9, <2>1, <2>2, <2>3
<1>10. CASE (\E k \in Clients : CancelCtx(k)) \/ (\E g \in Gens : closeState(g)) \/ UNCHANGED vars
  <2>1. UNCHANGED <<closed, state, connGen, shared, dialer, pc, attempt, startDial, held>>
    BY Zenon, <1>10 DEF CancelCtx, closeState, vars, poolVars, genVars, dialVars, clientVars
  <2> QED BY Zenon, <2>1, UserSame
<1>11. ASSUME NEW k \in Clients, SelectStep(k) \/ Acquire(k) \/ Forget(k) \/ Invalidate(k),
              closed \/ shared[state] = NoConn
       PROVE  InUseInv'
  <2>1. UNCHANGED <<closed, state>>
    BY Zenon, <1>11 DEF SelectStep, SelectCtxDone, SelectStateDone, CollectFailed, CollectStale, CollectGone,
       CollectClaim, Acquire, Forget, Invalidate, GiveUp, poolVars
  <2>2. CASE ~closed
    <3>1. CASE SelectStep(k) \/ Acquire(k) \/ Forget(k)
      <4>1. shared' = shared
        BY Zenon, <1>11, <2>2, <3>1 DEF SelectStep, SelectCtxDone, SelectStateDone, CollectFailed, CollectStale,
           CollectGone, CollectClaim, Acquire, Forget, genVars
      <4> QED BY ZenonT(40), <1>1, <1>11, <2>1, <4>1
    <3>2. CASE Invalidate(k)
      <4>1. shared'[state] = NoConn
        <5>1. shared' = shared \/ shared' = [shared EXCEPT ![state] = NoConn]
          BY Zenon, <2>2, <3>2 DEF Invalidate, invalidateConn, removeConn, genVars
        <5> QED BY Zenon, <1>11, <2>2, <5>1 DEF CoreType
      <4> QED BY ZenonT(40), <1>1, <2>1, <4>1
    <3> QED BY Zenon, <1>11, <3>1, <3>2
  <2> QED BY Zenon, <1>1, <2>1, <2>2
<1> QED
  BY Zenon, <1>2, <1>3, <1>4, <1>5, <1>6, <1>7, <1>8, <1>9, <1>10, <1>11 DEF KeepStep, DialStep

=============================================================================
