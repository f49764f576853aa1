--------------------------- MODULE ConnPool_proofs ---------------------------
(***************************************************************************)
(* What the inductive invariant of ConnPoolCore_proofs says in terms of     *)
(* cardinalities, and the refinement: ConnPool implements SharedConn.       *)
(***************************************************************************)
EXTENDS ConnPoolCore_proofs, FiniteSetTheorems

-----------------------------------------------------------------------------
(* The counters *)

\* A counted set has that cardinality.
LEMMA CountCardinality == ASSUME NEW S, NEW n \in Nat, Counts(n, S) PROVE Cardinality(S) = n
<1>1. PICK f \in [1 .. n -> S] :
        /\ \A i, j \in 1 .. n : f[i] = f[j] => i = j
        /\ \A x \in S : \E i \in 1 .. n : f[i] = x
  BY Zenon DEF Counts
<1>2. f \in Bijection(1 .. n, S)
  BY Zenon, <1>1 DEF Bijection, Injection, Surjection, IsInjective
<1> QED BY Zenon, <1>2, FS_CountingElements DEF ExistsBijection

\* The type invariant.
THEOREM Typing == Spec => []TypeOK
<1>1. IInv => TypeOK
  <2> SUFFICES ASSUME IInv PROVE sharedWaiters \in [Gens -> Nat]
    BY Zenon DEF IInv, CoreInv, CoreType, TypeOK
  <2> QED BY Zenon DEF IInv, CoreInv, CoreType, WaitersInv
<1> QED BY <1>1, Invariance, PTL

\* sharedUsers, which CloseIdle relies on, is the number of holders.
THEOREM UsersExact == Spec => []UsersCounted
<1>1. IInv => UsersCounted
  <2> SUFFICES ASSUME IInv, ~closed, shared[state] # NoConn
               PROVE  sharedUsers[state] = Cardinality(Holders(shared[state]))
    BY Zenon DEF UsersCounted, Holders
  <2>1. sharedUsers[state] \in Nat /\ Counts(sharedUsers[state], Holders(shared[state]))
    BY Zenon DEF IInv, CoreInv, CoreType, UsersInv
  <2> QED BY Zenon, <2>1, CountCardinality
<1> QED BY <1>1, Invariance, PTL

\* sharedWaiters, which CloseIdle relies on too, is the number of clients in
\* the select of acquireShared, of every generation.
THEOREM WaitersExact == Spec => []WaitersCounted
<1>1. IInv => WaitersCounted
  <2> SUFFICES ASSUME IInv, NEW g \in Gens PROVE sharedWaiters[g] = Cardinality(Waiting(g))
    BY Zenon DEF WaitersCounted, Waiting
  <2>1. sharedWaiters[g] \in Nat /\ Counts(sharedWaiters[g], Waiting(g))
    BY Zenon DEF IInv, WaitersInv
  <2> QED BY Zenon, <2>1, CountCardinality
<1> QED BY <1>1, Invariance, PTL

-----------------------------------------------------------------------------
(* ConnPool implements SharedConn *)

USE NoConnFresh, ClientsFinite, DetectsDeathBool
USE DEF poolVars, genVars, waitVars, dialVars, connVars, clientVars,
        Dialing, Finished, DialerStates, SockStates, ClientStates,
        CloseConn, Return, Retry, current, LeaveWait, Tracked, GiveUp,
        markClaimed, StillCurrent, Installable, Idle

\* A connection whose dial succeeded exists.
DialedInv ==
    \A c \in Conns : dialer[c] \in {"ok", "refused", "installed", "done"} => sock[c] # "none"

RInv == CoreInv /\ DialedInv

\* What SharedConn sees of the pool, apart from held.
seen == <<closed, state, all, dialer, sock>>

-----------------------------------------------------------------------------
(* What the steps do to the state of SharedConn *)

\* A step that touches none of these variables changes nothing.
LEMMA MapSame ==
    ASSUME DialedInv, UNCHANGED seen
    PROVE  DialedInv' /\ UNCHANGED <<[c \in Conns |-> Phase(c)], {c \in Conns : sock[c] \in {"open", "dead"}}>>
BY Zenon DEF seen, Phase, DialedInv

\* Dropping the shared connection retires and closes it.
LEMMA MapDrop ==
    ASSUME RInv, NEW d \in Conns, d = shared[state], DropEffect, ~closed,
           UNCHANGED <<closed, state, dialer>>
    PROVE  DialedInv' /\ Shared!Retire(d)
<1>1. Tracked(d) /\ dialer[d] \in {"installed", "done"}
  <2>1. state \in Gens /\ SingleConnection /\ SharedInv
    BY Zenon DEF RInv, CoreInv, CoreType, PoolInv
  <2> QED BY <2>1 DEF SingleConnection, SharedInv, Tracked
<1>2. \A c \in Conns : Phase(c)' = IF c = d THEN "retired" ELSE Phase(c)
  BY ZenonT(40), <1>1 DEF RInv, CoreInv, CoreType, DropEffect, Phase
<1>3. {c \in Conns : sock[c] \in {"open", "dead"}}' = {c \in Conns : sock[c] \in {"open", "dead"}} \ {d}
  BY Zenon, <1>1 DEF RInv, CoreInv, CoreType, DropEffect
<1>4. DialedInv'
  BY ZenonT(40), <1>1 DEF RInv, CoreInv, CoreType, DialedInv, DropEffect
<1>5. Phase(d) = "current"
  BY Zenon, <1>1 DEF Phase
<1>6. Shared!Retire(d)
  BY Zenon, <1>1, <1>2, <1>3, <1>5 DEF Shared!Retire, Shared!Enter
<1> QED BY Zenon, <1>4, <1>6

\* Closing a connection that is not tracked is invisible to the clients.
LEMMA MapClose ==
    ASSUME RInv, NEW d \in Conns, ~Tracked(d), CloseConn(d), UNCHANGED <<closed, state, all, dialer>>
    PROVE  DialedInv' /\ Shared!CloseOther(d)
<1>1. \A c \in Conns : Phase(c)' = Phase(c)
  BY Zenon DEF Phase
<1>2. {c \in Conns : sock[c] \in {"open", "dead"}}' = {c \in Conns : sock[c] \in {"open", "dead"}} \ {d}
  BY Zenon DEF RInv, CoreInv, CoreType
<1>3. Phase(d) # "current"
  BY Zenon DEF Phase
<1>4. DialedInv'
  BY Zenon DEF RInv, CoreInv, CoreType, DialedInv
<1> QED BY Zenon, <1>1, <1>2, <1>3, <1>4 DEF Shared!CloseOther

\* A step that maps as it should.
Maps == DialedInv' /\ [Shared!Next]_Shared!vars

\* A step that does not change held and is invisible, drops the shared
\* connection or closes another one maps as it should.
LEMMA MapPool ==
    ASSUME RInv, UNCHANGED held,
           \/ UNCHANGED seen
           \/ DropEffect /\ ~closed /\ UNCHANGED <<closed, state, dialer>>
           \/ \E c \in Conns : ~Tracked(c) /\ CloseConn(c) /\ UNCHANGED <<closed, state, all, dialer>>
    PROVE  Maps
<1>1. CASE UNCHANGED seen
  BY Zenon, <1>1, MapSame DEF RInv, Maps, Shared!vars
<1>2. CASE DropEffect /\ ~closed /\ UNCHANGED <<closed, state, dialer>>
  <2>0. PICK d \in Conns : d = shared[state]
    BY Zenon, <1>2 DEF DropEffect
  <2>1. DialedInv' /\ Shared!Retire(d)
    BY Zenon, <1>2, <2>0, MapDrop
  <2> QED BY Zenon, <2>1 DEF Maps, Shared!Next
<1>3. ASSUME NEW c \in Conns, ~Tracked(c), CloseConn(c), UNCHANGED <<closed, state, all, dialer>>
      PROVE  Maps
  <2>1. DialedInv' /\ Shared!CloseOther(c)
    BY Zenon, <1>3, MapClose
  <2> QED BY Zenon, <2>1 DEF Maps, Shared!Next
<1> QED BY Zenon, <1>1, <1>2, <1>3

\* Handing out the shared connection maps to Hand.
LEMMA MapHand ==
    ASSUME RInv, NEW k \in Clients, ~closed, shared[state] # NoConn, pc[k] # "holding",
           held' = [held EXCEPT ![k] = shared[state]], UNCHANGED seen
    PROVE  Maps
<1>0. PICK d \in Conns : d = shared[state]
  BY ZenonT(40) DEF RInv, CoreInv, CoreType
<1>1. Tracked(d) /\ sock[d] \in {"open", "dead"} /\ held[k] = NoConn
  <2>1. state \in Gens /\ SingleConnection /\ SharedInv /\ SockInv /\ ClientInv /\ DialedInv
    BY Zenon DEF RInv, CoreInv, CoreType, PoolInv
  <2>2. sock \in [Conns -> SockStates]
    BY Zenon DEF RInv, CoreInv, CoreType
  <2> QED BY <1>0, <2>1, <2>2 DEF SingleConnection, SharedInv, SockInv, ClientInv, DialedInv, Tracked
<1>2. Phase(d) = "current"
  BY Zenon, <1>1 DEF Phase
<1>3. UNCHANGED <<[c \in Conns |-> Phase(c)], {c \in Conns : sock[c] \in {"open", "dead"}}>> /\ DialedInv'
  BY Zenon, MapSame DEF RInv
<1>4. Shared!Hand(k, d)
  BY Zenon, <1>0, <1>1, <1>2, <1>3 DEF Shared!Hand
<1> QED BY ZenonT(40), <1>1, <1>3, <1>4 DEF Maps, Shared!Next

-----------------------------------------------------------------------------
(* One lemma per group of actions *)

\* The steps of acquireShared map as they should.
LEMMA MapAcquire ==
    ASSUME RInv, NEW k \in Clients, AcquireStep(k) \/ SelectStep(k) PROVE Maps
<1> USE DEF seen
<1>1. CASE AcquireClaim(k) \/ CollectClaim(k)
  BY Zenon, <1>1, MapHand DEF AcquireClaim, CollectClaim, claim
<1>2. CASE AcquireDead(k)
  BY Zenon, <1>2, DropFacts, MapPool DEF RInv, CoreInv, AcquireDead
<1>3. CASE CollectGone(k)
  BY Zenon, <1>3, DropFacts, MapPool DEF RInv, CoreInv, CollectGone
<1>4. CASE AcquireWait(k)
  <2>1. UNCHANGED <<closed, state, all, sock, held>>
    BY Zenon, <1>4 DEF AcquireWait
  <2>2. dialer' = dialer \/ \E c \in Conns : dialer[c] = "none" /\ dialer' = [dialer EXCEPT ![c] = "dial"]
    BY Zenon, <1>4 DEF AcquireWait
  <2>3. \A c \in Conns : Phase(c)' = Phase(c)
    BY ZenonT(40), <2>1, <2>2 DEF RInv, CoreInv, CoreType, Phase
  <2>4. DialedInv'
    BY ZenonT(40), <2>1, <2>2 DEF RInv, CoreInv, CoreType, DialedInv
  <2> QED BY Zenon, <2>1, <2>3, <2>4 DEF Maps, Shared!vars
<1>5. CASE AcquireClosed(k) \/ SelectCtxDone(k) \/ SelectStateDone(k) \/ CollectFailed(k) \/ CollectStale(k)
  BY ZenonT(40), <1>5, MapPool DEF AcquireClosed, SelectCtxDone, SelectStateDone, CollectFailed, CollectStale
<1> QED BY Zenon, <1>1, <1>2, <1>3, <1>4, <1>5 DEF AcquireStep, SelectStep

\* Giving a connection up maps to GiveBack.
LEMMA MapGiveUp ==
    ASSUME RInv, NEW k \in Clients,
           (\E reuse \in BOOLEAN : Release(k, reuse)) \/ Invalidate(k) \/ Forget(k)
    PROVE  Maps
<1>0. PICK d \in Conns : d = held[k]
  <2>1. held[k] \in Conns \cup {NoConn} /\ ClientInv
    BY Zenon DEF RInv, CoreInv, CoreType
  <2>2. pc[k] = "holding"
    BY Zenon DEF Release, Invalidate, Forget, GiveUp
  <2> QED BY Zenon, <2>1, <2>2 DEF ClientInv
<1>1. /\ held[k] = d /\ d # NoConn /\ held' = [held EXCEPT ![k] = NoConn]
      /\ UNCHANGED <<closed, state, dialer>>
  BY Zenon, <1>0 DEF Release, Invalidate, Forget
<1>2. CASE UNCHANGED seen
  <2>1. UNCHANGED <<[c \in Conns |-> Phase(c)], {c \in Conns : sock[c] \in {"open", "dead"}}>> /\ DialedInv'
    BY Zenon, <1>2, MapSame DEF RInv
  <2>2. Shared!GiveBack(k, d)
    BY Zenon, <1>1, <2>1 DEF Shared!GiveBack
  <2> QED BY Zenon, <2>1, <2>2 DEF Maps, Shared!Next
<1>3. CASE Tracked(d) /\ removeConn(state, d) /\ CloseConn(d)
  <2>1. shared[state] = d /\ shared[state] # NoConn
    BY Zenon, <1>1, <1>3, TrackedShared DEF RInv, CoreInv
  <2>2. DialedInv' /\ Shared!Retire(d)
    BY ZenonT(40), <1>1, <1>3, <2>1, DropFacts, MapDrop DEF RInv, CoreInv
  <2>3. Shared!GiveBack(k, d)
    BY Zenon, <1>1, <2>2 DEF Shared!GiveBack
  <2> QED BY Zenon, <2>2, <2>3 DEF Maps, Shared!Next
<1>4. CASE ~Tracked(d) /\ CloseConn(d) /\ UNCHANGED all
  <2>1. DialedInv' /\ Shared!CloseOther(d)
    BY Zenon, <1>1, <1>4, MapClose
  <2>2. Shared!GiveBack(k, d)
    BY Zenon, <1>1, <2>1 DEF Shared!GiveBack
  <2> QED BY Zenon, <2>1, <2>2 DEF Maps, Shared!Next
<1> QED
  BY ZenonT(40), <1>1, <1>2, <1>3, <1>4 DEF Release, Invalidate, Forget, releaseConn, invalidateConn, seen

\* The steps of a dial map to Dialed, Install, Discard or CloseOther.
LEMMA MapDial ==
    ASSUME RInv, NEW d \in Conns, DialStep(d) PROVE Maps
<1>0. /\ state \in Gens /\ connGen \in [Conns -> Gens]
      /\ all \in [Gens -> SUBSET Conns] /\ shared \in [Gens -> Conns \cup {NoConn}]
      /\ dialer \in [Conns -> DialerStates] /\ sock \in [Conns -> SockStates]
      /\ SingleConnection /\ DialInv /\ SharedInv /\ SockInv /\ DialedInv
  BY Zenon DEF RInv, CoreInv, CoreType, PoolInv
<1>1. UNCHANGED <<closed, state, held>>
  BY Zenon DEF DialStep, DialReturn, ConnectInstall, ConnectDone
<1>2. CASE DialReturn(d)
  <2>1. /\ dialer[d] = "dial" /\ UNCHANGED all
        /\ \/ dialer' = [dialer EXCEPT ![d] = "ok"] /\ sock' = [sock EXCEPT ![d] = "open"]
           \/ dialer' = [dialer EXCEPT ![d] = "err"] /\ sock' = [sock EXCEPT ![d] = "closed"]
           \/ dialer' = [dialer EXCEPT ![d] = "err"] /\ sock' = sock
    BY ZenonT(40), <1>2 DEF DialReturn
  <2>2. ~Tracked(d) /\ sock[d] \in {"none", "closed"}
    BY <1>0, <2>1 DEF SingleConnection, SharedInv, SockInv, Tracked
  <2>3. \A c \in Conns : Phase(c)' = Phase(c)
    BY ZenonT(40), <1>1, <2>1 DEF RInv, CoreInv, CoreType, Phase
  <2>4. DialedInv'
    BY <1>0, <2>1 DEF DialedInv
  <2>5. Phase(d) = "new"
    BY ZenonT(40), <2>1, <2>2 DEF Phase
  <2>6. {c \in Conns : sock[c] \in {"open", "dead"}}' \in
          {{c \in Conns : sock[c] \in {"open", "dead"}}, {c \in Conns : sock[c] \in {"open", "dead"}} \cup {d}}
    BY <1>0, <2>1, <2>2
  <2> QED BY ZenonT(40), <1>1, <2>3, <2>4, <2>5, <2>6 DEF Maps, Shared!Next, Shared!Dialed, Shared!vars
<1>3. CASE ConnectInstall(d)
  <2>1. dialer[d] \in {"ok", "err"} /\ ~Tracked(d) /\ UNCHANGED sock
    <3>1. dialer[d] \in {"ok", "err"} /\ UNCHANGED sock
      BY Zenon, <1>3 DEF ConnectInstall
    <3>2. ~Tracked(d)
      BY <1>0, <3>1 DEF SingleConnection, SharedInv, Tracked
    <3> QED BY Zenon, <3>1, <3>2
  <2>2. Phase(d) = "new"
    BY Zenon, <2>1 DEF Phase
  <2>3. CASE dialer' = [dialer EXCEPT ![d] = "failed"] \/ dialer' = [dialer EXCEPT ![d] = "refused"]
    <3>1. UNCHANGED all /\ (dialer'[d] = "refused" => dialer[d] = "ok")
      BY ZenonT(40), <1>3, <2>3 DEF RInv, CoreInv, CoreType, ConnectInstall
    <3>2. \A c \in Conns : Phase(c)' = IF c = d THEN "retired" ELSE Phase(c)
      <4>1. dialer'[d] \in {"failed", "refused"} /\ \A c \in Conns \ {d} : dialer'[c] = dialer[c]
        BY Zenon, <1>0, <2>3
      <4>2. \A c \in Conns : Tracked(c)' <=> Tracked(c)
        BY Zenon, <1>1, <3>1 DEF Tracked
      <4> QED BY Zenon, <2>1, <4>1, <4>2 DEF Phase
    <3>3. DialedInv'
      BY ZenonT(40), <2>1, <2>3, <3>1 DEF RInv, CoreInv, CoreType, DialedInv
    <3>4. Shared!Discard(d)
      BY Zenon, <1>1, <2>1, <2>2, <3>2 DEF Shared!Discard, Shared!Enter
    <3> QED BY Zenon, <3>3, <3>4 DEF Maps, Shared!Next
  <2>4. CASE dialer' = [dialer EXCEPT ![d] = "installed"]
    <3>1. /\ dialer[d] = "ok" /\ ~closed /\ connGen[d] = state
          /\ all' = [all EXCEPT ![state] = @ \cup {d}]
      BY ZenonT(40), <1>3, <2>4 DEF RInv, CoreInv, CoreType, ConnectInstall
    <3>2. shared[state] = NoConn /\ \A c \in Conns : ~Tracked(c)
      BY <1>0, <3>1 DEF SingleConnection, DialInv, Tracked, Dialing
    <3>3. sock[d] \in {"open", "dead"} /\ DialedInv'
      BY <1>0, <2>1, <2>4, <3>1 DEF SockInv, DialedInv
    <3>4. \A c \in Conns : Phase(c)' = IF c = d THEN "current" ELSE Phase(c)
      BY ZenonT(40), <1>1, <2>4, <3>1, <3>2 DEF RInv, CoreInv, CoreType, Phase
    <3>5. \A c \in Conns : Phase(c) # "current"
      BY Zenon, <3>2 DEF Phase
    <3>6. Shared!Install(d)
      BY ZenonT(40), <1>1, <2>1, <2>2, <3>3, <3>4, <3>5 DEF Shared!Install, Shared!Current, Shared!Enter
    <3> QED BY Zenon, <3>3, <3>6 DEF Maps, Shared!Next
  <2> QED BY ZenonT(40), <1>3, <2>3, <2>4 DEF ConnectInstall
<1>4. CASE ConnectDone(d)
  <2>1. /\ dialer[d] \in {"installed", "failed", "refused"} /\ UNCHANGED all
        /\ dialer' = [dialer EXCEPT ![d] = IF dialer[d] = "installed" THEN "done" ELSE "doneErr"]
        /\ sock' = IF dialer[d] = "refused" THEN [sock EXCEPT ![d] = "closed"] ELSE sock
    BY Zenon, <1>4 DEF ConnectDone
  <2>2. \A c \in Conns : Phase(c)' = Phase(c)
    BY Zenon, <1>1, <2>1 DEF RInv, CoreInv, CoreType, Phase
  <2>3. DialedInv'
    BY Zenon, <2>1 DEF RInv, CoreInv, CoreType, DialedInv
  <2>4. CASE dialer[d] = "refused"
    <3>1. Phase(d) # "current"
      <4>1. ASSUME Tracked(d) PROVE FALSE
        <5>1. d = shared[state]
          <6>1. state \in Gens /\ SingleConnection
            BY Zenon, <1>0
          <6>2. d \in all[state] /\ all[state] = {shared[state]} \ {NoConn}
            BY Zenon, <4>1, <6>1 DEF SingleConnection, Tracked
          <6> QED BY Zenon, <6>2
        <5>2. dialer[d] \in {"installed", "done"}
          BY Zenon, <1>0, <5>1 DEF SharedInv
        <5> QED BY Zenon, <2>4, <5>2
      <4> QED BY Zenon, <4>1 DEF Phase
    <3>2. {c \in Conns : sock[c] \in {"open", "dead"}}' = {c \in Conns : sock[c] \in {"open", "dead"}} \ {d}
      BY Zenon, <2>1, <2>4 DEF RInv, CoreInv, CoreType
    <3>3. Shared!CloseOther(d)
      BY Zenon, <2>2, <3>1, <3>2 DEF Shared!CloseOther
    <3> QED BY ZenonT(40), <1>1, <2>3, <3>3 DEF Maps, Shared!Next
  <2>5. CASE dialer[d] # "refused"
    BY ZenonT(40), <1>1, <2>1, <2>2, <2>3, <2>5 DEF Maps, Shared!vars
  <2> QED BY Zenon, <2>4, <2>5
<1> QED BY ZenonT(40), <1>2, <1>3, <1>4 DEF DialStep

\* CloseIdle, a read loop that fails and closeState map as they should.
LEMMA MapCloses ==
    ASSUME RInv, \/ CloseIdle \/ \E c \in Conns : ReaderInvalidate(c)
                 \/ \E g \in Gens : closeState(g)
    PROVE  Maps
<1>0. /\ state \in Gens /\ shared \in [Gens -> Conns \cup {NoConn}] /\ all \in [Gens -> SUBSET Conns]
      /\ SingleConnection /\ GenInv /\ SharedInv
  BY Zenon DEF RInv, CoreInv, CoreType, PoolInv
<1>1. CASE CloseIdle
  BY ZenonT(40), <1>1, DropFacts, MapPool DEF RInv, CoreInv, CloseIdle
<1>2. ASSUME NEW c \in Conns, ReaderInvalidate(c) PROVE Maps
  <2>1. UNCHANGED <<poolVars, waitVars, dialVars, readers, clientVars>> /\ invalidateConn(c)
    BY Zenon, <1>2 DEF ReaderInvalidate
  <2>2. CASE Tracked(c) /\ removeConn(state, c) /\ CloseConn(c)
    BY ZenonT(40), <2>1, <2>2, TrackedShared, DropFacts, MapPool DEF RInv, CoreInv
  <2>3. CASE UNCHANGED <<genVars, connVars>>
    BY ZenonT(40), <2>1, <2>3, MapPool DEF seen
  <2>4. CASE closed /\ CloseConn(c) /\ UNCHANGED <<genVars, dropped>>
    BY Zenon, <2>1, <2>4, MapPool
  <2> QED BY ZenonT(40), <2>1, <2>2, <2>3, <2>4 DEF invalidateConn
<1>3. ASSUME NEW g \in Gens, closeState(g) PROVE Maps
  <2>1. /\ sock' = [c \in Conns |-> IF c \in all[g] THEN "closed" ELSE sock[c]]
        /\ UNCHANGED <<closed, state, all, dialer, held>>
    BY ZenonT(40), <1>3 DEF closeState
  <2>2. \A c \in all[g] : ~Tracked(c)
    <3>1. g \in closing
      BY Zenon, <1>3 DEF closeState
    <3> QED BY <1>0, <3>1 DEF SingleConnection, GenInv, SharedInv, Tracked
  <2>3. CASE shared[g] = NoConn
    <3>1. sock' = sock
      BY ZenonT(40), <2>1, <2>3 DEF RInv, CoreInv, CoreType, PoolInv, SingleConnection
    <3> QED BY ZenonT(40), <2>1, <3>1, MapPool DEF seen
  <2>4. CASE shared[g] # NoConn
    <3>1. PICK c \in Conns : c = shared[g] /\ all[g] = {c}
      <4>1. shared[g] \in Conns /\ all[g] = {shared[g]} \ {NoConn}
        BY Zenon, <1>0, <2>4 DEF SingleConnection
      <4>2. all[g] = {shared[g]}
        BY Zenon, <2>4, <4>1
      <4> QED BY Zenon, <4>1, <4>2
    <3>2. CloseConn(c)
      BY Zenon, <2>1, <3>1 DEF RInv, CoreInv, CoreType
    <3> QED BY ZenonT(40), <2>1, <2>2, <3>1, <3>2, MapPool
  <2> QED BY Zenon, <2>3, <2>4
<1> QED BY ZenonT(40), <1>1, <1>2, <1>3

\* Reset and Close retire the current connection and leave it open.
LEMMA MapReset ==
    ASSUME RInv, Reset \/ Close PROVE Maps
<1>0. /\ state \in Gens /\ shared \in [Gens -> Conns \cup {NoConn}] /\ all \in [Gens -> SUBSET Conns]
      /\ SingleConnection /\ GenInv /\ SharedInv
  BY Zenon DEF RInv, CoreInv, CoreType, PoolInv
<1>1. /\ ~closed /\ state' \in Gens /\ (closed' \/ state' \notin used)
      /\ UNCHANGED <<all, shared, dialer, sock, held>>
  BY Zenon DEF Reset, Close, RInv, CoreInv, CoreType
<1>2. \A c \in Conns : ~Tracked(c)'
  BY <1>0, <1>1 DEF SingleConnection, GenInv, Tracked
<1>3. DialedInv'
  BY Zenon, <1>1 DEF RInv, DialedInv
<1>4. CASE shared[state] = NoConn
  <2>1. \A c \in Conns : Phase(c)' = Phase(c)
    BY ZenonT(40), <1>1, <1>2, <1>4 DEF RInv, CoreInv, CoreType, PoolInv, SingleConnection, Phase
  <2> QED BY ZenonT(40), <1>1, <1>3, <2>1 DEF Maps, Shared!vars
<1>5. CASE shared[state] # NoConn
  <2>1. PICK d \in Conns : d = shared[state]
    BY ZenonT(40), <1>5 DEF RInv, CoreInv, CoreType
  <2>2. Tracked(d) /\ dialer[d] \in {"installed", "done"} /\ \A c \in Conns : Tracked(c) => c = d
    <3>1. all[state] = {d}
      BY Zenon, <1>0, <1>5, <2>1 DEF SingleConnection
    <3>2. dialer[d] \in {"installed", "done"}
      BY Zenon, <1>0, <1>5, <2>1 DEF SharedInv
    <3> QED BY Zenon, <1>1, <3>1, <3>2 DEF Tracked
  <2>3. \A c \in Conns : Phase(c)' = IF c = d THEN "retired" ELSE Phase(c)
    BY ZenonT(40), <1>1, <1>2, <2>2 DEF Phase
  <2>4. Phase(d) = "current"
    BY Zenon, <2>2 DEF Phase
  <2>5. Shared!Retire(d)
    BY ZenonT(40), <1>1, <2>3, <2>4 DEF Shared!Retire, Shared!Enter
  <2> QED BY ZenonT(40), <1>1, <1>3, <2>5 DEF Maps, Shared!Next
<1> QED BY Zenon, <1>4, <1>5

\* New calls, cancellation and dying peers are invisible to SharedConn.
LEMMA MapEnv ==
    ASSUME RInv, \/ \E k \in Clients : Acquire(k) \/ CancelCtx(k)
                 \/ \E c \in Conns : ConnDies(c)
    PROVE  Maps
<1>1. CASE UNCHANGED <<seen, held>>
  BY Zenon, <1>1, MapPool
<1>2. ASSUME NEW d \in Conns, ConnDies(d) PROVE Maps
  <2>1. sock[d] = "open" /\ sock' = [sock EXCEPT ![d] = "dead"] /\ UNCHANGED <<closed, state, all, dialer, held>>
    BY Zenon, <1>2 DEF ConnDies
  <2>2. \A c \in Conns : Phase(c)' = Phase(c)
    BY Zenon, <2>1 DEF Phase
  <2>3. {c \in Conns : sock[c] \in {"open", "dead"}}' = {c \in Conns : sock[c] \in {"open", "dead"}}
    BY Zenon, <2>1 DEF RInv, CoreInv, CoreType
  <2>4. DialedInv'
    BY Zenon, <2>1 DEF RInv, CoreInv, CoreType, DialedInv
  <2> QED BY ZenonT(40), <2>1, <2>2, <2>3, <2>4 DEF Maps, Shared!vars
<1> QED BY Zenon, <1>1, <1>2 DEF Acquire, CancelCtx, seen

\* Every step maps as it should.
LEMMA MapNext ==
    ASSUME RInv, [Next]_vars PROVE Maps
<1>1. CASE UNCHANGED vars
  BY Zenon, <1>1, MapPool DEF vars, seen
<1>2. ASSUME NEW k \in Clients, ClientStep(k) PROVE Maps
  BY ZenonT(40), <1>2, MapAcquire, MapGiveUp, MapEnv DEF ClientStep
<1>3. ASSUME NEW c \in Conns, DialStep(c) \/ ReaderInvalidate(c) \/ ConnDies(c) PROVE Maps
  BY ZenonT(40), <1>3, MapDial, MapCloses, MapEnv
<1>4. CASE CloseIdle \/ Reset \/ Close \/ \E g \in Gens : closeState(g)
  BY ZenonT(40), <1>4, MapCloses, MapReset
<1> QED BY ZenonT(40), <1>1, <1>2, <1>3, <1>4 DEF Next

-----------------------------------------------------------------------------
(* The theorem *)

\* The pool implements the shared connection its clients are promised.
THEOREM PoolImplementsSharedConn == Spec => SharedSpec
<1>1. Init => Shared!Init /\ DialedInv
  <2> SUFFICES ASSUME Init PROVE Shared!Init /\ DialedInv
    BY Zenon
  <2>1. \A c \in Conns : Phase(c) = "new"
    BY Zenon DEF Init, NewConnPool, Phase
  <2> QED BY Zenon, <2>1 DEF Init, NewConnPool, Shared!Init, DialedInv
<1>2. CoreInv /\ DialedInv /\ [Next]_vars => DialedInv' /\ [Shared!Next]_Shared!vars
  BY Zenon, MapNext DEF RInv, Maps
<1> QED BY <1>1, <1>2, CoreInvariance, PTL DEF Spec, SharedSpec, Shared!Spec

=============================================================================
