------------------------- MODULE Multiplexer_proofs -------------------------
(***************************************************************************)
(* The multiplexer uses the pool as its clients may (PoolSpec), counts its  *)
(* pending queries as users and reads every connection it has written to,   *)
(* for any number of queries, connections, resets and query IDs, and also   *)
(* when IDs wrap round while a write is blocked.                            *)
(***************************************************************************)
EXTENDS Multiplexer, ConnPoolCore_proofs

TaskStates == {"new", "start", "acquire", "register", "write", "done"}

\* The types the argument needs.
MuxTypes ==
    /\ task \in [Clients -> TaskStates]
    /\ wconn \in [Clients -> Conns \cup {NoConn}]
    /\ wid \in [Clients -> Ids]
    /\ queryId \in Ids
    /\ queries \in [Ids -> Clients \cup {NoRun}]
    /\ reading \subseteq Conns

\* Where a run is in exchangeAsync, in the pool and in m.queries.
RunOK(k) ==
    /\ task[k] = "acquire" => pc[k] \in {"acquire", "select"}
    /\ task[k] = "register" => wconn[k] \in Conns /\ held[k] = wconn[k] /\ ~Pending(k)
    /\ task[k] = "write" => /\ wconn[k] \in Conns
                            /\ held[k] \in {NoConn, wconn[k]}
                            /\ \A i \in Ids : queries[i] = k => i = wid[k]
    /\ Pending(k) => held[k] # NoConn /\ task[k] \in {"write", "done"}

\* A run has at most one entry.
OneEntry == \A i, j \in Ids : queries[i] # NoRun /\ queries[i] = queries[j] => i = j

\* With CoreInv of the pool, the inductive invariant.
RunInv == MuxTypes /\ OneEntry /\ \A k \in Clients : RunOK(k)

Messages == [Conns -> SUBSET (Ids \X Queries)]

\* An ID in use leads to its own query or nowhere, and only first runs retry.
OwnInv ==
    /\ written \in Messages /\ received \in Messages
    /\ \A k \in Clients : task[k] = "write" => queries[wid[k]] \in {NoRun, k}
    /\ \A c \in Conns : \A m \in written[c] \cup received[c] :
        queries[m[1]] # NoRun => Query(queries[m[1]]) = m[2]
    /\ \A k \in retry : k[2] = 1

\* What the network and a recvLoop that goes on do besides completing a query.
Reads(c) ==
    \/ readNothing(c)
    \/ \E i \in Ids, q \in Queries : Lost(c, i, q) \/ readNext(c, i, q) \/ completeNothing(c, i, q)

USE NoConnFresh, NoRunFresh, MaxIdNat

-----------------------------------------------------------------------------
(* What the steps of the pool do to clients and to the connections read *)

\* No connection becomes tracked and handed out.
NoNewReader == \A c \in Conns : Tracked(c)' /\ readers'[c] > 0 => Tracked(c) /\ readers[c] > 0

\* A step of client k that hands nothing out, and the one that hands it c.
Moves(k, where) == pc' = [pc EXCEPT ![k] = where] /\ held' = held /\ NoNewReader

Obtains(k, c) ==
    /\ c \in Conns
    /\ pc' = [pc EXCEPT ![k] = "holding"]
    /\ held' = [held EXCEPT ![k] = c]
    /\ \A d \in Conns : Tracked(d)' /\ readers'[d] > 0 =>
            (Tracked(d) /\ readers[d] > 0) \/ (d = c /\ ~sharedClaimed[state])

Drops(k) ==
    /\ pc[k] = "holding"
    /\ pc' = [pc EXCEPT ![k] = "idle"]
    /\ held' = [held EXCEPT ![k] = NoConn]
    /\ NoNewReader

ClientsSame == pc' = pc /\ held' = held

\* A step that leaves these variables alone makes nothing tracked.
LEMMA SameReaders ==
    ASSUME UNCHANGED <<closed, state, all, readers>> PROVE NoNewReader
  BY Zenon DEF NoNewReader, Tracked

\* Nor does one that drops a connection from the current state.
LEMMA FewerTracked ==
    ASSUME CoreType, UNCHANGED <<closed, state>>,
           all' = all \/ \E c : all' = [all EXCEPT ![state] = @ \ {c}]
    PROVE  \A d \in Conns : Tracked(d)' => Tracked(d)
<1>1. all \in [Gens -> SUBSET Conns] /\ state \in Gens
  BY Zenon DEF CoreType
<1>2. all'[state] \subseteq all[state]
  BY Zenon, <1>1
<1> QED BY Zenon, <1>2 DEF Tracked

\* acquireShared moves its client or gives it the shared connection.
LEMMA AcquireEffect ==
    ASSUME CoreInv, NEW k \in Clients, AcquireStep(k) \/ SelectStep(k)
    PROVE  \/ \E where \in {"idle", "acquire", "select"} : Moves(k, where)
           \/ Obtains(k, shared[state])
<1> /\ CoreType /\ PoolInv /\ ClientInv /\ SingleConnection
    /\ DialInv /\ GenInv /\ SharedInv /\ SockInv /\ ReaderInv
  BY ZenonT(40) DEF CoreInv, PoolInv
<1>1. CASE AcquireClaim(k) \/ CollectClaim(k)
  <2>1. /\ claim(k) /\ shared[state] # NoConn /\ UNCHANGED <<closed, state>>
    BY Zenon, <1>1 DEF AcquireClaim, CollectClaim, poolVars
  <2>2. /\ pc' = [pc EXCEPT ![k] = "holding"] /\ held' = [held EXCEPT ![k] = shared[state]]
        /\ readers' = [readers EXCEPT ![shared[state]] = IF sharedClaimed[state] THEN @ ELSE @ + 1]
        /\ UNCHANGED all
    BY Zenon, <2>1 DEF claim, markClaimed
  <2>3. shared[state] \in Conns /\ readers \in [Conns -> Nat]
    BY Zenon, <2>1 DEF CoreType
  <2>4. \A d \in Conns : Tracked(d)' => Tracked(d)
    BY Zenon, <2>1, <2>2, FewerTracked
  <2>5. \A d \in Conns : readers'[d] = readers[d] \/ (d = shared[state] /\ ~sharedClaimed[state])
    BY Zenon, <2>2, <2>3
  <2>6. \A d \in Conns : Tracked(d)' /\ readers'[d] > 0 =>
            (Tracked(d) /\ readers[d] > 0) \/ (d = shared[state] /\ ~sharedClaimed[state])
    BY Zenon, <2>4, <2>5
  <2> QED BY Zenon, <2>2, <2>3, <2>6 DEF Obtains
<1>2. CASE AcquireDead(k)
  <2>1. UNCHANGED <<closed, state, readers, pc, held>> /\ pc[k] = "acquire"
    BY Zenon, <1>2 DEF AcquireDead, poolVars, clientVars
  <2>2. \A d \in Conns : Tracked(d)' => Tracked(d)
    BY Zenon, <1>2, <2>1, FewerTracked DEF AcquireDead, removeConn
  <2>3. pc' = [pc EXCEPT ![k] = "acquire"]
    <3>1. pc \in [Clients -> ClientStates]
      BY Zenon DEF CoreType
    <3> QED BY SMT, <2>1, <3>1
  <2> QED BY Zenon, <2>1, <2>2, <2>3 DEF Moves, NoNewReader
<1>3. CASE CollectGone(k)
  <2>1. UNCHANGED <<closed, state, readers, held>> /\ pc' = [pc EXCEPT ![k] = "acquire"]
    BY Zenon, <1>3 DEF CollectGone, Retry, poolVars
  <2>2. \A d \in Conns : Tracked(d)' => Tracked(d)
    BY Zenon, <1>3, <2>1, FewerTracked DEF CollectGone, removeConn, genVars
  <2> QED BY Zenon, <2>1, <2>2 DEF Moves, NoNewReader
<1>4. CASE AcquireClosed(k) \/ AcquireWait(k)
  BY Zenon, <1>4, SameReaders DEF AcquireClosed, AcquireWait, Return, Moves, poolVars, genVars
<1>5. CASE SelectCtxDone(k) \/ SelectStateDone(k) \/ CollectFailed(k) \/ CollectStale(k)
  BY Zenon, <1>5, SameReaders DEF SelectCtxDone, SelectStateDone, CollectFailed, CollectStale, Return, Retry,
     Moves, poolVars, genVars
<1> QED BY Zenon, <1>1, <1>2, <1>3, <1>4, <1>5 DEF AcquireStep, SelectStep

\* Whatever a client does with its connection, it no longer holds it.
LEMMA GiveUpEffect ==
    ASSUME CoreInv, NEW k \in Clients, Release(k, TRUE) \/ Invalidate(k) \/ Forget(k)
    PROVE  Drops(k)
<1> /\ CoreType /\ ClientInv
  BY Zenon DEF CoreInv
<1>1. GiveUp(k)
  BY Zenon DEF Release, Invalidate, Forget
<1>2. \A c \in Conns : Tracked(c)' => Tracked(c)
  <2>1. all' = all \/ \E c : all' = [all EXCEPT ![state] = @ \ {c}]
    BY Zenon, <1>1 DEF Release, Invalidate, Forget, releaseConn, invalidateConn, removeConn, genVars
  <2>2. closed' = closed /\ state' = state
    BY Zenon, <1>1 DEF GiveUp, poolVars
  <2> QED BY Zenon, <2>1, <2>2, FewerTracked
<1> QED BY Zenon, <1>1, <1>2 DEF Drops, NoNewReader, GiveUp, Return

\* The other steps of the pool leave the clients alone.
LEMMA OtherEffect ==
    ASSUME CoreInv, \/ \E c \in Conns : DialStep(c) \/ ReaderInvalidate(c)
                    \/ CloseIdle \/ Reset \/ Close \/ \E g \in Gens : closeState(g)
    PROVE  ClientsSame /\ NoNewReader
<1> /\ CoreType /\ PoolInv /\ SingleConnection
    /\ DialInv /\ GenInv /\ SharedInv /\ SockInv /\ ReaderInv
  BY Zenon DEF CoreInv, PoolInv
<1>1. ASSUME NEW c \in Conns, ConnectInstall(c) PROVE ClientsSame /\ NoNewReader
  <2>1. CASE all' = all
    BY Zenon, <1>1, <2>1, SameReaders DEF ConnectInstall, ClientsSame, poolVars, clientVars
  <2>2. CASE dialer[c] = "ok" /\ all' = [all EXCEPT ![connGen[c]] = @ \cup {c}]
    <3>1. readers[c] = 0
      BY <2>2 DEF ReaderInv
    <3>2. UNCHANGED <<closed, state, readers, pc, held>>
      BY Zenon, <1>1 DEF ConnectInstall, poolVars, clientVars
    <3>3. \A d \in Conns : d # c /\ Tracked(d)' => Tracked(d)
      <4>1. all \in [Gens -> SUBSET Conns] /\ state \in Gens
        BY Zenon DEF CoreType
      <4>2. all'[state] \subseteq all[state] \cup {c}
        BY Zenon, <2>2, <4>1
      <4> QED BY Zenon, <3>2, <4>2 DEF Tracked
    <3>4. ~(readers'[c] > 0)
      BY SMT, <3>1, <3>2
    <3> QED BY Zenon, <3>2, <3>3, <3>4 DEF ClientsSame, NoNewReader
  <2> QED BY Zenon, <1>1, <2>1, <2>2 DEF ConnectInstall
<1>2. ASSUME NEW c \in Conns, DialReturn(c) \/ ConnectDone(c) PROVE ClientsSame /\ NoNewReader
  BY ZenonT(40), <1>2, SameReaders DEF DialReturn, ConnectDone, ClientsSame, poolVars, clientVars, genVars
<1>3. ASSUME NEW c \in Conns, ReaderInvalidate(c) PROVE ClientsSame /\ NoNewReader
  <2>1. UNCHANGED <<closed, state, readers, pc, held>>
    BY Zenon, <1>3 DEF ReaderInvalidate, poolVars, clientVars
  <2>2. \A d \in Conns : Tracked(d)' => Tracked(d)
    BY Zenon, <1>3, <2>1, FewerTracked DEF ReaderInvalidate, invalidateConn, removeConn, genVars
  <2> QED BY Zenon, <2>1, <2>2 DEF ClientsSame, NoNewReader
<1>4. CASE CloseIdle
  BY Zenon, <1>4 DEF CloseIdle, removeConn, CoreType, ClientsSame, NoNewReader, Tracked, poolVars, clientVars
<1>5. CASE Reset
  BY Zenon, <1>5 DEF Reset, CoreType, GenInv, SingleConnection, ClientsSame, NoNewReader, Tracked, clientVars, genVars
<1>6. CASE Close
  BY Zenon, <1>6 DEF Close, ClientsSame, NoNewReader, Tracked, clientVars
<1>7. CASE \E g \in Gens : closeState(g)
  BY Zenon, <1>7, SameReaders DEF closeState, ClientsSame, clientVars, genVars
<1> QED BY Zenon, <1>1, <1>2, <1>3, <1>4, <1>5, <1>6, <1>7 DEF DialStep

-----------------------------------------------------------------------------
(* RunInv, one lemma per action *)

\* The step changes the run k alone, and enters nobody else in m.queries.
RunSame(l) ==
    /\ task'[l] = task[l] /\ wconn'[l] = wconn[l] /\ wid'[l] = wid[l]
    /\ pc'[l] = pc[l] /\ held'[l] = held[l]
    /\ \A i \in Ids : queries'[i] = l => queries[i] = l

OthersSame(k) == \A l \in Clients \ {k} : RunSame(l)

\* A run the step leaves alone keeps its part of the invariant.
LEMMA RunFrame ==
    ASSUME NEW l \in Clients, RunOK(l), RunSame(l) PROVE RunOK(l)'
  BY Zenon DEF RunOK, RunSame, Pending

\* If only the run k changes, its part of the invariant is all there is to show.
LEMMA RunStepInv ==
    ASSUME RunInv, NEW k \in Clients, MuxTypes', OneEntry', RunOK(k)', OthersSame(k)
    PROVE  RunInv'
  BY Zenon, RunFrame DEF RunInv, OthersSame

\* Deleting the entry of k leaves k without one and the others with theirs.
LEMMA TakeEffect ==
    ASSUME RunInv, NEW k \in Clients, NEW i \in Ids, queries[i] = k,
           queries' = [queries EXCEPT ![i] = NoRun]
    PROVE  /\ OneEntry' /\ ~Pending(k)'
           /\ queries' \in [Ids -> Clients \cup {NoRun}]
           /\ \A l \in Clients, j \in Ids : queries'[j] = l => queries[j] = l
<1> MuxTypes /\ OneEntry
  BY Zenon DEF RunInv
<1>1. queries' \in [Ids -> Clients \cup {NoRun}]
  BY Zenon DEF MuxTypes
<1>2. \A j \in Ids : queries'[j] = IF j = i THEN NoRun ELSE queries[j]
  BY Zenon DEF MuxTypes
<1>3. OneEntry'
  BY <1>2 DEF OneEntry
<1>4. ~Pending(k)'
  <2> SUFFICES ASSUME NEW j \in Ids, queries'[j] = k PROVE FALSE
    BY Zenon DEF Pending
  <2> QED BY <1>2 DEF OneEntry
<1> QED BY Zenon, <1>1, <1>2, <1>3, <1>4

\* The run k is now at where, its locals being well typed.
Arrives(k, where) ==
    /\ task'[k] = where
    /\ task' \in [Clients -> TaskStates]
    /\ wconn' \in [Clients -> Conns \cup {NoConn}]
    /\ wid' \in [Clients -> Ids]
    /\ \A l \in Clients \ {k} : task'[l] = task[l] /\ wconn'[l] = wconn[l] /\ wid'[l] = wid[l]

\* exchangeAsync returns.
LEMMA Ends == ASSUME MuxTypes, NEW k \in Clients, EndRun(k) PROVE Arrives(k, "done")
<1>1. 0 \in Ids
  BY DEF Ids
<1> QED BY Zenon, <1>1 DEF MuxTypes, EndRun, Goto, Arrives, TaskStates

\* exchangeAsync goes on.
LEMMA Goes ==
    ASSUME MuxTypes, NEW k \in Clients, NEW where \in TaskStates, Goto(k, where),
           UNCHANGED <<wconn, wid>>
    PROVE  Arrives(k, where)
  BY Zenon DEF MuxTypes, Goto, Arrives

\* A run calls AcquireShared.
LEMMA RunAcquire ==
    ASSUME CoreInv, RunInv, NEW k \in Clients, task[k] \in {"new", "start"},
           Acquire(k), Goto(k, "acquire"), UNCHANGED <<wconn, wid, mapVars, netVars>>
    PROVE  RunInv'
<1> MuxTypes /\ OneEntry /\ RunOK(k) /\ CoreType
  BY Zenon DEF RunInv, CoreInv
<1>1. pc' = [pc EXCEPT ![k] = "acquire"] /\ held' = held /\ task' = [task EXCEPT ![k] = "acquire"]
  BY Zenon DEF Acquire, Retry, Goto
<1>2. MuxTypes' /\ OneEntry'
  BY Zenon, <1>1 DEF MuxTypes, OneEntry, TaskStates, mapVars, netVars
<1>3. RunOK(k)'
  BY Zenon, <1>1 DEF RunOK, Pending, MuxTypes, CoreType, mapVars
<1>4. OthersSame(k)
  BY Zenon, <1>1 DEF OthersSame, RunSame, MuxTypes, CoreType, mapVars
<1> QED BY Zenon, <1>2, <1>3, <1>4, RunStepInv

\* A run goes on in AcquireShared, or returns from it.
LEMMA RunAcquireShared ==
    ASSUME CoreInv, RunInv, NEW k \in Clients, AcquireShared(k)
    PROVE  RunInv'
<1> MuxTypes /\ OneEntry /\ RunOK(k) /\ CoreType
  BY Zenon DEF RunInv, CoreInv
<1>1. queries' = queries /\ queryId' = queryId /\ task[k] = "acquire" /\ ~Pending(k)
  BY Zenon DEF AcquireShared, mapVars, RunOK
<1>2. PICK where \in ClientStates, c \in Conns \cup {NoConn} :
        pc' = [pc EXCEPT ![k] = where] /\ held' = [held EXCEPT ![k] = c]
        /\ (where = "holding" => c = shared[state] /\ c \in Conns)
  <2>1. CASE \E where \in {"idle", "acquire", "select"} : Moves(k, where)
    <3>1. held[k] \in Conns \cup {NoConn} /\ held = [held EXCEPT ![k] = held[k]]
      BY Zenon DEF CoreType
    <3> QED BY Zenon, <2>1, <3>1 DEF Moves, ClientStates
  <2>2. CASE Obtains(k, shared[state])
    BY Zenon, <2>2 DEF Obtains, ClientStates
  <2> QED BY Zenon, <2>1, <2>2, AcquireEffect DEF AcquireShared
<1>3. pc'[k] = where /\ held'[k] = c
  BY Zenon, <1>2 DEF CoreType
<1>4. CASE pc'[k] \in {"acquire", "select"} /\ UNCHANGED <<runVars, netVars, userVars>>
  <2>1. MuxTypes' /\ OneEntry'
    BY Zenon, <1>1, <1>4 DEF MuxTypes, OneEntry, runVars, netVars
  <2>2. RunOK(k)'
    BY Zenon, <1>1, <1>4 DEF RunOK, Pending, runVars
  <2>3. OthersSame(k)
    BY Zenon, <1>1, <1>2, <1>4 DEF OthersSame, RunSame, CoreType, runVars
  <2> QED BY Zenon, <2>1, <2>2, <2>3, RunStepInv
<1>5. CASE pc'[k] = "idle" /\ EndRun(k) /\ UNCHANGED <<netVars>>
  <2>1. MuxTypes' /\ OneEntry'
    BY ZenonT(40), <1>1, <1>5, Ends DEF MuxTypes, OneEntry, Arrives, netVars
  <2>2. RunOK(k)'
    BY Zenon, <1>1, <1>5, Ends DEF RunOK, Pending, Arrives
  <2>3. OthersSame(k)
    BY ZenonT(40), <1>1, <1>2, <1>5, Ends DEF OthersSame, RunSame, Arrives, CoreType
  <2> QED BY Zenon, <2>1, <2>2, <2>3, RunStepInv
<1>6. CASE /\ pc'[k] = "holding"
           /\ Goto(k, "register")
           /\ wconn' = [wconn EXCEPT ![k] = shared[state]]
           /\ reading' = IF sharedClaimed[state] THEN reading ELSE reading \cup {shared[state]}
           /\ wid' = wid
  <2>0. shared[state] \in Conns /\ held'[k] = shared[state]
    BY ZenonT(40), <1>2, <1>3, <1>6
  <2>1. MuxTypes' /\ OneEntry'
    BY Zenon, <1>1, <1>6, <2>0 DEF MuxTypes, OneEntry, Goto, TaskStates
  <2>2. RunOK(k)'
    BY ZenonT(40), <1>1, <1>6, <2>0 DEF RunOK, Pending, Goto, MuxTypes
  <2>3. OthersSame(k)
    BY ZenonT(40), <1>1, <1>2, <1>6 DEF OthersSame, RunSame, Goto, MuxTypes, CoreType
  <2> QED BY Zenon, <2>1, <2>2, <2>3, RunStepInv
<1> QED BY Zenon, <1>4, <1>5, <1>6 DEF AcquireShared

\* A run registers its query under the next free ID.
LEMMA RunRegister ==
    ASSUME CoreInv, RunInv, NEW k \in Clients, register(k)
    PROVE  RunInv'
<1> MuxTypes /\ OneEntry /\ RunOK(k) /\ CoreType
  BY Zenon DEF RunInv, CoreInv
<1> DEFINE n == queryId'
<1>1. n \in Ids /\ queries[n] = NoRun
  BY Zenon DEF register, NextId, FreeIds
<1>2. /\ task[k] = "register" /\ task' = [task EXCEPT ![k] = "write"]
      /\ queries' = [queries EXCEPT ![n] = k]
      /\ wid' = [wid EXCEPT ![k] = n]
      /\ UNCHANGED <<wconn, pc, held, reading>>
  BY Zenon DEF register, Goto, vars, clientVars, netVars
<1> HIDE DEF n
<1>3. n \in Ids /\ queries' = [queries EXCEPT ![n] = k] /\ wid'[k] = n /\ task'[k] = "write"
  BY Zenon, <1>1, <1>2 DEF n, MuxTypes
<1>4. \A i \in Ids : queries'[i] = IF i = n THEN k ELSE queries[i]
  BY Zenon, <1>3 DEF MuxTypes
<1>5. MuxTypes'
  BY Zenon, <1>1, <1>2 DEF MuxTypes, TaskStates, n
<1>6. ~Pending(k) /\ wconn[k] \in Conns /\ held[k] = wconn[k]
  BY Zenon, <1>2 DEF RunOK
<1>7. OneEntry'
  BY Zenon, <1>4, <1>6 DEF OneEntry, Pending
<1>8. RunOK(k)'
  BY ZenonT(40), <1>2, <1>3, <1>4, <1>6 DEF RunOK, Pending
<1>9. OthersSame(k)
  BY Zenon, <1>2, <1>4 DEF OthersSame, RunSame, MuxTypes
<1> QED BY Zenon, <1>5, <1>7, <1>8, <1>9, RunStepInv

\* No ID is free: the run gives its connection back and ends.
LEMMA RunRegisterFails ==
    ASSUME CoreInv, RunInv, NEW k \in Clients, registerFails(k)
    PROVE  RunInv'
<1> MuxTypes /\ OneEntry /\ RunOK(k) /\ CoreType
  BY Zenon DEF RunInv, CoreInv
<1>1. Drops(k) /\ EndRun(k) /\ task[k] = "register" /\ UNCHANGED <<queryId, queries, reading>>
  BY Zenon, GiveUpEffect DEF registerFails, mapVars, netVars
<1>2. MuxTypes' /\ OneEntry'
  BY ZenonT(40), <1>1, Ends DEF MuxTypes, OneEntry, Arrives
<1>3. RunOK(k)'
  BY Zenon, <1>1, Ends DEF RunOK, Pending, Arrives
<1>4. OthersSame(k)
  BY ZenonT(40), <1>1, Ends DEF OthersSame, RunSame, Arrives, CoreType, Drops
<1> QED BY Zenon, <1>2, <1>3, <1>4, RunStepInv

\* A write returns, without error or after somebody took the entry.
LEMMA RunWrite ==
    ASSUME CoreInv, RunInv, NEW k \in Clients, write(k) \/ writeFailsStale(k)
    PROVE  RunInv'
<1> MuxTypes /\ OneEntry /\ RunOK(k) /\ CoreType
  BY Zenon DEF RunInv, CoreInv
<1>1. EndRun(k) /\ task[k] = "write" /\ UNCHANGED <<queryId, queries, reading, pc, held>>
  BY Zenon DEF write, writeFailsStale, mapVars, netVars, vars, clientVars, ReaderInvalidate
<1>2. MuxTypes' /\ OneEntry'
  BY ZenonT(40), <1>1, Ends DEF MuxTypes, OneEntry, Arrives
<1>3. RunOK(k)'
  BY Zenon, <1>1, Ends DEF RunOK, Pending, Arrives
<1>4. OthersSame(k)
  BY Zenon, <1>1, Ends DEF OthersSame, RunSame, Arrives
<1> QED BY Zenon, <1>2, <1>3, <1>4, RunStepInv

\* A write fails and takes the entry of its ID, be it the run's own or not.
LEMMA RunWriteFails ==
    ASSUME CoreInv, RunInv, NEW k \in Clients, writeFails(k)
    PROVE  RunInv'
<1> MuxTypes /\ OneEntry /\ RunOK(k) /\ CoreType /\ ClientInv
  BY Zenon DEF RunInv, CoreInv
<1> DEFINE p == queries[wid[k]]
<1>1. /\ wid[k] \in Ids /\ p \in Clients /\ task[k] = "write"
      /\ queries' = [queries EXCEPT ![wid[k]] = NoRun] /\ UNCHANGED <<queryId, reading>>
  BY Zenon DEF writeFails, MuxTypes, take, netVars
<1>2. /\ OneEntry' /\ queries' \in [Ids -> Clients \cup {NoRun}]
      /\ \A l \in Clients, j \in Ids : queries'[j] = l => queries[j] = l
  BY Zenon, <1>1, TakeEffect
<1>3. ~Pending(k)'
  <2> SUFFICES ASSUME NEW j \in Ids, queries'[j] = k PROVE FALSE
    BY Zenon DEF Pending
  <2>1. queries[j] = k /\ j = wid[k]
    BY Zenon, <1>1, <1>2 DEF RunOK
  <2>2. queries'[j] = NoRun
    BY Zenon, <1>1, <2>1 DEF MuxTypes
  <2> QED BY Zenon, <2>2
<1>4. \A l \in Clients \ {k} : pc'[l] = pc[l] /\ held'[l] = held[l]
  <2>1. CASE held[k] # NoConn
    <3>1. Drops(k)
      BY Zenon, <2>1, GiveUpEffect DEF writeFails
    <3> QED BY Zenon, <3>1 DEF Drops, CoreType
  <2>2. CASE held[k] = NoConn
    BY Zenon, <2>2 DEF writeFails, ReaderInvalidate, clientVars
  <2> QED BY Zenon, <2>1, <2>2
<1>5. Arrives(k, "start") \/ Arrives(k, "done")
  BY Zenon, Ends, Goes DEF writeFails, TaskStates
<1>6. MuxTypes'
  BY ZenonT(40), <1>1, <1>2, <1>5 DEF MuxTypes, Arrives
<1>7. RunOK(k)'
  BY Zenon, <1>3, <1>5 DEF RunOK, Arrives
<1>8. OthersSame(k)
  BY Zenon, <1>2, <1>4, <1>5 DEF OthersSame, RunSame, Arrives
<1> QED BY Zenon, <1>2, <1>6, <1>7, <1>8, RunStepInv

\* An entry is taken and the use of its connection ends.
LEMMA RunTaken ==
    ASSUME CoreInv, RunInv, NEW k \in Clients, NEW i \in Ids, queries[i] = k,
           queries' = [queries EXCEPT ![i] = NoRun], Drops(k),
           UNCHANGED <<task, wconn, wid, queryId, reading>>
    PROVE  RunInv'
<1> MuxTypes /\ OneEntry /\ RunOK(k) /\ CoreType
  BY Zenon DEF RunInv, CoreInv
<1>1. /\ OneEntry' /\ ~Pending(k)' /\ queries' \in [Ids -> Clients \cup {NoRun}]
      /\ \A l \in Clients, j \in Ids : queries'[j] = l => queries[j] = l
  BY Zenon, TakeEffect
<1>2. task[k] \in {"write", "done"} /\ held'[k] = NoConn
  BY Zenon DEF RunOK, Pending, Drops, CoreType
<1>3. MuxTypes'
  BY Zenon, <1>1 DEF MuxTypes
<1>4. RunOK(k)'
  BY Zenon, <1>1, <1>2 DEF RunOK, Pending
<1>5. OthersSame(k)
  BY Zenon, <1>1 DEF OthersSame, RunSame, CoreType, Drops
<1> QED BY Zenon, <1>1, <1>3, <1>4, <1>5, RunStepInv

\* A response takes an entry.
LEMMA RunComplete ==
    ASSUME CoreInv, RunInv, NEW c \in Conns, NEW i \in Ids, NEW q \in Queries, complete(c, i, q)
    PROVE  RunInv'
<1> DEFINE k == queries[i]
<1>1. k \in Clients
  BY Zenon DEF complete, RunInv, MuxTypes
<1>2. Drops(k)
  BY Zenon, <1>1, GiveUpEffect DEF complete
<1>3. /\ queries' = [queries EXCEPT ![i] = NoRun]
      /\ UNCHANGED <<task, wconn, wid, queryId, reading>>
  BY Zenon DEF complete, take, runVars
<1> QED BY Zenon, <1>1, <1>2, <1>3, RunTaken

\* The end of its context takes the entry of a query.
LEMMA RunContextDone ==
    ASSUME CoreInv, RunInv, NEW k \in Clients, completeContextDone(k)
    PROVE  RunInv'
<1>1. Drops(k)
  BY Zenon, GiveUpEffect DEF completeContextDone
<1>2. PICK i \in Ids : queries[i] = k /\ take(k, i)
  BY Zenon DEF completeContextDone
<1>3. UNCHANGED <<task, wconn, wid, reading>>
  BY Zenon DEF completeContextDone, runVars, netVars
<1> QED BY Zenon, <1>1, <1>2, <1>3, RunTaken DEF take

\* The end of its connection takes the entry of a query, and may start the second
\* run, which is a new one.
LEMMA RunConnDone ==
    ASSUME CoreInv, RunInv, NEW k \in Clients, completeConnDone(k)
    PROVE  RunInv'
<1> MuxTypes /\ OneEntry /\ RunOK(k) /\ CoreType
  BY Zenon DEF RunInv, CoreInv
<1>1. Drops(k)
  BY Zenon, GiveUpEffect DEF completeConnDone
<1>2. PICK i \in Ids : queries[i] = k /\ take(k, i)
  BY Zenon DEF completeConnDone
<1>3. UNCHANGED <<wconn, wid, reading>>
  BY Zenon DEF completeConnDone, netVars
<1>4. CASE task' = task
  BY Zenon, <1>1, <1>2, <1>3, <1>4, RunTaken DEF take
<1>5. CASE task[<<Query(k), 2>>] = "new" /\ Goto(<<Query(k), 2>>, "start")
  <2> DEFINE l == <<Query(k), 2>>
  <2>1. l \in Clients
    BY Zenon, RunsAreClients DEF Query
  <2> HIDE DEF l
  <2>2. Arrives(l, "start") /\ task[l] = "new"
    BY Zenon, <1>3, <1>5, <2>1, Goes DEF l, TaskStates
  <2>3. /\ OneEntry' /\ ~Pending(k)' /\ queries' \in [Ids -> Clients \cup {NoRun}]
        /\ \A m \in Clients, j \in Ids : queries'[j] = m => queries[j] = m
    BY Zenon, <1>2, TakeEffect DEF take
  <2>4. MuxTypes'
    BY Zenon, <1>2, <1>3, <2>2, <2>3 DEF MuxTypes, Arrives, take
  <2>5. task[k] \in {"write", "done"} /\ l # k
    BY ZenonT(40), <1>2, <2>2 DEF RunOK, Pending
  <2>6. RunOK(k)'
    BY ZenonT(40), <1>1, <1>3, <2>2, <2>3, <2>5 DEF RunOK, Arrives, Drops, CoreType
  <2>7. ~Pending(l)'
    BY ZenonT(40), <2>1, <2>2, <2>3 DEF RunInv, RunOK, Pending
  <2>8. RunOK(l)'
    BY Zenon, <2>2, <2>7 DEF RunOK, Arrives
  <2>9. \A m \in Clients \ {k, l} : RunSame(m)
    BY ZenonT(40), <1>1, <2>2, <2>3 DEF RunSame, Arrives, CoreType, Drops
  <2> QED BY Zenon, <2>3, <2>4, <2>6, <2>8, <2>9, RunFrame DEF RunInv
<1> QED BY Zenon, <1>4, <1>5 DEF completeConnDone

\* The other steps change neither runs nor entries.
LEMMA RunOther ==
    ASSUME RunInv, ClientsSame, UNCHANGED <<task, wconn, wid, queryId, queries>>,
           reading' \subseteq reading
    PROVE  RunInv'
<1>1. MuxTypes' /\ OneEntry'
  BY Zenon DEF RunInv, MuxTypes, OneEntry
<1>2. \A k \in Clients : RunSame(k)
  BY Zenon DEF RunSame, ClientsSame
<1> QED BY Zenon, <1>1, <1>2, RunFrame DEF RunInv

\* They change none of these.
LEMMA ReadsOnly ==
    ASSUME NEW c \in Conns, Reads(c)
    PROVE  /\ UNCHANGED vars /\ reading' = reading
           /\ UNCHANGED <<task, wconn, wid, queryId, queries, retry, answers, keepIdle, sweeps>>
  BY Zenon DEF Reads, readNothing, Lost, readNext, completeNothing, runVars, mapVars, netVars, userVars, idleVars

\* Contexts, read errors, sweeps and the pool itself move no client.
LEMMA QuietClients ==
    ASSUME CoreInv,
           \/ \E q \in Queries, why \in {"deadline", "cancel"} : CtxDone(q, why)
           \/ \E k \in Clients : CancelAcquire(k)
           \/ \E c \in Conns : Reads(c) \/ recvLoopFails(c)
           \/ closeIdleConnection \/ PoolStep \/ UNCHANGED mvars
           \/ \E keep \in KeepIdleCalls : SetKeepIdleConnections(keep)
    PROVE  ClientsSame
<1>1. CASE UNCHANGED vars
  BY Zenon, <1>1 DEF vars, clientVars, ClientsSame
<1>2. CASE \E k \in Clients : CancelCtx(k)
  BY Zenon, <1>2 DEF CancelCtx, ClientsSame
<1>3. CASE \E c \in Conns : recvLoopFails(c)
  BY Zenon, <1>3, OtherEffect DEF recvLoopFails
<1>4. CASE CloseIdle \/ PoolStep
  BY Zenon, <1>4, OtherEffect DEF PoolStep
<1> QED
  BY Zenon, <1>1, <1>2, <1>3, <1>4, ReadsOnly DEF CtxDone, CancelAcquire,
     closeIdleConnection, SetKeepIdleConnections, mvars

\* So they preserve RunInv.
LEMMA RunQuiet ==
    ASSUME CoreInv, RunInv,
           \/ \E q \in Queries, why \in {"deadline", "cancel"} : CtxDone(q, why)
           \/ \E k \in Clients : CancelAcquire(k)
           \/ \E c \in Conns : Reads(c) \/ recvLoopFails(c)
           \/ closeIdleConnection \/ PoolStep \/ UNCHANGED mvars
           \/ \E keep \in KeepIdleCalls : SetKeepIdleConnections(keep)
    PROVE  RunInv'
<1>1. ClientsSame
  BY Zenon, QuietClients
<1>2. UNCHANGED <<task, wconn, wid, queryId, queries>>
  BY Zenon, ReadsOnly DEF CtxDone, CancelAcquire, recvLoopFails, closeIdleConnection,
     SetKeepIdleConnections, PoolStep, muxVars, mvars, runVars, mapVars
<1>3. reading' \subseteq reading
  BY Zenon, ReadsOnly DEF CtxDone, CancelAcquire, recvLoopFails, closeIdleConnection,
     SetKeepIdleConnections, PoolStep, muxVars, mvars, netVars
<1> QED BY Zenon, <1>1, <1>2, <1>3, RunOther

\* Every step preserves RunInv.
LEMMA RunNext == ASSUME CoreInv, RunInv, [MuxNext]_mvars PROVE RunInv'
<1>1. ASSUME NEW q \in Queries, ExchangeAsync(q) PROVE RunInv'
  <2>1. <<q, 1>> \in Clients
    BY Zenon, RunsAreClients
  <2> QED BY Zenon, <1>1, <2>1, RunAcquire DEF ExchangeAsync
<1>2. ASSUME NEW k \in Clients, exchangeAsync(k) PROVE RunInv'
  BY Zenon, <1>2, RunAcquire DEF exchangeAsync
<1> QED
  BY ZenonT(40), <1>1, <1>2, RunAcquireShared, RunRegister, RunRegisterFails, RunWrite, RunWriteFails,
     RunComplete, RunContextDone, RunConnDone, RunQuiet DEF MuxNext, RunStep, Reads

-----------------------------------------------------------------------------
(* The multiplexer as a user of the pool *)

\* Every step is a step of ConnPool or leaves the pool alone: a run acquires
\* for itself, an entry that is taken belongs to a client, and a connection
\* that is invalidated after a write was held by the writer.
LEMMA PoolNext == ASSUME CoreInv, RunInv, [MuxNext]_mvars PROVE UNCHANGED vars \/ Next
<1> MuxTypes /\ \A k \in Clients : RunOK(k)
  BY Zenon DEF RunInv
<1>1. ASSUME NEW q \in Queries, ExchangeAsync(q) PROVE Next
  <2>1. <<q, 1>> \in Clients
    BY Zenon, RunsAreClients
  <2> QED BY Zenon, <1>1, <2>1 DEF ExchangeAsync, Next, ClientStep
<1>2. ASSUME NEW k \in Clients, RunStep(k) PROVE UNCHANGED vars \/ Next
  <2>1. CASE exchangeAsync(k) \/ AcquireShared(k) \/ CancelAcquire(k)
    BY Zenon, <2>1 DEF exchangeAsync, AcquireShared, CancelAcquire, Next, ClientStep
  <2>2. CASE register(k) \/ write(k)
    BY Zenon, <2>2 DEF register, write
  <2>3. CASE registerFails(k) \/ completeContextDone(k) \/ completeConnDone(k)
    BY Zenon, <2>3 DEF registerFails, completeContextDone, completeConnDone, Next, ClientStep
  <2>4. CASE writeFails(k) \/ writeFailsStale(k)
    BY Zenon, <2>4 DEF writeFails, writeFailsStale, RunOK, Next, ClientStep
  <2> QED BY Zenon, <1>2, <2>1, <2>2, <2>3, <2>4 DEF RunStep
<1>3. ASSUME NEW c \in Conns, NEW i \in Ids, NEW q \in Queries, complete(c, i, q) PROVE Next
  <2>1. queries[i] \in Clients
    BY Zenon, <1>3 DEF complete, MuxTypes
  <2> QED BY Zenon, <1>3, <2>1 DEF complete, Next, ClientStep
<1>4. ASSUME NEW c \in Conns, Reads(c) \/ recvLoopFails(c) PROVE UNCHANGED vars \/ Next
  BY Zenon, <1>4, ReadsOnly DEF recvLoopFails, Next
<1>5. CASE closeIdleConnection \/ PoolStep \/ UNCHANGED mvars
  BY Zenon, <1>5 DEF closeIdleConnection, PoolStep, Next, mvars
<1>6. ASSUME NEW q \in Queries, NEW why \in {"deadline", "cancel"}, CtxDone(q, why)
      PROVE UNCHANGED vars
  BY Zenon, <1>6 DEF CtxDone
<1>7. ASSUME NEW keep \in KeepIdleCalls, SetKeepIdleConnections(keep) PROVE UNCHANGED vars
  BY Zenon, <1>7 DEF SetKeepIdleConnections
<1> QED BY ZenonT(40), <1>1, <1>2, <1>3, <1>4, <1>5, <1>6, <1>7 DEF MuxNext, Reads

\* The first client of a connection starts its recvLoop, which ends only with
\* the connection invalidated.
LEMMA ReadNext ==
    ASSUME CoreInv, RunInv, TrackedIsRead, [MuxNext]_mvars PROVE TrackedIsRead'
<1> CoreType /\ MuxTypes
  BY Zenon DEF CoreInv, RunInv
<1>1. CASE NoNewReader /\ reading \subseteq reading'
  BY Zenon, <1>1 DEF NoNewReader, TrackedIsRead
<1>2. ASSUME NEW c \in Conns, recvLoopFails(c) PROVE TrackedIsRead'
  <2>1. NoNewReader /\ reading' = reading \ {c}
    BY ZenonT(40), <1>2, OtherEffect DEF recvLoopFails
  <2>2. ~Tracked(c)'
    <3>1. UNCHANGED <<closed, state>>
      BY Zenon, <1>2 DEF recvLoopFails, ReaderInvalidate, poolVars
    <3>2. CASE Tracked(c)
      <4>1. all' = [all EXCEPT ![state] = @ \ {c}]
        BY Zenon, <1>2, <3>2 DEF recvLoopFails, ReaderInvalidate, invalidateConn, removeConn, Tracked
      <4>2. c \notin all'[state]
        BY Zenon, <4>1 DEF CoreType
      <4> QED BY Zenon, <3>1, <4>2 DEF Tracked
    <3>3. CASE ~Tracked(c)
      <4>1. UNCHANGED all
        BY Zenon, <1>2, <3>3 DEF recvLoopFails, ReaderInvalidate, invalidateConn, Tracked, genVars
      <4> QED BY Zenon, <3>1, <3>3, <4>1 DEF Tracked
    <3> QED BY Zenon, <3>2, <3>3
  <2> QED BY Zenon, <2>1, <2>2 DEF NoNewReader, TrackedIsRead
<1>3. ASSUME NEW k \in Clients, AcquireShared(k) PROVE TrackedIsRead'
  <2>1. CASE \E where \in {"idle", "acquire", "select"} : Moves(k, where)
    <3>1. NoNewReader /\ pc'[k] # "holding"
      BY Zenon, <2>1 DEF Moves, CoreType
    <3>2. reading' = reading
      BY Zenon, <1>3, <3>1 DEF AcquireShared, netVars
    <3> QED BY Zenon, <1>1, <3>1, <3>2
  <2>2. CASE Obtains(k, shared[state])
    <3>1. pc'[k] = "holding"
      BY ZenonT(40), <2>2 DEF Obtains, CoreType
    <3>2. reading' = IF sharedClaimed[state] THEN reading ELSE reading \cup {shared[state]}
      BY Zenon, <1>3, <3>1 DEF AcquireShared
    <3> QED BY Zenon, <2>2, <3>2 DEF Obtains, TrackedIsRead
  <2> QED BY Zenon, <1>3, <2>1, <2>2, AcquireEffect DEF AcquireShared
<1>4. CASE UNCHANGED vars /\ reading' = reading
  BY Zenon, <1>1, <1>4, SameReaders DEF vars, poolVars, genVars
<1>5. ASSUME NEW k \in Clients, Acquire(k) \/ CancelCtx(k), reading' = reading PROVE TrackedIsRead'
  BY Zenon, <1>1, <1>5, SameReaders DEF Acquire, CancelCtx, poolVars, genVars
<1>6. ASSUME NEW k \in Clients, Release(k, TRUE) \/ Invalidate(k) \/ Forget(k), reading' = reading
      PROVE TrackedIsRead'
  BY Zenon, <1>1, <1>6, GiveUpEffect DEF Drops
<1>7. ASSUME reading' = reading,
             \/ \E c \in Conns : DialStep(c) \/ ReaderInvalidate(c)
             \/ CloseIdle \/ Reset \/ Close \/ \E g \in Gens : closeState(g)
      PROVE TrackedIsRead'
  BY Zenon, <1>1, <1>7, OtherEffect
<1>8. ASSUME NEW k \in Clients, RunStep(k) PROVE TrackedIsRead'
  <2>1. CASE exchangeAsync(k) \/ CancelAcquire(k)
    BY Zenon, <1>5, <2>1 DEF exchangeAsync, CancelAcquire, muxVars, netVars
  <2>2. CASE register(k) \/ write(k)
    BY Zenon, <1>4, <2>2 DEF register, write, netVars
  <2>3. CASE registerFails(k) \/ completeContextDone(k) \/ completeConnDone(k)
    BY Zenon, <1>6, <2>3 DEF registerFails, completeContextDone, completeConnDone, netVars
  <2>4. CASE writeFails(k) \/ writeFailsStale(k)
    BY Zenon, <1>6, <1>7, <2>4 DEF writeFails, writeFailsStale, RunInv, RunOK, netVars
  <2> QED BY Zenon, <1>3, <1>8, <2>1, <2>2, <2>3, <2>4 DEF RunStep
<1>9. ASSUME NEW q \in Queries, ExchangeAsync(q) PROVE TrackedIsRead'
  <2>1. <<q, 1>> \in Clients
    BY Zenon, RunsAreClients
  <2> QED BY Zenon, <1>5, <1>9, <2>1 DEF ExchangeAsync, netVars
<1>10. ASSUME NEW c \in Conns, NEW i \in Ids, NEW q \in Queries, complete(c, i, q) PROVE TrackedIsRead'
  <2>1. queries[i] \in Clients
    BY Zenon, <1>10 DEF complete, MuxTypes
  <2> QED BY Zenon, <1>6, <1>10, <2>1 DEF complete
<1>11. CASE closeIdleConnection \/ PoolStep \/ UNCHANGED mvars
  BY Zenon, <1>4, <1>7, <1>11 DEF closeIdleConnection, PoolStep, mvars, muxVars, netVars
<1>12. CASE \/ \E q \in Queries, why \in {"deadline", "cancel"} : CtxDone(q, why)
            \/ \E c \in Conns : Reads(c)
            \/ \E keep \in KeepIdleCalls : SetKeepIdleConnections(keep)
  BY Zenon, <1>4, <1>12, ReadsOnly DEF CtxDone, SetKeepIdleConnections, netVars
<1> QED BY ZenonT(40), <1>2, <1>8, <1>9, <1>10, <1>11, <1>12 DEF MuxNext, Reads

-----------------------------------------------------------------------------
(* IDs lead to their own query *)

\* A query has two runs.
LEMMA Runs ==
    /\ \A q \in Queries : /\ <<q, 1>> \in Clients /\ <<q, 2>> \in Clients
                         /\ Query(<<q, 1>>) = q /\ Query(<<q, 2>>) = q /\ <<q, 1>> # <<q, 2>>
    /\ \A k \in Clients : Query(k) \in Queries /\ k \in {<<Query(k), 1>>, <<Query(k), 2>>}
  BY RunsAreClients DEF Query

\* No entry is made and no run enters write.
Shrinks ==
    /\ \A i \in Ids : queries'[i] \in {queries[i], NoRun}
    /\ \A k \in Clients : task'[k] = "write" => task[k] = "write" /\ wid'[k] = wid[k]
    /\ retry' \subseteq retry

\* No request or response is added.
Fewer ==
    /\ written' \in Messages /\ received' \in Messages
    /\ \A c \in Conns : written'[c] \cup received'[c] \subseteq written[c] \cup received[c]

\* Such a step does no harm unless it writes.
LEMMA OwnFrame == ASSUME RunInv, OwnInv, Shrinks, Fewer PROVE OwnInv'
<1>1. ASSUME NEW k \in Clients, task'[k] = "write" PROVE queries'[wid'[k]] \in {NoRun, k}
  BY Zenon, <1>1 DEF Shrinks, OwnInv, RunInv, MuxTypes
<1>2. ASSUME NEW c \in Conns, NEW m \in written'[c] \cup received'[c], queries'[m[1]] # NoRun
      PROVE  Query(queries'[m[1]]) = m[2]
  <2>1. m \in written[c] \cup received[c]
    BY Zenon DEF Fewer
  <2>2. m[1] \in Ids
    BY <2>1 DEF OwnInv, Messages
  <2>3. queries'[m[1]] = queries[m[1]]
    BY Zenon, <1>2, <2>2 DEF Shrinks
  <2> QED BY Zenon, <1>2, <2>1, <2>3 DEF OwnInv
<1> QED BY Zenon, <1>1, <1>2 DEF OwnInv, Shrinks, Fewer

\* A run that does not write next leaves m.queries alone.
LEMMA ShrinksRun ==
    ASSUME RunInv, NEW k \in Clients, NEW where \in TaskStates \ {"write"}, Arrives(k, where),
           \A i \in Ids : queries'[i] \in {queries[i], NoRun}, retry' \subseteq retry
    PROVE  Shrinks
  BY Zenon DEF Shrinks, Arrives

\* A deleted entry.
LEMMA ShrinksTake ==
    ASSUME RunInv, NEW i \in Ids, queries' = [queries EXCEPT ![i] = NoRun]
    PROVE  \A j \in Ids : queries'[j] \in {queries[j], NoRun}
  BY Zenon DEF RunInv, MuxTypes

\* The steps of a run but register and write.
LEMMA ShrinksStep ==
    ASSUME RunInv, NEW k \in Clients, RunStep(k), ~register(k), ~write(k) PROVE Shrinks
<1>1. MuxTypes
  BY Zenon DEF RunInv
<1>2. CASE exchangeAsync(k)
  <2>1. Arrives(k, "acquire")
    BY Zenon, <1>1, <1>2, Goes DEF exchangeAsync, TaskStates
  <2> QED BY Zenon, <1>2, <2>1, ShrinksRun DEF exchangeAsync, mapVars, TaskStates
<1>3. CASE AcquireShared(k)
  <2>1. CASE UNCHANGED runVars
    BY Zenon, <1>3, <2>1 DEF AcquireShared, runVars, mapVars, Shrinks
  <2>2. CASE EndRun(k)
    BY ZenonT(40), <1>1, <1>3, <2>2, Ends, ShrinksRun DEF AcquireShared, mapVars, TaskStates
  <2>3. CASE Goto(k, "register") /\ wid' = wid
    <3>1. task'[k] # "write" /\ \A l \in Clients \ {k} : task'[l] = task[l]
      BY ZenonT(40), <1>1, <2>3 DEF Goto, MuxTypes
    <3> QED BY ZenonT(40), <1>3, <2>3, <3>1 DEF AcquireShared, mapVars, Shrinks
  <2> QED BY ZenonT(40), <1>3, <2>1, <2>2, <2>3 DEF AcquireShared
<1>4. CASE CancelAcquire(k)
  BY Zenon, <1>4 DEF CancelAcquire, muxVars, runVars, mapVars, Shrinks
<1>5. CASE registerFails(k) \/ writeFailsStale(k)
  BY Zenon, <1>1, <1>5, Ends, ShrinksRun DEF registerFails, writeFailsStale, mapVars, TaskStates
<1>6. CASE writeFails(k)
  <2>1. Arrives(k, "start") \/ Arrives(k, "done")
    BY Zenon, <1>1, <1>6, Ends, Goes DEF writeFails, TaskStates
  <2>2. retry' \subseteq retry /\ \A j \in Ids : queries'[j] \in {queries[j], NoRun}
    BY Zenon, <1>1, <1>6, ShrinksTake DEF writeFails, take, MuxTypes
  <2> QED BY Zenon, <2>1, <2>2, ShrinksRun DEF TaskStates
<1>7. CASE completeContextDone(k) \/ completeConnDone(k)
  <2>1. retry' \subseteq retry /\ \A j \in Ids : queries'[j] \in {queries[j], NoRun}
    BY Zenon, <1>7, ShrinksTake DEF completeContextDone, completeConnDone, take
  <2>2. CASE task' = task
    BY Zenon, <1>7, <2>1, <2>2 DEF completeContextDone, completeConnDone, runVars, Shrinks
  <2>3. CASE Goto(<<Query(k), 2>>, "start") /\ UNCHANGED <<wconn, wid>>
    <3>1. <<Query(k), 2>> \in Clients
      BY Zenon, Runs
    <3> QED BY ZenonT(40), <1>1, <2>1, <2>3, <3>1, Goes, ShrinksRun DEF TaskStates
  <2> QED BY Zenon, <1>7, <2>2, <2>3 DEF completeContextDone, completeConnDone, runVars
<1> QED BY ZenonT(40), <1>2, <1>3, <1>4, <1>5, <1>6, <1>7 DEF RunStep

\* register enters a run under an ID nobody carries.
LEMMA OwnRegister ==
    ASSUME RunInv, OwnInv, NEW k \in Clients, register(k), queryId' \notin InUse PROVE OwnInv'
<1>1. MuxTypes
  BY Zenon DEF RunInv
<1> DEFINE n == queryId'
<1>2. /\ queries' = [queries EXCEPT ![n] = k] /\ wid' = [wid EXCEPT ![k] = n]
      /\ task' = [task EXCEPT ![k] = "write"] /\ UNCHANGED <<written, received>>
      /\ n \notin InUse /\ \A l \in retry' : l \in retry \/ (l = k /\ k[2] = 1)
  BY Zenon DEF register, Goto, netVars
<1>3. n \in Ids
  BY Zenon DEF register, NextId, FreeIds
<1> HIDE DEF n
<1>4. ASSUME NEW l \in Clients, task'[l] = "write" PROVE queries'[wid'[l]] \in {NoRun, l}
  <2>1. CASE l = k
    BY Zenon, <1>1, <1>2, <1>3, <2>1 DEF MuxTypes
  <2>2. CASE l # k
    <3>1. task[l] = "write" /\ wid'[l] = wid[l] /\ wid[l] \in Ids
      BY Zenon, <1>1, <1>2, <1>4, <2>2 DEF MuxTypes
    <3>2. wid[l] # n
      BY Zenon, <1>2, <3>1 DEF InUse
    <3> QED BY Zenon, <1>1, <1>2, <3>1, <3>2 DEF MuxTypes, OwnInv
  <2> QED BY Zenon, <2>1, <2>2
<1>5. ASSUME NEW c \in Conns, NEW m \in written[c] \cup received[c], queries'[m[1]] # NoRun
      PROVE  Query(queries'[m[1]]) = m[2]
  <2>1. m[1] \in Ids
    BY DEF OwnInv, Messages
  <2>2. m[1] # n
    BY Zenon, <1>2 DEF InUse
  <2>3. queries'[m[1]] = queries[m[1]]
    BY Zenon, <1>1, <1>2, <2>1, <2>2 DEF MuxTypes
  <2> QED BY Zenon, <1>5, <2>3 DEF OwnInv
<1> QED BY Zenon, <1>2, <1>4, <1>5 DEF OwnInv

\* A request carries the ID of its run.
LEMMA OwnWrite ==
    ASSUME RunInv, OwnInv, NEW k \in Clients, write(k) PROVE OwnInv'
<1>1. MuxTypes
  BY Zenon DEF RunInv
<1> DEFINE c == wconn[k]
           m == <<wid[k], Query(k)>>
<1>2. /\ task[k] = "write" /\ written' = [written EXCEPT ![c] = @ \cup {m}]
      /\ UNCHANGED <<received, queries, retry>> /\ Arrives(k, "done") /\ c \in Conns
  BY Zenon, <1>1, Ends DEF write, mapVars, RunInv, RunOK
<1>3. m \in Ids \X Queries
  BY ZenonT(40), <1>1, RunsAreClients DEF MuxTypes, Query
<1>4. written' \in Messages
  BY ZenonT(40), <1>2, <1>3 DEF OwnInv, Messages
<1>5. ASSUME NEW l \in Clients, task'[l] = "write" PROVE queries'[wid'[l]] \in {NoRun, l}
  <2>1. l # k
    BY ZenonT(40), <1>2, <1>5 DEF Arrives
  <2> QED BY ZenonT(40), <1>2, <1>5, <2>1 DEF OwnInv, Arrives
<1>6. ASSUME NEW d \in Conns, NEW e \in written'[d] \cup received[d], queries[e[1]] # NoRun
      PROVE  Query(queries[e[1]]) = e[2]
  <2>1. CASE e \in written[d] \cup received[d]
    BY Zenon, <1>6, <2>1 DEF OwnInv
  <2>2. CASE e = m
    <3>1. e[1] = wid[k] /\ e[2] = Query(k)
      BY <2>2
    <3>2. queries[wid[k]] = k
      BY Zenon, <1>2, <1>6, <3>1 DEF OwnInv
    <3> QED BY Zenon, <3>1, <3>2
  <2>3. written'[d] \subseteq written[d] \cup {m}
    BY Zenon, <1>2 DEF OwnInv, Messages
  <2> QED BY Zenon, <2>1, <2>2, <2>3
<1> QED BY Zenon, <1>2, <1>4, <1>5, <1>6 DEF OwnInv

\* recvLoop and the network add no message.
LEMMA FewerMessages ==
    ASSUME OwnInv, NEW c \in Conns,
           Reads(c) \/ recvLoopFails(c) \/ \E i \in Ids, q \in Queries : complete(c, i, q)
    PROVE  Fewer
<1>1. written \in Messages /\ received \in Messages
  BY Zenon DEF OwnInv
<1>2. CASE UNCHANGED <<written, received>>
  BY Zenon, <1>1, <1>2 DEF Fewer
<1>3. CASE \E w \in SUBSET written[c], r \in SUBSET written[c] :
            written' = [written EXCEPT ![c] = w] /\ received' \in {received, [received EXCEPT ![c] = r]}
  BY <1>1, <1>3 DEF Fewer, Messages
<1>4. CASE written' = written /\ received' = [received EXCEPT ![c] = {}]
  BY <1>1, <1>4 DEF Fewer, Messages
<1>5. CASE recvLoopFails(c)
  <2>1. written' = [written EXCEPT ![c] = {}] /\ received' = received
    BY Zenon, <1>5 DEF recvLoopFails
  <2> QED BY Zenon, <1>3, <2>1
<1>6. ASSUME NEW i \in Ids, NEW q \in Queries, Lost(c, i, q) PROVE Fewer
  <2>1. written' = [written EXCEPT ![c] = written[c] \ {<<i, q>>}] /\ received' = received
    BY Zenon, <1>6 DEF Lost
  <2> QED BY Zenon, <1>3, <2>1
<1>7. ASSUME NEW i \in Ids, NEW q \in Queries, readNext(c, i, q) PROVE Fewer
  <2>1. PICK repeated \in SUBSET {<<i, q>>} :
            written' = [written EXCEPT ![c] = (written[c] \ {<<i, q>>}) \cup repeated]
    BY Zenon, <1>7 DEF readNext
  <2>2. <<i, q>> \in written[c] /\ received' = [received EXCEPT ![c] = {<<i, q>>}]
    BY Zenon, <1>7 DEF readNext
  <2> QED BY Zenon, <1>3, <2>1, <2>2
<1> QED BY Zenon, <1>2, <1>4, <1>5, <1>6, <1>7 DEF Reads, readNothing, completeNothing, complete, netVars

\* Every step keeps OwnInv, if register finds an ID nobody carries.
LEMMA OwnNext ==
    ASSUME RunInv, OwnInv, [MuxNext]_mvars, FreshId
    PROVE  OwnInv'
<1>1. CASE Shrinks /\ UNCHANGED <<written, received>>
  BY Zenon, <1>1, OwnFrame DEF OwnInv, Fewer
<1>2. ASSUME NEW k \in Clients, RunStep(k) PROVE OwnInv'
  <2>1. CASE register(k) \/ write(k)
    BY Zenon, <2>1, OwnRegister, OwnWrite DEF FreshId
  <2>2. CASE ~register(k) /\ ~write(k)
    <3>1. UNCHANGED <<written, received>>
      BY ZenonT(40), <1>2, <2>2 DEF RunStep, exchangeAsync, AcquireShared, CancelAcquire, registerFails, writeFails,
         writeFailsStale, completeContextDone, completeConnDone, muxVars, netVars
    <3> QED BY ZenonT(40), <1>1, <1>2, <2>2, <3>1, ShrinksStep
  <2> QED BY Zenon, <2>1, <2>2
<1>3. ASSUME NEW q \in Queries, ExchangeAsync(q) PROVE OwnInv'
  <2>1. <<q, 1>> \in Clients
    BY Zenon, Runs
  <2>2. Arrives(<<q, 1>>, "acquire")
    BY Zenon, <1>3, <2>1, Goes DEF ExchangeAsync, TaskStates, RunInv
  <2> QED BY ZenonT(40), <1>1, <1>3, <2>1, <2>2, ShrinksRun DEF ExchangeAsync, mapVars, netVars, TaskStates
<1>4. ASSUME NEW c \in Conns, NEW i \in Ids, NEW q \in Queries, complete(c, i, q) PROVE OwnInv'
  <2>1. \A j \in Ids : queries'[j] \in {queries[j], NoRun}
    BY Zenon, <1>4, ShrinksTake DEF complete, take
  <2>2. Shrinks
    BY Zenon, <1>4, <2>1 DEF complete, take, runVars, Shrinks
  <2> QED BY Zenon, <1>4, <2>2, FewerMessages, OwnFrame
<1>5. ASSUME NEW c \in Conns, Reads(c) \/ recvLoopFails(c) PROVE OwnInv'
  <2>1. UNCHANGED <<task, wid, queries, retry>>
    BY Zenon, <1>5, ReadsOnly DEF recvLoopFails, runVars, mapVars
  <2>2. Shrinks
    BY Zenon, <2>1 DEF Shrinks
  <2> QED BY Zenon, <1>5, <2>2, FewerMessages, OwnFrame
<1>6. CASE \/ \E q \in Queries, why \in {"deadline", "cancel"} : CtxDone(q, why)
           \/ closeIdleConnection \/ PoolStep \/ UNCHANGED mvars
           \/ \E keep \in KeepIdleCalls : SetKeepIdleConnections(keep)
  <2>1. UNCHANGED <<task, wid, queries, retry, written, received>>
    BY Zenon, <1>6 DEF CtxDone, closeIdleConnection, SetKeepIdleConnections, PoolStep,
       muxVars, mvars, runVars, mapVars, netVars
  <2> QED BY Zenon, <1>1, <2>1 DEF Shrinks
<1> QED BY Zenon, <1>2, <1>3, <1>4, <1>5, <1>6 DEF MuxNext, Reads

-----------------------------------------------------------------------------
(* Theorems *)

\* The core invariant of the pool and RunInv hold together.
THEOREM MuxInvariance == MuxSpec => [](CoreInv /\ RunInv /\ TrackedIsRead)
<1>1. newQueryMultiplexer => CoreInv /\ RunInv /\ TrackedIsRead
  <2> SUFFICES ASSUME newQueryMultiplexer PROVE CoreInv /\ RunInv /\ TrackedIsRead
    BY Zenon
  <2>1. CoreInv
    BY Zenon, CoreInit DEF newQueryMultiplexer
  <2>2. MuxTypes
    BY DEF newQueryMultiplexer, MuxTypes, TaskStates, Ids
  <2>3. OneEntry /\ \A k \in Clients : ~Pending(k)
    BY Zenon DEF newQueryMultiplexer, OneEntry, Pending
  <2>4. \A k \in Clients : RunOK(k)
    BY ZenonT(40), <2>3 DEF newQueryMultiplexer, RunOK
  <2>5. TrackedIsRead
    BY Zenon DEF newQueryMultiplexer, TrackedIsRead, Tracked, Init, NewConnPool
  <2> QED BY Zenon, <2>1, <2>2, <2>3, <2>4, <2>5 DEF RunInv
<1>2. CoreInv /\ RunInv /\ TrackedIsRead /\ [MuxNext]_mvars => (CoreInv /\ RunInv /\ TrackedIsRead)'
  <2> SUFFICES ASSUME CoreInv, RunInv, TrackedIsRead, [MuxNext]_mvars
               PROVE  CoreInv' /\ RunInv' /\ TrackedIsRead'
    BY Zenon
  <2> QED BY Zenon, PoolNext, CoreNext, RunNext, ReadNext
<1> QED BY <1>1, <1>2, PTL DEF MuxSpec

\* The multiplexer is a client of ConnPool: each of its steps is one of the
\* pool's or leaves the pool alone, so the theorems of ConnPool_proofs hold
\* for the pool inside it.
THEOREM UsesPoolAsClient == MuxSpec => PoolSpec
<1>1. newQueryMultiplexer => Init
  BY Zenon DEF newQueryMultiplexer
<1>2. CoreInv /\ RunInv /\ [MuxNext]_mvars => [UNCHANGED vars \/ Next]_vars
  BY Zenon, PoolNext
<1> QED BY <1>1, <1>2, MuxInvariance, PTL DEF MuxSpec, PoolSpec

\* A pending query is counted as a user of its connection, even if IDs wrap.
THEOREM PendingCounts == MuxSpec => []PendingIsUser
<1>1. RunInv => PendingIsUser
  <2> SUFFICES ASSUME RunInv, NEW i \in Ids, queries[i] # NoRun PROVE held[queries[i]] # NoConn
    BY Zenon DEF PendingIsUser
  <2>1. queries[i] \in Clients
    BY Zenon DEF RunInv, MuxTypes
  <2> QED BY Zenon, <2>1 DEF RunInv, RunOK, Pending
<1> QED BY <1>1, MuxInvariance, PTL

\* A connection that is tracked and was handed out is being read.
THEOREM TrackedConnectionsRead == MuxSpec => []TrackedIsRead
  BY MuxInvariance, PTL

\* As long as register does not come round to an ID in use, the ID of a run inside
\* write, or of a request that may still be answered, leads to its own query or
\* nowhere.
THEOREM OwnEntries == MuxSpec /\ FreshIds => []OwnInv
<1>1. newQueryMultiplexer => OwnInv
  BY Zenon DEF newQueryMultiplexer, OwnInv, Messages
<1>2. RunInv /\ OwnInv /\ [MuxNext]_mvars /\ [FreshId]_mvars => OwnInv'
  <2>1. CASE UNCHANGED mvars
    <3>1. UNCHANGED <<task, wid, queries, retry, written, received>>
      BY Zenon, <2>1 DEF mvars, muxVars, runVars, mapVars, netVars
    <3>2. Shrinks
      BY Zenon, <3>1 DEF Shrinks
    <3>3. OwnInv => Fewer
      BY Zenon, <3>1 DEF OwnInv, Fewer
    <3> QED BY Zenon, <3>2, <3>3, OwnFrame
  <2>2. CASE FreshId
    BY Zenon, <2>2, OwnNext
  <2> QED BY Zenon, <2>1, <2>2
<1> QED BY <1>1, <1>2, MuxInvariance, PTL DEF MuxSpec, FreshIds

=============================================================================
