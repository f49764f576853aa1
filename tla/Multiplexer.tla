----------------------------- MODULE Multiplexer -----------------------------
(***************************************************************************)
(* The query multiplexer of the TCP, TLS and UDP DNS transports             *)
(* (dns/transport/multiplexer.go) on top of the connection pool: many       *)
(* queries share one connection and are told apart by a query ID.           *)
(*                                                                         *)
(* A client of the pool is one run of exchangeAsync.  The run <<q, 1>> is   *)
(* started by ExchangeAsync for query q, the run <<q, 2>> by                *)
(* completeConnDone when it retries q after a read error; the first run may *)
(* then still be inside write.  The use of a connection passes from the run *)
(* to its entry in m.queries, so held[k] of the pool is pending.conn.       *)
(*                                                                         *)
(* take removes an entry, after which no other goroutine can act on it; the *)
(* Release or Invalidate that follows it is part of the same step.          *)
(***************************************************************************)
EXTENDS ConnPool, Sequences

CONSTANTS
    Queries,        \* calls of ExchangeAsync
    MaxId,          \* query IDs are 0 .. MaxId (65535 in the code)
    NoRun,
    RetryReadError, \* options.retryReadError
    KeepIdleCalls   \* what SetKeepIdleConnections may be called with

ASSUME RunsAreClients == Clients = Queries \X {1, 2}
ASSUME NoRunFresh == NoRun \notin Clients
ASSUME MaxIdNat == MaxId \in Nat
ASSUME ErrorIsNoQuery == "error" \notin Queries
ASSUME KeepIdleCallsBool == KeepIdleCalls \subseteq BOOLEAN
ASSUME AlwaysAlive == ~DetectsDeath  \* options.IsAlive is conn != nil

VARIABLES
    task,           \* where each run is in exchangeAsync
    try,            \* 1 while firstAttempt
    created,        \* runs that were given the connection as created
    wconn, wid,     \* locals conn and queryId of a run
    queryId, queries,
    retry,          \* entries with a retryCtx
    quiet,          \* entries whose conn has read nothing since (readEpoch)
    reading,        \* connections with a running recvLoop
    readFailed,     \* connections whose ctx was cancelled by a read error
    written,        \* requests <<query ID, query>> the peer may still answer
    received,       \* the response recvLoop has read and not looked up yet
    expired,        \* what happened to the context of each query under way
    answers,        \* the callbacks each query has had
    keepIdle,
    sweeps          \* goroutines about to call closeIdleConnection

runVars == <<task, try, created, wconn, wid>>
mapVars == <<queryId, queries, retry, quiet>>
netVars == <<reading, readFailed, written, received>>
userVars == <<expired, answers>>
idleVars == <<keepIdle, sweeps>>
muxVars == <<runVars, mapVars, netVars, userVars, idleVars>>
mvars == <<vars, muxVars>>

Ids == 0 .. MaxId
Query(k) == k[1]
Pending(k) == \E i \in Ids : queries[i] = k
PendingOn(c) == {k \in Clients : Pending(k) /\ held[k] = c}

newQueryMultiplexer ==
    /\ Init
    /\ task = [k \in Clients |-> "new"]
    /\ try = [k \in Clients |-> 1]
    /\ created = {} /\ retry = {} /\ quiet = {}
    /\ wconn = [k \in Clients |-> NoConn]
    /\ wid = [k \in Clients |-> 0]
    /\ queryId = 0
    /\ queries = [i \in Ids |-> NoRun]
    /\ reading = {} /\ readFailed = {}
    /\ written = [c \in Conns |-> {}]
    /\ received = [c \in Conns |-> {}]
    /\ expired = [q \in Queries |-> "no"]
    /\ answers = [q \in Queries |-> <<>>]
    /\ keepIdle = TRUE /\ sweeps = 0

-----------------------------------------------------------------------------
(* Helpers *)

Goto(k, where) == task' = [task EXCEPT ![k] = where]

\* exchangeAsync returns; its locals are dead.
EndRun(k) ==
    /\ Goto(k, "done")
    /\ try' = [try EXCEPT ![k] = 1]
    /\ created' = created \ {k}
    /\ wconn' = [wconn EXCEPT ![k] = NoConn]
    /\ wid' = [wid EXCEPT ![k] = 0]

\* Fault: the idle connection is not looked at after a query.
NoSweep == UNCHANGED sweeps

\* closeIdleConnection is about to be called; nothing to do if keepIdle is
\* never cleared.
Sweep == sweeps' = IF FALSE \in KeepIdleCalls THEN sweeps + 1 ELSE sweeps

\* The callback of q; its context no longer matters.
callback(q, what) ==
    /\ answers' = [answers EXCEPT ![q] = Append(@, what)]
    /\ expired' = [expired EXCEPT ![q] = "no"]

\* Fault: the entry is not deleted.
takeKeeps(k, i) ==
    /\ retry' = retry \ {k}
    /\ quiet' = quiet \ {k}
    /\ UNCHANGED <<queryId, queries>>

\* Remove the entry of run k, whose ID is i, from m.queries.
take(k, i) ==
    /\ queries' = [queries EXCEPT ![i] = NoRun]
    /\ retry' = retry \ {k}
    /\ quiet' = quiet \ {k}
    /\ UNCHANGED queryId

\* The IDs register may use, and the one it finds: the first of them after
\* m.queryId.
FreeIds == {i \in Ids : queries[i] = NoRun}

NextId(i) ==
    LET after(j) == (j - queryId - 1) % (MaxId + 1) IN
    i \in FreeIds /\ \A j \in FreeIds : after(i) <= after(j)

-----------------------------------------------------------------------------
(* exchangeAsync *)

ExchangeAsync(q) ==
    /\ task[<<q, 1>>] = "new"
    /\ Acquire(<<q, 1>>)
    /\ Goto(<<q, 1>>, "acquire")
    /\ UNCHANGED <<try, created, wconn, wid, mapVars, netVars, userVars, idleVars>>

\* AcquireShared is called for the second attempt of run k, or for the run that
\* retries after a read error.
exchangeAsync(k) ==
    /\ task[k] = "start"
    /\ Acquire(k)
    /\ Goto(k, "acquire")
    /\ UNCHANGED <<try, created, wconn, wid, mapVars, netVars, userVars, idleVars>>

\* AcquireShared goes round its loop, waits, fails, or returns a connection
\* (the run that gets it as created starts recvLoop).
AcquireShared(k) ==
    /\ task[k] = "acquire"
    /\ AcquireStep(k) \/ SelectStep(k)
    /\ \/ /\ pc'[k] \in {"acquire", "select"}
          /\ UNCHANGED <<runVars, netVars, userVars>>
       \/ /\ pc'[k] = "idle"
          /\ EndRun(k)
          /\ callback(Query(k), "error")
          /\ UNCHANGED <<netVars>>
       \/ /\ pc'[k] = "holding"
          /\ Goto(k, "register")
          /\ wconn' = [wconn EXCEPT ![k] = shared[state]]
          /\ created' = IF sharedClaimed[state] THEN created \ {k} ELSE created \cup {k}
          /\ reading' = IF sharedClaimed[state] THEN reading ELSE reading \cup {shared[state]}
          /\ UNCHANGED <<try, wid, readFailed, written, received, userVars>>
    /\ UNCHANGED <<mapVars, idleVars>>

register(k) ==
    /\ task[k] = "register"
    /\ \E i \in Ids : NextId(i) /\ queryId' = i
    /\ queries' = [queries EXCEPT ![queryId'] = k]
    /\ wid' = [wid EXCEPT ![k] = queryId']
    /\ retry' = IF RetryReadError /\ k[2] = 1 /\ k \notin created
                THEN retry \cup {k} ELSE retry
    /\ quiet' = quiet \cup {k}
    /\ Goto(k, "write")
    /\ UNCHANGED <<vars, try, created, wconn, netVars, userVars, idleVars>>

\* Every ID is in use: m.queryId is back where it started.
registerFails(k) ==
    /\ task[k] = "register"
    /\ FreeIds = {}
    /\ Release(k, TRUE)
    /\ EndRun(k)
    /\ callback(Query(k), "error")
    /\ Sweep
    /\ UNCHANGED <<mapVars, netVars, keepIdle>>

write(k) ==
    LET c == wconn[k] IN
    /\ task[k] = "write"
    /\ sock[c] = "open"
    /\ written' = [written EXCEPT ![c] = @ \cup {<<wid[k], Query(k)>>}]
    /\ EndRun(k)
    /\ UNCHANGED <<vars, mapVars, reading, readFailed, received, userVars, idleVars>>

\* Fault: the write error is reported although take found nothing.
writeFailsReported(k) ==
    /\ task[k] = "write"
    /\ queries[wid[k]] = NoRun
    /\ ReaderInvalidate(wconn[k])
    /\ EndRun(k)
    /\ callback(Query(k), "error")
    /\ UNCHANGED <<mapVars, netVars, idleVars>>

\* write fails after the query was completed by somebody else.
writeFailsStale(k) ==
    /\ task[k] = "write"
    /\ queries[wid[k]] = NoRun
    /\ ReaderInvalidate(wconn[k])
    /\ EndRun(k)
    /\ UNCHANGED <<mapVars, netVars, userVars, idleVars>>

\* write fails and take finds an entry: one more attempt if the connection was
\* a reused one.  The entry is the run's own, or, once IDs have wrapped round
\* since the run registered, that of another query (whose use of its connection
\* is then never given back).
writeFails(k) ==
    LET p == queries[wid[k]] IN
    /\ task[k] = "write"
    /\ p # NoRun
    /\ take(p, wid[k])
    /\ IF held[k] # NoConn THEN Invalidate(k) ELSE ReaderInvalidate(wconn[k])
    /\ \/ /\ k \notin created /\ try[k] = 1
          /\ Goto(k, "start")
          /\ try' = [try EXCEPT ![k] = 2]
          /\ UNCHANGED <<created, wconn, wid, userVars>>
       \/ /\ k \in created \/ try[k] = 2
          /\ EndRun(k)
          /\ callback(Query(k), "error")
    /\ UNCHANGED <<netVars, idleVars>>

-----------------------------------------------------------------------------
(* What completes a pending query *)

\* The peer will not answer this request (again): it, or its response, is lost.
Lost(c, i, q) ==
    /\ <<i, q>> \in written[c]
    /\ written' = [written EXCEPT ![c] = @ \ {<<i, q>>}]
    /\ UNCHANGED <<vars, runVars, mapVars, reading, readFailed, received, userVars, idleVars>>

\* readNext returns a response, the last to this request or one the peer will
\* repeat, and recvLoop advances readEpoch.
readNext(c, i, q) ==
    /\ c \in reading
    /\ sock[c] = "open"
    /\ received[c] = {}
    /\ <<i, q>> \in written[c]
    /\ received' = [received EXCEPT ![c] = {<<i, q>>}]
    /\ \E repeated \in SUBSET {<<i, q>>} :
        written' = [written EXCEPT ![c] = (@ \ {<<i, q>>}) \cup repeated]
    /\ quiet' = quiet \ PendingOn(c)
    /\ UNCHANGED <<vars, queryId, queries, retry, runVars, reading, readFailed, userVars, idleVars>>

\* readNext returns something that is no message, which advances readEpoch only.
readNothing(c) ==
    /\ c \in reading
    /\ sock[c] = "open"
    /\ received[c] = {}
    /\ quiet \cap PendingOn(c) # {}
    /\ quiet' = quiet \ PendingOn(c)
    /\ UNCHANGED <<vars, queryId, queries, retry, runVars, netVars, userVars, idleVars>>

\* complete(message.Id, ...): whoever has the ID by now is answered, also if
\* the connection was closed after the response was read.
complete(c, i, q) ==
    LET k == queries[i] IN
    /\ <<i, q>> \in received[c]
    /\ k # NoRun
    /\ take(k, i)
    /\ Release(k, TRUE)
    /\ callback(Query(k), q)
    /\ Sweep
    /\ received' = [received EXCEPT ![c] = {}]
    /\ UNCHANGED <<runVars, reading, readFailed, written, keepIdle>>

\* complete finds no entry: the query was abandoned, or answered before.
completeNothing(c, i, q) ==
    /\ <<i, q>> \in received[c]
    /\ queries[i] = NoRun
    /\ received' = [received EXCEPT ![c] = {}]
    /\ UNCHANGED <<vars, runVars, mapVars, reading, readFailed, written, userVars, idleVars>>

\* Fault: the connection is not invalidated.
recvLoopStops(c) ==
    /\ c \in reading
    /\ received[c] = {}
    /\ reading' = reading \ {c}
    /\ UNCHANGED <<vars, runVars, mapVars, readFailed, written, received, userVars, idleVars>>

\* readNext fails: recvLoop invalidates the connection and ends.  Nobody is left
\* to read what the peer sends on it.
recvLoopFails(c) ==
    /\ c \in reading
    /\ received[c] = {}
    /\ ReaderInvalidate(c)
    /\ reading' = reading \ {c}
    /\ readFailed' = IF Tracked(c) THEN readFailed \cup {c} ELSE readFailed
    /\ written' = [written EXCEPT ![c] = {}]
    /\ UNCHANGED <<received, runVars, mapVars, userVars, idleVars>>

\* Fault: the use of the connection is not given back.
completeContextDoneKeeps(k) ==
    /\ \E i \in Ids : queries[i] = k /\ take(k, i)
    /\ expired[Query(k)] # "no"
    /\ GiveUp(k) /\ UNCHANGED <<genVars, connVars>>
    /\ callback(Query(k), "error")
    /\ Sweep
    /\ UNCHANGED <<runVars, netVars, keepIdle>>

\* Fault: only a deadline is acted on.
completeContextDoneLate(k) ==
    /\ \E i \in Ids : queries[i] = k /\ take(k, i)
    /\ expired[Query(k)] = "deadline"
    /\ IF k \in quiet THEN Invalidate(k) ELSE Release(k, TRUE)
    /\ callback(Query(k), "error")
    /\ Sweep
    /\ UNCHANGED <<runVars, netVars, keepIdle>>

\* The context of a pending query is done; a deadline that passed in silence
\* condemns the connection.
completeContextDone(k) ==
    /\ \E i \in Ids : queries[i] = k /\ take(k, i)
    /\ expired[Query(k)] # "no"
    /\ IF expired[Query(k)] = "deadline" /\ k \in quiet THEN Invalidate(k) ELSE Release(k, TRUE)
    /\ callback(Query(k), "error")
    /\ Sweep
    /\ UNCHANGED <<runVars, netVars, keepIdle>>

\* connCtx is done: dispatch again after a read error, else report.  There is
\* one second run per query; only a first run whose write takes the entry of
\* another query could ask for more.
completeConnDone(k) ==
    /\ \E i \in Ids : queries[i] = k /\ take(k, i)
    /\ Forget(k)
    /\ IF k \in retry /\ held[k] \in readFailed
       THEN task[<<Query(k), 2>>] = "new" /\ Goto(<<Query(k), 2>>, "start") /\ UNCHANGED userVars
       ELSE callback(Query(k), "error") /\ UNCHANGED task
    /\ UNCHANGED <<try, created, wconn, wid, netVars, idleVars>>

-----------------------------------------------------------------------------
(* Idle connections, and what the pool and its environment do *)

closeIdleConnection ==
    /\ sweeps > 0
    /\ sweeps' = sweeps - 1
    /\ IF ~keepIdle /\ ~closed /\ shared[state] # NoConn /\ Idle THEN CloseIdle ELSE UNCHANGED vars
    /\ UNCHANGED <<runVars, mapVars, netVars, userVars, keepIdle>>

SetKeepIdleConnections(keep) ==
    /\ keepIdle # keep
    /\ keepIdle' = keep
    /\ Sweep
    /\ UNCHANGED <<vars, runVars, mapVars, netVars, userVars>>

\* The context of a query that is under way is done.
CtxDone(q, why) ==
    /\ expired[q] = "no"
    /\ task[<<q, 1>>] # "new" /\ answers[q] = <<>>
    /\ expired' = [expired EXCEPT ![q] = why]
    /\ UNCHANGED <<vars, runVars, mapVars, netVars, answers, idleVars>>

\* The context of a run inside AcquireShared is done.
CancelAcquire(k) ==
    /\ expired[Query(k)] # "no"
    /\ CancelCtx(k)
    /\ UNCHANGED muxVars

\* A peer that is gone is one that never answers.
PoolStep ==
    /\ \/ \E c \in Conns : DialStep(c)
       \/ CloseIdle \/ Reset \/ Close
       \/ \E g \in Gens : closeState(g)
    /\ UNCHANGED muxVars

RunStep(k) ==
    \/ exchangeAsync(k) \/ AcquireShared(k) \/ CancelAcquire(k) \/ register(k) \/ registerFails(k)
    \/ write(k) \/ writeFails(k) \/ writeFailsStale(k)
    \/ completeContextDone(k) \/ completeConnDone(k)

MuxNext ==
    \/ \E q \in Queries : ExchangeAsync(q) \/ \E why \in {"deadline", "cancel"} : CtxDone(q, why)
    \/ \E k \in Clients : RunStep(k)
    \/ \E c \in Conns :
        \/ \E i \in Ids, q \in Queries :
            Lost(c, i, q) \/ readNext(c, i, q) \/ complete(c, i, q) \/ completeNothing(c, i, q)
        \/ readNothing(c) \/ recvLoopFails(c)
    \/ closeIdleConnection
    \/ \E keep \in KeepIdleCalls : SetKeepIdleConnections(keep)
    \/ PoolStep

MuxSpec == newQueryMultiplexer /\ [][MuxNext]_mvars

Runnable ==
    \/ \E k \in Clients :
        \/ exchangeAsync(k) \/ AcquireShared(k) \/ CancelAcquire(k) \/ register(k) \/ registerFails(k)
        \/ completeContextDone(k) \/ completeConnDone(k)
    \/ /\ (\E c \in Conns : DialStep(c)) \/ (\E g \in Gens : closeState(g))
       /\ UNCHANGED muxVars

\* Some runnable goroutine runs, dials return and every query has a deadline
\* (dns/client.go gives each exchange a timeout).  Nothing is assumed of the
\* peer, nor that a write ever returns.
MuxFairness ==
    /\ \A q \in Queries : WF_mvars(\E why \in {"deadline", "cancel"} : CtxDone(q, why))
    /\ WF_mvars(Runnable)

MuxFairSpec == MuxSpec /\ MuxFairness

-----------------------------------------------------------------------------
(* Query IDs *)

\* The IDs of runs inside write, and of requests to which a response has been
\* read or may still come.
InUse ==
    {wid[k] : k \in {x \in Clients : task[x] = "write"}}
        \cup {m[1] : m \in UNION {written[c] \cup received[c] : c \in Conns}}

\* register looks only at m.queries, and has come round to none of them: it
\* would take 65536 calls while a write blocks or a response is under way.
FreshId == \A k \in Clients : register(k) => queryId' \notin InUse

FreshIds == [][FreshId]_mvars

-----------------------------------------------------------------------------
(* Properties *)

\* A run that will call back: it is on its way to a registered entry, or has
\* one (exchangeAsync returns without a callback only while an entry exists or
\* after somebody took it).
Responsible(k) == task[k] \in {"start", "acquire", "register"} \/ Pending(k)

\* The outcome of a query in QueryService: asked while exactly one run or entry
\* is responsible for it, settled once it was called back and none is.
Outcome(q) ==
    LET first == Responsible(<<q, 1>>)
        second == Responsible(<<q, 2>>) IN
    CASE answers[q] = <<>> /\ task[<<q, 1>>] = "new" -> "unasked"
      [] answers[q] = <<>> /\ task[<<q, 1>>] # "new" /\ first # second -> "asked"
      [] answers[q] = <<q>> /\ ~first /\ ~second -> "response"
      [] answers[q] = <<"error">> /\ ~first /\ ~second -> "error"
      [] OTHER -> "broken"

Service == INSTANCE QueryService WITH outcome <- [q \in Queries |-> Outcome(q)]

\* The multiplexer implements QueryService: every query is called back exactly
\* once, with its own response or an error, whatever the order of responses,
\* read errors, write errors, retries and contexts, and although a response may
\* be read after its query was abandoned and its ID removed.
ServiceSpec == Service!Spec

\* An entry of m.queries counts as a user of its connection, so no idle sweep
\* can close the connection under it.
PendingIsUser ==
    \A i \in Ids : queries[i] # NoRun => held[queries[i]] # NoConn

\* Each connection that has been handed out and is still tracked is read by a
\* recvLoop: a query written to it can be answered.
TrackedIsRead ==
    \A c \in Conns : Tracked(c) /\ readers[c] > 0 => c \in reading

\* With keepIdle cleared no connection stays open for nothing: when every query
\* that was sent has had a response and the sweeps have run, it is closed.  A
\* query that fails inside AcquireShared leaves without a sweep, and a sweep
\* that ran while it was counted as a waiter has spared the connection: hence
\* only responses, and no errors, in the premise.
IdleClosed ==
    /\ ~keepIdle /\ sweeps = 0 /\ ~closed
    /\ \A q \in Queries : task[<<q, 1>>] = "new" \/ answers[q] = <<q>>
    => shared[state] = NoConn

\* The multiplexer uses the pool as its clients may: each of its steps leaves
\* the pool alone or is a step of ConnPool, so what is proved of the pool holds
\* for the multiplexer.
PoolSpec == Init /\ [][UNCHANGED vars \/ Next]_vars

\* The instance has no connection left for a run that would dial.
OutOfConns(q) ==
    /\ \A c \in Conns : dialer[c] # "none"
    /\ \E k \in Clients : Query(k) = q /\ pc[k] = "acquire"

\* Every query is called back, with an answer or an error, even if the peer is
\* silent and writes block.
Answered ==
    \A q \in Queries :
        task[<<q, 1>>] # "new" ~> (answers[q] # <<>> \/ OutOfConns(q))

=============================================================================
