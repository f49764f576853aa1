------------------------------ MODULE DNSClient ------------------------------
(***************************************************************************)
(* The DNS client (dns/client.go): the cache in memory, the lock that lets   *)
(* one request query for all that ask the same, optimistic answers with      *)
(* their background refresh, and the store of rejected responses (RDRC).     *)
(*                                                                         *)
(* One question, one transport whose answers depend on the network it is     *)
(* used in (adapter.DNSTransportWithEnvironment), one timeout: keys differ   *)
(* in their environment only.  A response is what its rcode, its TTL and the *)
(* response checkers make of it.  Left out: the persistent cache, caching    *)
(* switched off or without expiry, messages that are not simple requests.    *)
(***************************************************************************)
EXTENDS Naturals, FiniteSets

CONSTANTS
    Requests,
    Async,          \* requests made with ExchangeAsync
    Lookups,        \* requests made with Lookup
    Checked,        \* requests with a response checker
    Strict,         \* requests with DisableOptimisticCache
    Parent(_),      \* the request whose transport makes this one, or None
    None,
    Envs,           \* values of environmentHash; 0 is the unknown environment
    MaxChanges      \* bound on changes of the network

ASSUME EnvsKnown == 0 \in Envs /\ Envs \subseteq Nat
ASSUME ChangesBounded == MaxChanges \in Nat
ASSUME NoneIsNoRequest == None \notin Requests

VARIABLES
    environment, changes,
    cache, cacheLock, backgroundRefresh, rdrc,
    req,
    calm            \* history: the requests since whose start no entry was lost or aged
                    \* and the network did not change

vars == <<environment, changes, cache, cacheLock, backgroundRefresh, rdrc, req, calm>>

Answers == {"error", "servfail", "zeroTTL", "good", "bad"}
Cachable(answer) == answer \in {"good", "bad"}
NoEntry == [age |-> "none", good |-> FALSE, from |-> 0, steady |-> TRUE]
NoRefresh == [pc |-> "off", checked |-> FALSE, begun |-> 0, answer |-> "error", from |-> 0]
NewRequest == [pc |-> "idle", key |-> 0, begun |-> 0, allowWait |-> FALSE, owns |-> FALSE,
               loaded |-> FALSE, cond |-> None, stale |-> FALSE,
               answer |-> "error", from |-> 0, result |-> "none"]

Init ==
    /\ environment = 0 /\ changes = 0
    /\ cache = [e \in Envs |-> NoEntry]
    /\ cacheLock = [e \in Envs |-> None]
    /\ backgroundRefresh = [e \in Envs |-> NoRefresh]
    /\ rdrc = FALSE
    /\ req = [r \in Requests |-> NewRequest]
    /\ calm = {}

----------------------------------------------------------------------------
(* Keys and entries. *)

\* Fault: an answer is stored for the network of the moment, whatever it was asked in.
finishCacheKeyAlways(key) == {environment}
\* Where an answer may be stored: under the key it was asked for while the network is the
\* same, and under the present one when it was not known before.
finishCacheKey(key) == {e \in {environment} : e = key \/ key = 0}

\* An answer obtained in the environment `from` by a query begun at change `begun`.
storeCache(key, answer, from, begun) ==
    cache' = [e \in Envs |->
        IF e \in finishCacheKey(key)
        THEN [age |-> "fresh", good |-> answer = "good", from |-> from,
              steady |-> changes - begun <= 1]
        ELSE cache[e]]

\* What loadResponse finds that a request may be given.
Usable(r, key) ==
    \/ cache[key].age = "fresh"
    \/ cache[key].age = "stale" /\ r \notin Strict

\* Fault: the cond is closed and the lock stays in the map.
releaseCloses(r) == UNCHANGED cacheLock
\* Delete of the lock; the cond of a request is closed as soon as it no longer owns the lock.
release(r) ==
    cacheLock' = [e \in Envs |-> IF req[r].owns /\ e = req[r].key THEN None ELSE cacheLock[e]]

\* One refresh for a key; the goroutine is started if there is none.
backgroundRefreshDNS(r) ==
    LET key == req[r].key IN
    backgroundRefresh' =
        IF req[r].stale /\ backgroundRefresh[key].pc = "off"
        THEN [backgroundRefresh EXCEPT ![key] =
                [NoRefresh EXCEPT !.pc = "query", !.checked = r \in Checked, !.begun = req[r].begun]]
        ELSE backgroundRefresh

----------------------------------------------------------------------------
(* A request. *)

Set(r, fields) == req' = [req EXCEPT ![r] = fields]
\* The request returns; its locals are dead.
Return(r, result) == Set(r, [NewRequest EXCEPT !.pc = "done", !.result = result])

\* Lookup begins with questionCache; the others with beginExchange.
Start(r) ==
    /\ req[r].pc = "idle"
    /\ Parent(r) # None => req[Parent(r)].pc = "query"
    /\ Set(r, [req[r] EXCEPT !.pc = IF r \in Lookups THEN "question" ELSE "begin",
                             !.key = environment, !.begun = changes,
                             !.allowWait = r \notin Async])
    /\ UNCHANGED <<environment, changes, cache, cacheLock, backgroundRefresh, rdrc, calm>>

\* newCacheKey and LoadOrStore of the lock.
Begin(r) ==
    LET holder == cacheLock[environment] IN
    /\ req[r].pc = "begin"
    /\ cacheLock' = IF holder = None THEN [cacheLock EXCEPT ![environment] = r] ELSE cacheLock
    /\ Set(r, [req[r] EXCEPT !.pc = "load", !.key = environment, !.begun = changes,
                             !.owns = holder = None, !.loaded = holder # None, !.cond = holder])
    /\ calm' = calm \cup {r}
    /\ UNCHANGED <<environment, changes, cache, backgroundRefresh, rdrc>>

\* Where a request goes when the cache has nothing for it: a lookup on to its exchange, a
\* request that does not share its key to the transport, an asynchronous one that must wait
\* to a goroutine of its own, which begins again.
Miss(r) ==
    LET s == req[r] IN
    IF s.pc \in {"question", "questionRemove"} THEN [s EXCEPT !.pc = "begin"]
    ELSE IF ~s.loaded THEN [s EXCEPT !.pc = "check"]
    ELSE IF s.allowWait THEN [s EXCEPT !.pc = "wait"]
    ELSE [s EXCEPT !.pc = "begin", !.allowWait = TRUE, !.loaded = FALSE, !.cond = None]

\* loadResponse.  An entry past the optimistic timeout is removed in a second step; one that
\* is only stale counts as a miss for a request that wants no optimistic answers.
Load(r) ==
    LET s == req[r]
        entry == cache[s.key]
    IN
    /\ s.pc \in {"question", "load"}
    /\ Set(r,
         IF Usable(r, s.key)
         THEN [s EXCEPT !.pc = "leave", !.stale = entry.age = "stale",
                        !.result = IF r \in Checked /\ ~entry.good THEN "rejected" ELSE "cached"]
         ELSE IF entry.age = "old"
         THEN [s EXCEPT !.pc = IF s.pc = "load" THEN "loadRemove" ELSE "questionRemove"]
         ELSE Miss(r))
    /\ UNCHANGED <<environment, changes, cache, cacheLock, backgroundRefresh, rdrc, calm>>

\* cache.Remove: by now the entry may be a new one.
Remove(r) ==
    /\ req[r].pc \in {"loadRemove", "questionRemove"}
    /\ cache' = [cache EXCEPT ![req[r].key] = NoEntry]
    /\ Set(r, Miss(r))
    /\ calm' = {}
    /\ UNCHANGED <<environment, changes, cacheLock, backgroundRefresh, rdrc>>

\* Fault: only a response that was stored wakes those who wait.
WaitStored(r) ==
    /\ req[r].pc = "wait"
    /\ ~req[req[r].cond].owns /\ req[req[r].cond].result = "stored"
    /\ Set(r, [req[r] EXCEPT !.pc = "load", !.key = environment, !.begun = changes,
                             !.loaded = FALSE])
    /\ UNCHANGED <<environment, changes, cache, cacheLock, backgroundRefresh, rdrc, calm>>

\* The cond is closed: a new key, and the cache again, this time without a lock to wait for.
Wait(r) ==
    /\ req[r].pc = "wait"
    /\ ~req[req[r].cond].owns
    /\ Set(r, [req[r] EXCEPT !.pc = "load", !.key = environment, !.begun = changes,
                             !.loaded = FALSE])
    /\ UNCHANGED <<environment, changes, cache, cacheLock, backgroundRefresh, rdrc, calm>>

\* The deadline passes or the caller gives up before there is an operation.
CtxDone(r) ==
    /\ req[r].pc \in {"begin", "wait"}
    /\ Return(r, "canceled")
    /\ UNCHANGED <<environment, changes, cache, cacheLock, backgroundRefresh, rdrc, calm>>

\* The end of beginExchange: the loopback check, and responses known to be rejected.
Check(r) ==
    /\ req[r].pc = "check"
    /\ Set(r, IF Parent(r) # None THEN [req[r] EXCEPT !.pc = "leave", !.result = "loopback"]
              ELSE IF r \in Checked /\ rdrc
              THEN [req[r] EXCEPT !.pc = "leave", !.result = "rejected"]
              ELSE [req[r] EXCEPT !.pc = "query"])
    /\ UNCHANGED <<environment, changes, cache, cacheLock, backgroundRefresh, rdrc, calm>>

\* Requests that a transport makes on behalf of r: it answers when they are over.
Nested(r) == {n \in Requests : Parent(n) = r /\ req[n].pc \notin {"idle", "done"}}

\* Fault: the lock is released before the response has been stored.
AnswerReleases(r) ==
    /\ req[r].pc = "query" /\ Nested(r) = {}
    /\ \E answer \in Answers :
         Set(r, [req[r] EXCEPT !.pc = IF answer = "error" THEN "leave" ELSE "finish",
                               !.owns = FALSE, !.answer = answer, !.from = environment,
                               !.result = IF answer = "error" THEN "failed" ELSE "none"])
    /\ release(r)
    /\ UNCHANGED <<environment, changes, cache, backgroundRefresh, rdrc, calm>>

\* The transport answers, fails or runs into the deadline.
Answer(r) ==
    /\ req[r].pc = "query" /\ Nested(r) = {}
    /\ \E answer \in Answers :
         Set(r, [req[r] EXCEPT !.pc = IF answer = "error" THEN "leave" ELSE "finish",
                               !.answer = answer, !.from = environment,
                               !.result = IF answer = "error" THEN "failed" ELSE "none"])
    /\ UNCHANGED <<environment, changes, cache, cacheLock, backgroundRefresh, rdrc, calm>>

\* finishExchange.
Finish(r) ==
    LET s == req[r]
        rejected == r \in Checked /\ s.answer \in {"servfail", "bad"}
        store == ~rejected /\ Cachable(s.answer)
    IN
    /\ s.pc = "finish"
    /\ rdrc' = (rdrc \/ (rejected /\ Cachable(s.answer)))
    /\ IF store THEN storeCache(s.key, s.answer, s.from, s.begun) ELSE UNCHANGED cache
    /\ Set(r, [s EXCEPT !.pc = "leave", !.result = IF rejected THEN "rejected"
                                        ELSE IF store THEN "stored" ELSE "answered"])
    /\ UNCHANGED <<environment, changes, cacheLock, backgroundRefresh, calm>>

\* The way out of every request that may own the lock: release, and the refresh of an
\* answer that was served stale.
Leave(r) ==
    /\ req[r].pc = "leave"
    /\ release(r)
    /\ backgroundRefreshDNS(r)
    /\ Return(r, req[r].result)
    /\ UNCHANGED <<environment, changes, cache, rdrc, calm>>

----------------------------------------------------------------------------
(* The refresh goroutine, and what happens to the client from outside. *)

RefreshAnswer(e) ==
    /\ backgroundRefresh[e].pc = "query"
    /\ \E answer \in Answers :
         backgroundRefresh' = [backgroundRefresh EXCEPT ![e].pc = "finish", ![e].answer = answer,
                                                        ![e].from = environment]
    /\ UNCHANGED <<environment, changes, cache, cacheLock, rdrc, req, calm>>

RefreshFinish(e) ==
    LET s == backgroundRefresh[e]
        rejected == s.checked /\ s.answer \in {"servfail", "bad"}
    IN
    /\ s.pc = "finish"
    /\ rdrc' = (rdrc \/ rejected)
    /\ IF ~rejected /\ Cachable(s.answer) THEN storeCache(e, s.answer, s.from, s.begun)
       ELSE UNCHANGED cache
    /\ backgroundRefresh' = [backgroundRefresh EXCEPT ![e] = NoRefresh]
    /\ UNCHANGED <<environment, changes, cacheLock, req, calm>>

ClearCache ==
    /\ cache' = [e \in Envs |-> NoEntry]
    /\ calm' = {}
    /\ UNCHANGED <<environment, changes, cacheLock, backgroundRefresh, rdrc, req>>

\* The capacity of the cache: an entry makes room for another question.
Evict(e) ==
    /\ cache' = [cache EXCEPT ![e] = NoEntry]
    /\ calm' = {}
    /\ UNCHANGED <<environment, changes, cacheLock, backgroundRefresh, rdrc, req>>

\* Time passes: an entry expires, and then its optimistic timeout passes.
Age(e) ==
    /\ cache[e].age \in {"fresh", "stale"}
    /\ cache' = [cache EXCEPT ![e].age = IF @ = "fresh" THEN "stale" ELSE "old"]
    /\ calm' = {}
    /\ UNCHANGED <<environment, changes, cacheLock, backgroundRefresh, rdrc, req>>

\* A rejected response is remembered for a limited time.
ForgetRDRC ==
    /\ rdrc' = FALSE
    /\ UNCHANGED <<environment, changes, cache, cacheLock, backgroundRefresh, req, calm>>

EnvironmentChange ==
    /\ changes < MaxChanges
    /\ environment' \in Envs \ {environment}
    /\ changes' = changes + 1
    /\ calm' = {}
    /\ UNCHANGED <<cache, cacheLock, backgroundRefresh, rdrc, req>>

Step(r) ==
    \/ Begin(r) \/ Load(r) \/ Remove(r) \/ Wait(r) \/ Check(r)
    \/ Answer(r) \/ Finish(r) \/ Leave(r)

Next ==
    \/ \E r \in Requests : Start(r) \/ Step(r) \/ CtxDone(r)
    \/ \E e \in Envs : RefreshAnswer(e) \/ RefreshFinish(e) \/ Evict(e) \/ Age(e)
    \/ ClearCache \/ ForgetRDRC \/ EnvironmentChange

Spec == Init /\ [][Next]_vars

\* Goroutines run and transports answer, by their deadline at the latest.  Of the deadlines
\* of requests that wait only those of nested ones are relied on.
FairSpec ==
    /\ Spec
    /\ \A r \in Requests : WF_vars(Step(r))
    /\ \A r \in Requests : Parent(r) # None => WF_vars(CtxDone(r))

----------------------------------------------------------------------------
(* Properties. *)


\* The lock of a key is held by exactly the requests that own it, at most one for a key, and
\* never by one that has returned; a request waits only for one that owned the lock it found.
LockHeld ==
    /\ \A e \in Envs : cacheLock[e] # None =>
           /\ req[cacheLock[e]].owns
           /\ req[cacheLock[e]].key = e
    /\ \A r \in Requests : req[r].owns =>
           /\ cacheLock[req[r].key] = r
           /\ req[r].pc \in {"load", "loadRemove", "check", "query", "finish", "leave"}
    /\ \A r \in Requests : req[r].loaded => req[r].cond # None

\* A request that waited for another whose answer went into the cache is served from there:
\* it queries only if an entry was lost, an entry aged or the network changed meanwhile.
WaitersServed ==
    \A r, o \in Requests :
        req[r].cond = o /\ ~req[r].loaded /\ req[o].result = "stored" /\ o \in calm
            => req[r].pc \notin {"check", "query", "finish"}

\* An entry was answered in the network it is stored for, or in an unknown one before it.
\* The exception: the network changed at least twice while the query was under way.
EnvMatches ==
    \A e \in Envs : cache[e].age # "none" /\ cache[e].steady => cache[e].from \in {e, 0}

\* Every request returns.  No deadline is needed for that, except for one that the transport
\* makes for the very question it is asked: it waits for its own parent.
RequestsEnd == \A r \in Requests : req[r].pc # "idle" ~> req[r].pc = "done"
=============================================================================
