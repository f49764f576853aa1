-------------------------- MODULE DNSClient_proofs --------------------------
(***************************************************************************)
(* The safety properties of DNSClient hold for any number of requests, of    *)
(* every kind, and any number of environments and changes of them.           *)
(***************************************************************************)
EXTENDS DNSClient, TLAPS

Ages == {"none", "fresh", "stale", "old"}
Places == {"idle", "question", "questionRemove", "begin", "load", "loadRemove", "wait", "check",
           "query", "finish", "leave", "done"}
Results == {"none", "rejected", "cached", "canceled", "loopback", "failed", "stored", "answered"}
Holding == {"load", "loadRemove", "check", "query", "finish", "leave"}

EntryType == [age : Ages, good : BOOLEAN, from : Envs, steady : BOOLEAN]
RefreshType == [pc : {"off", "query", "finish"}, checked : BOOLEAN, begun : Nat,
                answer : Answers, from : Envs]
ReqType == [pc : Places, key : Envs, begun : Nat, allowWait : BOOLEAN, owns : BOOLEAN,
            loaded : BOOLEAN, cond : Requests \cup {None}, stale : BOOLEAN,
            answer : Answers, from : Envs, result : Results]

TypeInv ==
    /\ environment \in Envs /\ changes \in Nat
    /\ cache \in [Envs -> EntryType]
    /\ cacheLock \in [Envs -> Requests \cup {None}]
    /\ backgroundRefresh \in [Envs -> RefreshType]
    /\ rdrc \in BOOLEAN
    /\ req \in [Requests -> ReqType]
    /\ calm \subseteq Requests

\* A request that owns a lock does not wait for one, and one that found a lock
\* found it owned; it stops to wait only when the owner has returned.
CondInv ==
    \A r \in Requests :
        /\ req[r].owns => ~req[r].loaded
        /\ req[r].cond # None =>
               /\ req[req[r].cond].owns \/ req[req[r].cond].pc = "done"
               /\ ~req[r].loaded => req[req[r].cond].pc = "done"

\* What the history variable calm stands for.
CalmInv ==
    /\ \A r \in Requests : req[r].pc \notin {"leave", "done"} => req[r].result = "none"
    /\ \A r \in calm :
           /\ req[r].pc # "idle" /\ (req[r].pc # "done" => req[r].key = environment)
           /\ req[r].result = "stored" => cache[environment].age = "fresh"
    /\ \A r, o \in Requests :
           req[r].cond = o /\ ~req[r].loaded /\ o \in calm => req[r].key = environment

\* A query for `key` begun at change `begun`, and its answer from `from`: as
\* long as the network changed at most once, both are known.
Asked(key, begun) ==
    /\ begun <= changes
    /\ changes = begun => key = environment

Got(key, begun, from) ==
    /\ changes = begun => from = environment
    /\ changes = begun + 1 => from \in {key, environment}

\* The refreshes that are under way ask for the network of their key.
RefreshInv ==
    \A e \in Envs :
        /\ backgroundRefresh[e].pc # "off" => Asked(e, backgroundRefresh[e].begun)
        /\ backgroundRefresh[e].pc = "finish" =>
               Got(e, backgroundRefresh[e].begun, backgroundRefresh[e].from)

EnvInv ==
    /\ \A r \in Requests :
           /\ req[r].pc \notin {"idle", "done"} => Asked(req[r].key, req[r].begun)
           /\ req[r].pc = "finish" => Got(req[r].key, req[r].begun, req[r].from)
    /\ RefreshInv

IInv == TypeInv /\ LockHeld /\ CondInv /\ CalmInv /\ WaitersServed /\ EnvInv /\ EnvMatches

-----------------------------------------------------------------------------
(* Steps of a request that leave locks and refreshes alone *)

\* r may become n: it keeps its lock, waits on or stops to wait for a request
\* that has returned, keeps its key or takes the present one unless it returns,
\* and queries only if what it waited for has not been stored.
MayBecome(r, n) ==
    /\ n \in ReqType
    /\ req[r].pc # "done" /\ n.pc # "idle"
    /\ n.owns = req[r].owns
    /\ n.owns => n.key = req[r].key /\ n.pc \in Holding
    /\ n.loaded => req[r].loaded /\ n.cond = req[r].cond
    /\ ~n.loaded /\ n.cond # None =>
           n.cond = req[r].cond /\ (~req[r].loaded \/ req[n.cond].pc = "done")
    /\ n.pc \notin {"leave", "done"} => n.result = "none"
    /\ \/ n.key = req[r].key /\ n.begun = req[r].begun /\ req[r].pc # "idle"
       \/ n.key = environment /\ n.begun = changes
       \/ n.pc = "done" /\ n.cond = None
    /\ ~n.loaded /\ n.cond # None /\ req[r].loaded => n.key = environment
    /\ n.pc = "finish" => n.from = environment

\* What may happen to the cache in such a step: unless calm is emptied, no
\* fresh entry of the present environment is lost.
CacheStep ==
    /\ cache' \in [Envs -> EntryType] /\ EnvMatches'
    /\ \/ calm' = {}
       \/ calm' = calm /\ (cache[environment].age = "fresh" => cache'[environment].age = "fresh")

\* Such a step keeps the invariant.
LEMMA RequestStep ==
    ASSUME IInv, NEW r \in Requests, NEW n, MayBecome(r, n), CacheStep, Set(r, n),
           rdrc' \in BOOLEAN, UNCHANGED <<environment, changes, cacheLock, backgroundRefresh>>,
           n.result = "stored" /\ r \in calm' => cache'[environment].age = "fresh",
           n.pc \in {"check", "query", "finish"} /\ ~n.loaded /\ calm' = calm =>
               n.cond \notin calm \/ req[n.cond].result # "stored"
    PROVE  IInv'
<1> USE DEF Set
<1>0. /\ req' = [req EXCEPT ![r] = n] /\ req \in [Requests -> ReqType] /\ n \in ReqType
      /\ req'[r] = n /\ \A o \in Requests : o # r => req'[o] = req[o]
  BY Zenon DEF IInv, TypeInv, MayBecome
<1>1. TypeInv'
  BY Zenon, <1>0 DEF IInv, TypeInv, CacheStep
<1>2. LockHeld'
  <2>1. \A e \in Envs : cacheLock[e] # None => req'[cacheLock[e]].owns /\ req'[cacheLock[e]].key = e
    BY <1>0 DEF IInv, TypeInv, LockHeld, MayBecome
  <2>2. \A o \in Requests : req'[o].owns => cacheLock[req'[o].key] = o /\ req'[o].pc \in Holding
    BY <1>0 DEF IInv, LockHeld, MayBecome, Holding
  <2>3. \A o \in Requests : req'[o].loaded => req'[o].cond # None
    BY <1>0 DEF IInv, LockHeld, MayBecome
  <2> QED BY <2>1, <2>2, <2>3 DEF LockHeld, Holding
<1>3. CondInv'
  <2>1. ASSUME NEW o \in Requests PROVE req'[o].owns => ~req'[o].loaded
    BY Zenon, <1>0 DEF IInv, CondInv, MayBecome
  <2>2. ASSUME NEW o \in Requests, NEW w \in Requests, req[w].owns \/ req[w].pc = "done"
        PROVE  req'[w].owns \/ req'[w].pc = "done"
    BY Zenon, <1>0, <2>2 DEF MayBecome
  <2>3. ASSUME NEW o \in Requests, req'[o].cond # None
        PROVE  /\ req'[req'[o].cond].owns \/ req'[req'[o].cond].pc = "done"
               /\ ~req'[o].loaded => req'[req'[o].cond].pc = "done"
    <3> DEFINE w == req'[o].cond
    <3>1. w \in Requests /\ w = req[o].cond
      BY <1>0, <2>3 DEF MayBecome, ReqType
    <3>2. (req[w].owns \/ req[w].pc = "done") /\ (~req[o].loaded => req[w].pc = "done")
      BY Zenon, <2>3, <3>1 DEF IInv, CondInv
    <3>3. ~req'[o].loaded => req[w].pc = "done"
      BY Zenon, <1>0, <2>3, <3>1, <3>2 DEF MayBecome
    <3>4. req[w].pc = "done" => req'[w].pc = "done"
      BY Zenon, <1>0, <3>1 DEF MayBecome
    <3> HIDE DEF w
    <3>5. req'[w].owns \/ req'[w].pc = "done"
      BY Zenon, <2>2, <3>1, <3>2
    <3> QED BY Zenon, <3>3, <3>4, <3>5 DEF w
  <2> QED BY Zenon, <2>1, <2>3 DEF CondInv
<1>4. ASSUME NEW o \in Requests, NEW w \in Requests, req'[o].cond = w, ~req'[o].loaded
      PROVE  req[o].cond = w /\ w # r /\ req'[w] = req[w]
             /\ (req[o].loaded => o = r /\ n.key = environment)
  <2>1. req'[o].cond # None
    BY Zenon, <1>4, NoneIsNoRequest
  <2>2. req'[w].pc = "done"
    BY Zenon, <1>3, <1>4, <2>1 DEF CondInv
  <2>3. req[o].cond = w /\ (req[o].loaded => o = r /\ n.key = environment)
    BY Zenon, <1>0, <1>4, <2>1 DEF MayBecome
  <2>4. w # r
    <3> SUFFICES ASSUME w = r PROVE FALSE
      BY Zenon
    <3>1. CASE o = r
      BY <1>0, <1>4, <2>1, <2>3, <3>1 DEF MayBecome, IInv, CondInv
    <3>2. CASE o # r
      BY <1>0, <1>4, <2>1, <2>3, <3>2 DEF MayBecome, IInv, CondInv
    <3> QED BY Zenon, <3>1, <3>2
  <2> QED BY Zenon, <1>0, <2>3, <2>4
<1>5. CalmInv'
  <2>1. \A o \in Requests : req'[o].pc \notin {"leave", "done"} => req'[o].result = "none"
    BY <1>0 DEF IInv, CalmInv, MayBecome
  <2>2. \A o \in calm' : o \in calm /\ o \in Requests
    BY Zenon DEF CacheStep, IInv, TypeInv
  <2>3. \A o \in calm' : req'[o].pc # "idle" /\ (req'[o].pc # "done" => req'[o].key = environment)
    BY <1>0, <2>2 DEF IInv, CalmInv, MayBecome
  <2>4. \A o \in calm' : req'[o].result = "stored" => cache'[environment].age = "fresh"
    BY <1>0, <2>2 DEF IInv, CalmInv, CacheStep
  <2>5. ASSUME NEW o \in Requests, NEW w \in Requests, req'[o].cond = w, ~req'[o].loaded, w \in calm'
        PROVE  req'[o].key = environment
    <3>1. req[o].cond = w /\ w \in calm /\ (req[o].loaded => o = r /\ n.key = environment)
      BY Zenon, <1>4, <2>2, <2>5
    <3>2. ~req[o].loaded => req[o].key = environment
      BY Zenon, <3>1 DEF IInv, CalmInv
    <3>3. CASE o = r
      BY Zenon, <1>0, <2>5, <3>1, <3>2, <3>3, NoneIsNoRequest DEF MayBecome
    <3>4. CASE o # r
      BY Zenon, <1>0, <3>1, <3>2, <3>4
    <3> QED BY Zenon, <3>3, <3>4
  <2> QED BY Zenon, <2>1, <2>3, <2>4, <2>5 DEF CalmInv
<1>6. WaitersServed'
  <2> SUFFICES ASSUME NEW o \in Requests, NEW w \in Requests, req'[o].cond = w, ~req'[o].loaded,
                      req'[w].result = "stored", w \in calm'
               PROVE  req'[o].pc \notin {"check", "query", "finish"}
    BY Zenon DEF WaitersServed
  <2>1. req[o].cond = w /\ req'[w] = req[w] /\ calm' = calm
    BY <1>4 DEF CacheStep
  <2>2. CASE o = r
    BY Zenon, <1>0, <2>1, <2>2
  <2>3. CASE o # r
    BY <1>0, <2>1, <2>3 DEF IInv, WaitersServed
  <2> QED BY Zenon, <2>2, <2>3
<1>7. EnvInv'
  <2> USE DEF Asked, Got
  <2>1. /\ n.pc # "done" => Asked(n.key, n.begun)
        /\ n.pc = "finish" => Got(n.key, n.begun, n.from)
    BY DEF IInv, TypeInv, EnvInv, RefreshInv, MayBecome
  <2> QED BY <1>0, <2>1 DEF IInv, EnvInv, RefreshInv
<1> QED BY Zenon, <1>1, <1>2, <1>3, <1>5, <1>6, <1>7 DEF IInv, CacheStep

\* A step that does not touch the cache either.
LEMMA QuietStep ==
    ASSUME IInv, NEW r \in Requests, NEW n, MayBecome(r, n), Set(r, n),
           UNCHANGED <<environment, changes, cache, cacheLock, backgroundRefresh, rdrc, calm>>,
           n.result # "stored",
           n.pc \in {"check", "query", "finish"} /\ ~n.loaded =>
               n.cond \notin calm \/ req[n.cond].result # "stored"
    PROVE  IInv'
<1>1. CacheStep /\ rdrc' \in BOOLEAN
  BY Zenon DEF IInv, TypeInv, EnvMatches, CacheStep
<1> QED BY Zenon, <1>1, RequestStep

\* What Miss makes of a request that found nothing.
LEMMA MissOf ==
    ASSUME IInv, NEW r \in Requests,
           req[r].pc \in {"question", "questionRemove", "load", "loadRemove"}
    PROVE  /\ MayBecome(r, Miss(r))
           /\ Miss(r).result = "none"
           /\ Miss(r).pc \in {"begin", "check", "wait"}
           /\ Miss(r).pc = "check" =>
                  req[r].pc \in {"load", "loadRemove"} /\ ~req[r].loaded /\ Miss(r).cond = req[r].cond
<1> DEFINE s == req[r]
<1>1. s \in ReqType /\ s.result = "none" /\ (s.owns => s.pc \in Holding /\ ~s.loaded)
      /\ (s.cond # None /\ ~s.loaded => req[s.cond].pc = "done")
  BY Zenon DEF IInv, TypeInv, LockHeld, CondInv, CalmInv, Holding
<1>2. CASE s.pc \in {"question", "questionRemove"}
  BY Zenon, <1>1, <1>2 DEF Miss, MayBecome, ReqType, Holding, Places
<1>3. CASE s.pc \in {"load", "loadRemove"} /\ ~s.loaded
  BY Zenon, <1>1, <1>3 DEF Miss, MayBecome, ReqType, Holding, Places
<1>4. CASE s.pc \in {"load", "loadRemove"} /\ s.loaded /\ s.allowWait
  BY Zenon, <1>1, <1>4 DEF Miss, MayBecome, ReqType, Holding, Places
<1>5. CASE s.pc \in {"load", "loadRemove"} /\ s.loaded /\ ~s.allowWait
  BY Zenon, <1>1, <1>5 DEF Miss, MayBecome, ReqType, Holding, Places
<1> QED BY Zenon, <1>2, <1>3, <1>4, <1>5

\* Start, Wait, CtxDone, Check and Answer keep the invariant.
LEMMA PlainSteps ==
    ASSUME IInv, NEW r \in Requests,
           Start(r) \/ Wait(r) \/ CtxDone(r) \/ Check(r) \/ Answer(r)
    PROVE  IInv'
<1> DEFINE s == req[r]
<1>0. /\ s \in ReqType /\ environment \in Envs /\ changes \in Nat
      /\ (s.owns => s.pc \in Holding /\ ~s.loaded) /\ (s.loaded => s.cond # None)
      /\ (s.pc \notin {"leave", "done"} => s.result = "none")
      /\ (s.cond # None /\ ~s.loaded => req[s.cond].pc = "done")
      /\ (s.cond # None => req[s.cond].owns \/ req[s.cond].pc = "done")
  BY Zenon DEF IInv, TypeInv, LockHeld, CondInv, CalmInv, Holding
<1>w. s.pc \in {"check", "query", "finish"} /\ ~s.loaded =>
        s.cond \notin calm \/ req[s.cond].result # "stored"
  BY Zenon DEF IInv, TypeInv, WaitersServed
<1> USE DEF ReqType, Places, Results, Holding, Answers
<1>1. CASE Start(r)
  <2> DEFINE n == [s EXCEPT !.pc = IF r \in Lookups THEN "question" ELSE "begin",
                            !.key = environment, !.begun = changes, !.allowWait = r \notin Async]
  <2>1. MayBecome(r, n) /\ n.result = "none" /\ n.pc \in {"question", "begin"}
    BY ZenonT(40), <1>0, <1>1 DEF MayBecome, Start
  <2>2. Set(r, n) /\ UNCHANGED <<environment, changes, cache, cacheLock, backgroundRefresh, rdrc, calm>>
    BY Zenon, <1>1 DEF Start
  <2> HIDE DEF n
  <2> QED BY Zenon, <2>1, <2>2, QuietStep
<1>2. CASE Wait(r)
  <2> DEFINE n == [s EXCEPT !.pc = "load", !.key = environment, !.begun = changes, !.loaded = FALSE]
  <2>1. MayBecome(r, n) /\ n.result = "none" /\ n.pc = "load"
    BY Zenon, <1>0, <1>2 DEF MayBecome, Wait
  <2>2. Set(r, n) /\ UNCHANGED <<environment, changes, cache, cacheLock, backgroundRefresh, rdrc, calm>>
    BY Zenon, <1>2 DEF Wait
  <2> HIDE DEF n
  <2> QED BY Zenon, <2>1, <2>2, QuietStep
<1>3. CASE CtxDone(r)
  <2> DEFINE n == [NewRequest EXCEPT !.pc = "done", !.result = "canceled"]
  <2>1. n \in ReqType /\ n.result = "canceled" /\ n.pc = "done" /\ ~n.owns /\ ~n.loaded /\ n.cond = None
    BY Zenon, EnvsKnown DEF NewRequest, ReqType, Places, Answers
  <2>3. s.pc \in {"begin", "wait"} /\ ~s.owns
    BY Zenon, <1>3 DEF CtxDone, IInv, LockHeld
  <2>4. MayBecome(r, n)
    BY Zenon, <2>1, <2>3, <1>0 DEF MayBecome
  <2>2. Set(r, n) /\ UNCHANGED <<environment, changes, cache, cacheLock, backgroundRefresh, rdrc, calm>>
    BY Zenon, <1>3 DEF CtxDone, Return
  <2> HIDE DEF n
  <2> QED BY Zenon, <2>1, <2>2, <2>4, QuietStep
<1>4. CASE Check(r)
  <2>1. PICK n : /\ Set(r, n)
                 /\ \/ n = [s EXCEPT !.pc = "leave", !.result = "loopback"]
                    \/ n = [s EXCEPT !.pc = "leave", !.result = "rejected"]
                    \/ n = [s EXCEPT !.pc = "query"]
    BY Zenon, <1>4 DEF Check
  <2>2. s.pc = "check" /\ UNCHANGED <<environment, changes, cache, cacheLock, backgroundRefresh, rdrc, calm>>
    BY Zenon, <1>4 DEF Check
  <2>3. MayBecome(r, n) /\ n.result # "stored" /\ n.cond = s.cond /\ n.loaded = s.loaded
    BY ZenonT(40), <1>0, <2>1, <2>2 DEF MayBecome
  <2> QED BY Zenon, <1>w, <2>1, <2>2, <2>3, QuietStep
<1>5. CASE Answer(r)
  <2>1. PICK answer \in Answers :
          Set(r, [s EXCEPT !.pc = IF answer = "error" THEN "leave" ELSE "finish",
                           !.answer = answer, !.from = environment,
                           !.result = IF answer = "error" THEN "failed" ELSE "none"])
    BY Zenon, <1>5 DEF Answer
  <2> DEFINE n == [s EXCEPT !.pc = IF answer = "error" THEN "leave" ELSE "finish",
                            !.answer = answer, !.from = environment,
                            !.result = IF answer = "error" THEN "failed" ELSE "none"]
  <2>2. s.pc = "query" /\ UNCHANGED <<environment, changes, cache, cacheLock, backgroundRefresh, rdrc, calm>>
    BY Zenon, <1>5 DEF Answer
  <2>3. MayBecome(r, n) /\ n.result # "stored" /\ n.cond = s.cond /\ n.loaded = s.loaded
    BY ZenonT(40), <1>0, <2>2 DEF MayBecome
  <2> HIDE DEF n
  <2> QED BY Zenon, <1>w, <2>1, <2>2, <2>3, QuietStep DEF n
<1> QED BY Zenon, <1>1, <1>2, <1>3, <1>4, <1>5

\* The cache is read and old entries are removed.
LEMMA LoadSteps ==
    ASSUME IInv, NEW r \in Requests, Load(r) \/ Remove(r) PROVE IInv'
<1> DEFINE s == req[r]
<1>0. /\ s \in ReqType /\ environment \in Envs /\ s.key \in Envs
      /\ (s.owns => s.pc \in Holding /\ ~s.loaded) /\ (s.loaded => s.cond # None)
      /\ (s.pc \notin {"leave", "done"} => s.result = "none")
      /\ (s.cond # None /\ ~s.loaded => req[s.cond].pc = "done")
  BY DEF IInv, TypeInv, LockHeld, CondInv, CalmInv, Holding, ReqType
<1>1. CASE Load(r)
  <2>1. s.pc \in {"question", "load"}
        /\ UNCHANGED <<environment, changes, cache, cacheLock, backgroundRefresh, rdrc, calm>>
    BY Zenon, <1>1 DEF Load
  <2>2. CASE Usable(r, s.key)
    <3> DEFINE n == [s EXCEPT !.pc = "leave", !.stale = cache[s.key].age = "stale",
                              !.result = IF r \in Checked /\ ~cache[s.key].good THEN "rejected" ELSE "cached"]
    <3>1. Set(r, n)
      BY Zenon, <1>1, <2>2 DEF Load
    <3>2. MayBecome(r, n) /\ n.result # "stored" /\ n.pc = "leave"
      BY ZenonT(40), <1>0, <2>1 DEF MayBecome, ReqType, Places, Results, Holding
    <3> HIDE DEF n
    <3> QED BY Zenon, <2>1, <3>1, <3>2, QuietStep
  <2>3. CASE ~Usable(r, s.key) /\ cache[s.key].age = "old"
    <3> DEFINE n == [s EXCEPT !.pc = IF s.pc = "load" THEN "loadRemove" ELSE "questionRemove"]
    <3>1. Set(r, n)
      BY Zenon, <1>1, <2>3 DEF Load
    <3>2. MayBecome(r, n) /\ n.result = "none" /\ n.pc \in {"loadRemove", "questionRemove"}
      BY <1>0, <2>1 DEF MayBecome, ReqType, Places, Results, Holding
    <3> HIDE DEF n
    <3> QED BY Zenon, <2>1, <3>1, <3>2, QuietStep
  <2>4. CASE ~Usable(r, s.key) /\ cache[s.key].age # "old"
    <3>1. Set(r, Miss(r))
      BY Zenon, <1>1, <2>4 DEF Load
    <3>2. s.cond \in calm /\ ~s.loaded => s.key = environment
      BY Zenon DEF IInv, TypeInv, CalmInv
    <3>3. Miss(r).pc \in {"check", "query", "finish"} /\ ~Miss(r).loaded =>
            Miss(r).cond \notin calm \/ req[Miss(r).cond].result # "stored"
      <4> SUFFICES ASSUME Miss(r).pc = "check", s.cond \in calm, req[s.cond].result = "stored" PROVE FALSE
        BY Zenon, <2>1, MissOf
      <4>1. ~s.loaded /\ s.key = environment
        BY Zenon, <2>1, <3>2, MissOf
      <4>2. cache[environment].age = "fresh"
        BY Zenon DEF IInv, TypeInv, CalmInv
      <4> QED BY Zenon, <2>4, <4>1, <4>2 DEF Usable
    <3> QED BY Zenon, <2>1, <3>1, <3>3, MissOf, QuietStep
  <2> QED BY Zenon, <2>2, <2>3, <2>4
<1>2. CASE Remove(r)
  <2>1. /\ s.pc \in {"loadRemove", "questionRemove"} /\ Set(r, Miss(r))
        /\ cache' = [cache EXCEPT ![s.key] = NoEntry] /\ calm' = {}
        /\ UNCHANGED <<environment, changes, cacheLock, backgroundRefresh, rdrc>>
    BY Zenon, <1>2 DEF Remove
  <2>2. CacheStep /\ rdrc' \in BOOLEAN
    <3>1. NoEntry \in EntryType /\ NoEntry.age = "none"
      BY Zenon, EnvsKnown DEF NoEntry, EntryType, Ages
    <3> QED BY Zenon, <1>0, <2>1, <3>1 DEF IInv, TypeInv, EnvMatches, CacheStep
  <2>3. Miss(r).pc # "query" /\ Miss(r).pc # "finish"
    BY Zenon, <2>1, MissOf
  <2>4. Miss(r).pc = "check" /\ calm' = calm => Miss(r).cond \notin calm
    BY Zenon, <2>1
  <2> QED BY Zenon, <2>1, <2>2, <2>3, <2>4, MissOf, RequestStep
<1> QED BY Zenon, <1>1, <1>2

\* What is stored was answered in the network it is stored for, or in an
\* unknown one, unless the network changed twice.
LEMMA StoreMatches ==
    ASSUME IInv, NEW key \in Envs, NEW answer, NEW from \in Envs, NEW begun \in Nat,
           Asked(key, begun), Got(key, begun, from),
           storeCache(key, answer, from, begun), UNCHANGED <<environment, changes>>
    PROVE  /\ cache' \in [Envs -> EntryType] /\ EnvMatches'
           /\ cache[environment].age = "fresh" => cache'[environment].age = "fresh"
           /\ key = environment => cache'[environment].age = "fresh"
<1> DEFINE new == [age |-> "fresh", good |-> answer = "good", from |-> from,
                   steady |-> changes - begun <= 1]
<1>0. environment \in Envs /\ changes \in Nat /\ cache \in [Envs -> EntryType]
      /\ cache' = [e \in Envs |-> IF e \in finishCacheKey(key) THEN new ELSE cache[e]]
  BY Zenon DEF IInv, TypeInv, storeCache
<1>1. new \in EntryType /\ new.age = "fresh" /\ new.from = from
      /\ (new.steady => changes = begun \/ changes = begun + 1)
  <2>1. (answer = "good") \in BOOLEAN /\ (changes - begun <= 1) \in BOOLEAN
    OBVIOUS
  <2>2. changes - begun <= 1 => changes = begun \/ changes = begun + 1
    BY <1>0 DEF Asked
  <2> QED BY Zenon, <2>1, <2>2 DEF EntryType, Ages
<1>2. new.steady => \A e \in finishCacheKey(key) : from \in {e, 0}
  BY Zenon, <1>0, <1>1 DEF finishCacheKey, Asked, Got
<1> HIDE DEF new
<1>3. EnvMatches'
  BY Zenon, <1>0, <1>1, <1>2 DEF EnvMatches, IInv
<1>4. key = environment => environment \in finishCacheKey(key)
  BY Zenon DEF finishCacheKey
<1> QED BY Zenon, <1>0, <1>1, <1>3, <1>4

\* The end of an exchange keeps the invariant.
LEMMA FinishStep ==
    ASSUME IInv, NEW r \in Requests, Finish(r) PROVE IInv'
<1> DEFINE s == req[r]
           rejected == r \in Checked /\ s.answer \in {"servfail", "bad"}
           store == ~rejected /\ Cachable(s.answer)
           n == [s EXCEPT !.pc = "leave", !.result = IF rejected THEN "rejected"
                                                ELSE IF store THEN "stored" ELSE "answered"]
<1>0. /\ s \in ReqType /\ s.pc = "finish" /\ Set(r, n)
      /\ UNCHANGED <<environment, changes, cacheLock, backgroundRefresh, calm>>
      /\ IF store THEN storeCache(s.key, s.answer, s.from, s.begun) ELSE UNCHANGED cache
      /\ rdrc' = (rdrc \/ (rejected /\ Cachable(s.answer)))
  BY Zenon DEF IInv, TypeInv, Finish
<1>1. Asked(s.key, s.begun) /\ Got(s.key, s.begun, s.from)
      /\ (s.owns => ~s.loaded) /\ (s.loaded => s.cond # None)
      /\ (s.cond # None /\ ~s.loaded => req[s.cond].pc = "done")
      /\ (r \in calm => s.key = environment)
  BY Zenon, <1>0 DEF IInv, EnvInv, RefreshInv, CondInv, LockHeld, CalmInv
<1>2. MayBecome(r, n) /\ n.pc = "leave" /\ (n.result = "stored" => store)
  BY ZenonT(40), <1>0, <1>1 DEF MayBecome, ReqType, Places, Results, Holding
<1>3. CacheStep /\ (store /\ r \in calm => cache'[environment].age = "fresh")
  <2>1. CASE store
    <3>1. s.key \in Envs /\ s.from \in Envs /\ s.begun \in Nat
          /\ storeCache(s.key, s.answer, s.from, s.begun)
      BY Zenon, <1>0, <2>1 DEF ReqType
    <3> QED BY Zenon, <1>0, <1>1, <3>1, StoreMatches DEF CacheStep
  <2>2. CASE ~store
    BY Zenon, <1>0, <2>2 DEF CacheStep, IInv, TypeInv, EnvMatches
  <2> QED BY Zenon, <2>1, <2>2
<1>4. rdrc' \in BOOLEAN
  BY Zenon, <1>0
<1> HIDE DEF n, store
<1> QED BY Zenon, <1>0, <1>2, <1>3, <1>4, RequestStep

-----------------------------------------------------------------------------
(* Locks *)

\* A request that takes the lock of its key, or finds it taken.
LEMMA BeginStep ==
    ASSUME IInv, NEW r \in Requests, Begin(r) PROVE IInv'
<1> DEFINE holder == cacheLock[environment]
           n == [req[r] EXCEPT !.pc = "load", !.key = environment, !.begun = changes,
                               !.owns = holder = None, !.loaded = holder # None, !.cond = holder]
<1>0. /\ req \in [Requests -> ReqType] /\ environment \in Envs /\ changes \in Nat
      /\ cacheLock \in [Envs -> Requests \cup {None}] /\ calm \subseteq Requests
      /\ req[r].pc = "begin" /\ req' = [req EXCEPT ![r] = n]
      /\ cacheLock' = IF holder = None THEN [cacheLock EXCEPT ![environment] = r] ELSE cacheLock
      /\ calm' = calm \cup {r}
      /\ UNCHANGED <<environment, changes, cache, backgroundRefresh, rdrc>>
  BY Zenon DEF IInv, TypeInv, Begin, Set
<1>1. /\ n \in ReqType /\ n.pc = "load" /\ n.key = environment /\ n.begun = changes
      /\ (holder = None => n.owns /\ ~n.loaded) /\ (holder # None => ~n.owns /\ n.loaded)
      /\ n.cond = holder
      /\ n.result = req[r].result
  <2>1. CASE holder = None
    <3>1. n = [req[r] EXCEPT !.pc = "load", !.key = environment, !.begun = changes,
                             !.owns = TRUE, !.loaded = FALSE, !.cond = None]
      BY Zenon, <2>1
    <3>2. req[r] \in ReqType /\ holder \in Requests \cup {None}
      BY Zenon, <1>0
    <3> HIDE DEF n, holder
    <3>3. n \in ReqType
      BY Zenon, <1>0, <3>1, <3>2 DEF ReqType, Places
    <3>4. n.pc = "load" /\ n.key = environment /\ n.begun = changes /\ n.owns = TRUE
          /\ n.loaded = FALSE /\ n.cond = holder /\ n.result = req[r].result
      BY Zenon, <2>1, <3>1, <3>2 DEF ReqType
    <3> QED BY Zenon, <2>1, <3>3, <3>4
  <2>2. CASE holder # None
    <3>1. n = [req[r] EXCEPT !.pc = "load", !.key = environment, !.begun = changes,
                             !.owns = FALSE, !.loaded = TRUE, !.cond = holder]
      BY Zenon, <2>2
    <3>2. req[r] \in ReqType /\ holder \in Requests \cup {None}
      BY Zenon, <1>0
    <3> HIDE DEF n, holder
    <3>3. n \in ReqType
      BY Zenon, <1>0, <3>1, <3>2 DEF ReqType, Places
    <3>4. n.pc = "load" /\ n.key = environment /\ n.begun = changes /\ n.owns = FALSE
          /\ n.loaded = TRUE /\ n.cond = holder /\ n.result = req[r].result
      BY Zenon, <2>2, <3>1, <3>2 DEF ReqType
    <3> QED BY Zenon, <2>2, <3>3, <3>4
  <2> QED BY Zenon, <2>1, <2>2
<1> HIDE DEF n
<1>2. req'[r] = n /\ \A o \in Requests : o # r => req'[o] = req[o]
  BY Zenon, <1>0
<1>3. ~req[r].owns /\ req[r].result = "none"
  BY Zenon, <1>0 DEF IInv, LockHeld, CalmInv
<1>4. holder # None => holder \in Requests /\ holder # r /\ req[holder].owns /\ req[holder].key = environment
  BY <1>0, <1>3 DEF IInv, LockHeld
<1>5. \A o \in Requests : req[o].cond # r
  BY Zenon, <1>0, <1>3, NoneIsNoRequest DEF IInv, CondInv
<1>t. TypeInv'
  BY Zenon, <1>0, <1>1 DEF IInv, TypeInv
<1>l. LockHeld'
  <2>0. /\ \A e \in Envs : e # environment => cacheLock'[e] = cacheLock[e]
        /\ cacheLock'[environment] = IF holder = None THEN r ELSE holder
    BY Zenon, <1>0
  <2>1. ASSUME NEW e \in Envs, cacheLock'[e] # None
        PROVE  req'[cacheLock'[e]].owns /\ req'[cacheLock'[e]].key = e
    <3>1. CASE e = environment /\ holder = None
      BY Zenon, <1>1, <1>2, <2>0, <3>1
    <3>2. CASE e # environment \/ holder # None
      <4>1. cacheLock'[e] = cacheLock[e] /\ cacheLock[e] \in Requests
        BY Zenon, <1>0, <2>0, <2>1, <3>2
      <4>2. req[cacheLock[e]].owns /\ req[cacheLock[e]].key = e
        BY Zenon, <2>1, <4>1 DEF IInv, LockHeld
      <4> QED BY <1>2, <1>3, <4>1, <4>2
    <3> QED BY Zenon, <3>1, <3>2
  <2>2. ASSUME NEW o \in Requests, req'[o].owns
        PROVE  cacheLock'[req'[o].key] = o /\ req'[o].pc \in Holding
    <3>1. CASE o = r
      BY Zenon, <1>1, <1>2, <2>0, <2>2, <3>1 DEF Holding
    <3>2. CASE o # r
      <4>1. cacheLock[req[o].key] = o /\ req[o].pc \in Holding /\ req[o].key \in Envs
        BY <1>0, <1>2, <2>2, <3>2 DEF IInv, LockHeld, Holding, ReqType
      <4>2. cacheLock'[req[o].key] = o
        BY Zenon, <2>0, <4>1, NoneIsNoRequest
      <4> QED BY Zenon, <1>2, <3>2, <4>1, <4>2
    <3> QED BY Zenon, <3>1, <3>2
  <2>3. \A o \in Requests : req'[o].loaded => req'[o].cond # None
    BY <1>1, <1>2 DEF IInv, LockHeld
  <2> QED BY Zenon, <2>1, <2>2, <2>3 DEF LockHeld, Holding
<1>c. CondInv'
  <2> SUFFICES ASSUME NEW o \in Requests
               PROVE  /\ req'[o].owns => ~req'[o].loaded
                      /\ req'[o].cond # None =>
                           /\ req'[req'[o].cond].owns \/ req'[req'[o].cond].pc = "done"
                           /\ ~req'[o].loaded => req'[req'[o].cond].pc = "done"
    BY Zenon DEF CondInv
  <2>1. CASE o = r
    BY Zenon, <1>1, <1>2, <1>4, <2>1
  <2>2. CASE o # r
    <3>1. req'[o] = req[o] /\ req[o].cond # r /\ req[o].cond \in Requests \cup {None}
      BY Zenon, <1>0, <1>2, <1>5, <2>2 DEF ReqType
    <3> QED BY <1>2, <3>1 DEF IInv, CondInv
  <2> QED BY Zenon, <2>1, <2>2
<1>6. ASSUME NEW o \in Requests, NEW w \in Requests, req'[o].cond = w, ~req'[o].loaded
      PROVE  o # r /\ w # r /\ req'[o] = req[o] /\ req'[w] = req[w]
  BY Zenon, <1>1, <1>2, <1>5, <1>6, NoneIsNoRequest
<1>m. CalmInv'
  <2>1. \A o \in Requests : req'[o].pc \notin {"leave", "done"} => req'[o].result = "none"
    BY Zenon, <1>1, <1>2, <1>3 DEF IInv, CalmInv
  <2>2. \A o \in calm' : /\ req'[o].pc # "idle"
                         /\ req'[o].pc # "done" => req'[o].key = environment
                         /\ req'[o].result = "stored" => cache[environment].age = "fresh"
    BY <1>0, <1>1, <1>2, <1>3 DEF IInv, CalmInv
  <2>3. \A o, w \in Requests : req'[o].cond = w /\ ~req'[o].loaded /\ w \in calm' =>
                               req'[o].key = environment
    BY Zenon, <1>0, <1>6 DEF IInv, CalmInv
  <2> QED BY Zenon, <1>0, <2>1, <2>2, <2>3 DEF CalmInv
<1>w. WaitersServed'
  <2> SUFFICES ASSUME NEW o \in Requests, NEW w \in Requests, req'[o].cond = w, ~req'[o].loaded,
                      req'[w].result = "stored", w \in calm'
               PROVE  req'[o].pc \notin {"check", "query", "finish"}
    BY Zenon DEF WaitersServed
  <2>1. o # r /\ w # r /\ req'[o] = req[o] /\ req'[w] = req[w] /\ w \in calm
    BY Zenon, <1>0, <1>6
  <2> QED BY Zenon, <2>1 DEF IInv, WaitersServed
<1>e. EnvInv'
  BY <1>0, <1>1, <1>2 DEF IInv, EnvInv, RefreshInv, Asked, Got
<1>k. EnvMatches'
  BY Zenon, <1>0 DEF IInv, EnvMatches
<1> QED BY Zenon, <1>t, <1>l, <1>c, <1>m, <1>w, <1>e, <1>k DEF IInv

\* A request that leaves gives its lock back and may start a refresh.
LEMMA LeaveStep ==
    ASSUME IInv, NEW r \in Requests, Leave(r) PROVE IInv'
<1> DEFINE s == req[r]
           n == [NewRequest EXCEPT !.pc = "done", !.result = s.result]
           started == [NoRefresh EXCEPT !.pc = "query", !.checked = r \in Checked, !.begun = s.begun]
<1>0. /\ req \in [Requests -> ReqType] /\ s \in ReqType /\ s.pc = "leave"
      /\ cacheLock \in [Envs -> Requests \cup {None}]
      /\ backgroundRefresh \in [Envs -> RefreshType]
      /\ req' = [req EXCEPT ![r] = n]
      /\ cacheLock' = [e \in Envs |-> IF s.owns /\ e = s.key THEN None ELSE cacheLock[e]]
      /\ \/ backgroundRefresh' = backgroundRefresh
         \/ backgroundRefresh' = [backgroundRefresh EXCEPT ![s.key] = started]
      /\ UNCHANGED <<environment, changes, cache, rdrc, calm>>
  BY Zenon DEF IInv, TypeInv, Leave, Return, Set, release, backgroundRefreshDNS
<1>1. n \in ReqType /\ n.pc = "done" /\ ~n.owns /\ ~n.loaded /\ n.cond = None /\ n.result = s.result
  BY ZenonT(40), <1>0, EnvsKnown DEF NewRequest, ReqType, Places, Answers
<1>2. started \in RefreshType /\ started.pc = "query" /\ started.begun = s.begun
  <2>1. (r \in Checked) \in BOOLEAN /\ s.begun \in Nat
    BY <1>0 DEF ReqType
  <2> QED BY Zenon, <2>1, EnvsKnown DEF NoRefresh, RefreshType, Answers
<1> HIDE DEF n, started
<1>3. req'[r] = n /\ \A o \in Requests : o # r => req'[o] = req[o]
  BY Zenon, <1>0
<1>4. \A o \in Requests : /\ (req'[o].loaded \/ req'[o].owns => req'[o] = req[o])
                          /\ (req'[o].cond # None \/ req'[o].pc # "done" => req'[o] = req[o])
                          /\ req'[o].result = req[o].result
                          /\ (req'[o].pc = req[o].pc \/ (req'[o].pc = "done" /\ req[o].pc = "leave"))
                          /\ (req'[o].owns => req[o].owns /\ o # r)
                          /\ (req[o].owns => req'[o].owns \/ o = r)
  BY Zenon, <1>0, <1>1, <1>3
<1>5. s.key \in Envs
  BY Zenon, <1>0 DEF ReqType
<1>t. TypeInv'
  BY Zenon, <1>0, <1>1, <1>2 DEF IInv, TypeInv
<1>l. LockHeld'
  <2>1. ASSUME NEW e \in Envs, cacheLock'[e] # None
        PROVE  req'[cacheLock'[e]].owns /\ req'[cacheLock'[e]].key = e
    <3>1. cacheLock'[e] = cacheLock[e] /\ cacheLock[e] \in Requests /\ ~(s.owns /\ e = s.key)
      BY Zenon, <1>0, <2>1
    <3>2. req[cacheLock[e]].owns /\ req[cacheLock[e]].key = e
      BY Zenon, <2>1, <3>1 DEF IInv, LockHeld
    <3>3. cacheLock[e] # r
      BY Zenon, <3>1, <3>2
    <3> QED BY <1>4, <3>1, <3>2, <3>3
  <2>2. ASSUME NEW o \in Requests, req'[o].owns
        PROVE  cacheLock'[req'[o].key] = o /\ req'[o].pc \in Holding
    <3>1. o # r /\ req'[o] = req[o] /\ req[o].owns /\ req[o].key \in Envs
      BY Zenon, <1>0, <1>3, <1>4, <2>2 DEF ReqType
    <3>2. cacheLock[req[o].key] = o /\ req[o].pc \in Holding
      BY Zenon, <3>1 DEF IInv, LockHeld, Holding
    <3>3. s.owns => cacheLock[s.key] = r
      BY Zenon DEF IInv, LockHeld
    <3>4. ~(s.owns /\ req[o].key = s.key)
      BY Zenon, <3>1, <3>2, <3>3
    <3> QED BY Zenon, <1>0, <3>1, <3>2, <3>4
  <2>3. \A o \in Requests : req'[o].loaded => req'[o].cond # None
    BY <1>4 DEF IInv, LockHeld
  <2> QED BY Zenon, <2>1, <2>2, <2>3 DEF LockHeld, Holding
<1>c. CondInv'
  <2> SUFFICES ASSUME NEW o \in Requests
               PROVE  /\ req'[o].owns => ~req'[o].loaded
                      /\ req'[o].cond # None =>
                           /\ req'[req'[o].cond].owns \/ req'[req'[o].cond].pc = "done"
                           /\ ~req'[o].loaded => req'[req'[o].cond].pc = "done"
    BY Zenon DEF CondInv
  <2>1. req'[o].owns => ~req'[o].loaded
    BY Zenon, <1>4 DEF IInv, CondInv
  <2>2. ASSUME req'[o].cond # None
        PROVE  /\ req'[req'[o].cond].owns \/ req'[req'[o].cond].pc = "done"
               /\ ~req'[o].loaded => req'[req'[o].cond].pc = "done"
    <3>1. PICK w \in Requests : w = req'[o].cond /\ w = req[o].cond
      BY <1>0, <1>4, <2>2 DEF ReqType
    <3>2. (req[w].owns \/ req[w].pc = "done") /\ (~req[o].loaded => req[w].pc = "done")
      BY Zenon, <3>1, NoneIsNoRequest DEF IInv, CondInv
    <3>3. req[w].pc = "done" => req'[w].pc = "done"
      BY Zenon, <1>4
    <3>4. w = r => req'[w].pc = "done"
      BY Zenon, <1>1, <1>3
    <3>5. req'[o] = req[o]
      BY Zenon, <1>4, <2>2
    <3> QED BY Zenon, <1>4, <3>1, <3>2, <3>3, <3>4, <3>5
  <2> QED BY Zenon, <2>1, <2>2
<1>m. CalmInv'
  <2>1. \A o \in Requests : req'[o].pc \notin {"leave", "done"} => req'[o].result = "none"
    BY Zenon, <1>4 DEF IInv, CalmInv
  <2>2. \A o \in calm : /\ req'[o].pc # "idle"
                        /\ req'[o].pc # "done" => req'[o].key = environment
                        /\ req'[o].result = "stored" => cache[environment].age = "fresh"
    BY <1>0, <1>4 DEF IInv, TypeInv, CalmInv
  <2>3. \A o, w \in Requests : req'[o].cond = w /\ ~req'[o].loaded /\ w \in calm =>
                               req'[o].key = environment
    BY <1>4, NoneIsNoRequest DEF IInv, CalmInv
  <2> QED BY Zenon, <1>0, <2>1, <2>2, <2>3 DEF CalmInv
<1>w. WaitersServed'
  BY <1>0, <1>4 DEF IInv, WaitersServed
<1>e. EnvInv'
  <2>1. Asked(s.key, s.begun)
    BY Zenon, <1>0 DEF IInv, EnvInv, RefreshInv
  <2>2. RefreshInv'
    BY <1>0, <1>2, <1>5, <2>1 DEF IInv, EnvInv, RefreshInv, Asked, Got
  <2>3. ASSUME NEW o \in Requests, req'[o].pc # "done"
        PROVE  /\ req'[o] = req[o]
               /\ req'[o].pc # "idle" => Asked(req[o].key, req[o].begun)
               /\ req'[o].pc = "finish" => Got(req[o].key, req[o].begun, req[o].from)
    BY Zenon, <1>4, <2>3 DEF IInv, EnvInv, RefreshInv
  <2>4. \A key, begun, from :
            /\ Asked(key, begun)' <=> Asked(key, begun)
            /\ Got(key, begun, from)' <=> Got(key, begun, from)
    BY Zenon, <1>0 DEF Asked, Got
  <2>5. ASSUME NEW o \in Requests
        PROVE  /\ req'[o].pc \notin {"idle", "done"} => Asked(req'[o].key, req'[o].begun)
               /\ req'[o].pc = "finish" => Got(req'[o].key, req'[o].begun, req'[o].from)
    BY Zenon, <2>3
  <2> QED BY Zenon, <2>2, <2>4, <2>5 DEF EnvInv
<1>k. EnvMatches'
  BY Zenon, <1>0 DEF IInv, EnvMatches
<1> QED BY Zenon, <1>t, <1>l, <1>c, <1>m, <1>w, <1>e, <1>k DEF IInv

-----------------------------------------------------------------------------
(* Steps of the refreshes, the cache and the network *)

\* A step that leaves the requests and the network alone.
LEMMA OutsideStep ==
    ASSUME IInv, CacheStep, UNCHANGED <<environment, changes, cacheLock, req>>,
           rdrc' \in BOOLEAN, backgroundRefresh' \in [Envs -> RefreshType], RefreshInv'
    PROVE  IInv'
<1>1. TypeInv'
  BY Zenon DEF IInv, TypeInv, CacheStep
<1>2. LockHeld' /\ CondInv'
  BY Zenon DEF IInv, LockHeld, CondInv
<1>3. CalmInv' /\ WaitersServed'
  <2>1. calm' \subseteq calm
        /\ (calm' = {} \/ (cache[environment].age = "fresh" => cache'[environment].age = "fresh"))
    BY Zenon DEF CacheStep
  <2> QED BY Zenon, <2>1 DEF IInv, CalmInv, WaitersServed
<1>4. EnvInv'
  BY Zenon DEF IInv, EnvInv, RefreshInv, Asked, Got
<1> QED BY Zenon, <1>1, <1>2, <1>3, <1>4 DEF IInv, CacheStep

\* The refresh goroutine.
LEMMA RefreshSteps ==
    ASSUME IInv, NEW e \in Envs, RefreshAnswer(e) \/ RefreshFinish(e) PROVE IInv'
<1> DEFINE s == backgroundRefresh[e]
<1>0. s \in RefreshType /\ environment \in Envs /\ backgroundRefresh \in [Envs -> RefreshType]
      /\ (s.pc # "off" => Asked(e, s.begun)) /\ (s.pc = "finish" => Got(e, s.begun, s.from))
  BY Zenon DEF IInv, TypeInv, EnvInv, RefreshInv
<1>1. CASE RefreshAnswer(e)
  <2>1. PICK answer \in Answers :
          backgroundRefresh' = [backgroundRefresh EXCEPT ![e].pc = "finish", ![e].answer = answer,
                                                         ![e].from = environment]
    BY Zenon, <1>1 DEF RefreshAnswer
  <2> DEFINE n == [s EXCEPT !.pc = "finish", !.answer = answer, !.from = environment]
  <2>2. backgroundRefresh' = [backgroundRefresh EXCEPT ![e] = n]
    BY Zenon, <1>0, <2>1
  <2>3. n \in RefreshType /\ n.begun = s.begun /\ n.from = environment
    BY Zenon, <1>0 DEF RefreshType
  <2> HIDE DEF n
  <2>4. s.pc = "query" /\ UNCHANGED <<environment, changes, cache, cacheLock, rdrc, req, calm>>
    BY Zenon, <1>1 DEF RefreshAnswer
  <2>5. Asked(e, s.begun) /\ (changes \in Nat /\ s.begun \in Nat)
    BY Zenon, <1>0, <2>4 DEF RefreshType, IInv, TypeInv
  <2>6. RefreshInv'
    BY Zenon, <1>0, <2>2, <2>3, <2>4, <2>5 DEF IInv, EnvInv, RefreshInv, Asked, Got
  <2>7. CacheStep
    BY Zenon, <2>4 DEF CacheStep, IInv, TypeInv, EnvMatches
  <2>8. rdrc' \in BOOLEAN /\ backgroundRefresh' \in [Envs -> RefreshType]
    BY Zenon, <1>0, <2>2, <2>3, <2>4 DEF IInv, TypeInv
  <2> QED BY Zenon, <2>4, <2>6, <2>7, <2>8, OutsideStep
<1>2. CASE RefreshFinish(e)
  <2> DEFINE store == ~(s.checked /\ s.answer \in {"servfail", "bad"}) /\ Cachable(s.answer)
  <2>1. /\ s.pc = "finish" /\ backgroundRefresh' = [backgroundRefresh EXCEPT ![e] = NoRefresh]
        /\ IF store THEN storeCache(e, s.answer, s.from, s.begun) ELSE UNCHANGED cache
        /\ UNCHANGED <<environment, changes, cacheLock, req, calm>>
    BY Zenon, <1>2 DEF RefreshFinish
  <2>2. rdrc' \in BOOLEAN
    BY Zenon, <1>2 DEF RefreshFinish
  <2>3. CacheStep
    <3>1. CASE store
      <4>1. s.from \in Envs /\ s.begun \in Nat /\ storeCache(e, s.answer, s.from, s.begun)
        BY Zenon, <1>0, <2>1, <3>1 DEF RefreshType
      <4> QED BY Zenon, <1>0, <2>1, <4>1, StoreMatches DEF CacheStep
    <3>2. CASE ~store
      BY Zenon, <2>1, <3>2 DEF CacheStep, IInv, TypeInv, EnvMatches
    <3> QED BY Zenon, <3>1, <3>2
  <2>4. NoRefresh \in RefreshType /\ NoRefresh.pc = "off"
    BY Zenon, EnvsKnown DEF NoRefresh, RefreshType, Answers
  <2>5. backgroundRefresh' \in [Envs -> RefreshType] /\ RefreshInv'
    BY Zenon, <1>0, <2>1, <2>4 DEF IInv, EnvInv, RefreshInv, Asked, Got
  <2> QED BY Zenon, <2>1, <2>2, <2>3, <2>5, OutsideStep
<1> QED BY Zenon, <1>1, <1>2

\* Entries are lost or age, rejections are forgotten.
LEMMA CacheSteps ==
    ASSUME IInv, NEW e \in Envs, ClearCache \/ Evict(e) \/ Age(e) \/ ForgetRDRC PROVE IInv'
<1>1. NoEntry \in EntryType /\ NoEntry.age = "none"
  BY Zenon, EnvsKnown DEF NoEntry, EntryType, Ages
<1>2. UNCHANGED <<environment, changes, cacheLock, backgroundRefresh, req>>
  BY Zenon DEF ClearCache, Evict, Age, ForgetRDRC
<1>3. rdrc' \in BOOLEAN
  BY Zenon DEF ClearCache, Evict, Age, ForgetRDRC, IInv, TypeInv
<1>4. CacheStep
  <2>0. cache \in [Envs -> EntryType] /\ EnvMatches
    BY Zenon DEF IInv, TypeInv
  <2>1. CASE ClearCache \/ Evict(e)
    BY Zenon, <1>1, <2>0, <2>1 DEF ClearCache, Evict, CacheStep, EnvMatches
  <2>2. CASE Age(e)
    <3> DEFINE n == [cache[e] EXCEPT !.age = IF cache[e].age = "fresh" THEN "stale" ELSE "old"]
    <3>1. cache' = [cache EXCEPT ![e] = n] /\ calm' = {} /\ cache[e].age # "none"
      BY Zenon, <2>0, <2>2 DEF Age
    <3>2. n \in EntryType /\ n.from = cache[e].from /\ n.steady = cache[e].steady
      BY <2>0 DEF EntryType, Ages
    <3> HIDE DEF n
    <3> QED BY Zenon, <2>0, <3>1, <3>2 DEF CacheStep, EnvMatches
  <2>3. CASE ForgetRDRC
    BY Zenon, <2>0, <2>3 DEF ForgetRDRC, CacheStep, EnvMatches
  <2> QED BY Zenon, <2>1, <2>2, <2>3
<1>5. backgroundRefresh' \in [Envs -> RefreshType] /\ RefreshInv'
  BY Zenon, <1>2 DEF IInv, TypeInv, EnvInv, RefreshInv, Asked, Got
<1> QED BY Zenon, <1>2, <1>3, <1>4, <1>5, OutsideStep

\* What was asked and got before a change of the network, after it.
LEMMA Shift ==
    ASSUME changes \in Nat, changes' = changes + 1, NEW key \in Envs, NEW begun \in Nat,
           NEW from, Asked(key, begun)
    PROVE  Asked(key, begun)' /\ (Got(key, begun, from) => Got(key, begun, from)')
BY DEF Asked, Got

\* The network changes.
LEMMA ChangeStep ==
    ASSUME IInv, EnvironmentChange PROVE IInv'
<1>0. /\ changes \in Nat /\ changes' = changes + 1 /\ environment' \in Envs /\ calm' = {}
      /\ UNCHANGED <<cache, cacheLock, backgroundRefresh, rdrc, req>>
      /\ req \in [Requests -> ReqType] /\ backgroundRefresh \in [Envs -> RefreshType]
  BY Zenon DEF EnvironmentChange, IInv, TypeInv
<1>1. TypeInv'
  BY <1>0 DEF IInv, TypeInv
<1>2. LockHeld' /\ CondInv' /\ CalmInv' /\ WaitersServed' /\ EnvMatches'
  BY Zenon, <1>0 DEF IInv, LockHeld, CondInv, CalmInv, WaitersServed, EnvMatches
<1>3. EnvInv'
  <2>1. ASSUME NEW r \in Requests
        PROVE  /\ req[r].pc \notin {"idle", "done"} => Asked(req[r].key, req[r].begun)'
               /\ req[r].pc = "finish" => Got(req[r].key, req[r].begun, req[r].from)'
    <3>1. PICK key \in Envs, begun \in Nat, from \in Envs :
            key = req[r].key /\ begun = req[r].begun /\ from = req[r].from
      BY Zenon, <1>0 DEF ReqType
    <3>2. /\ req[r].pc \notin {"idle", "done"} => Asked(key, begun)
          /\ req[r].pc = "finish" => Got(key, begun, from)
      BY Zenon, <3>1 DEF IInv, EnvInv, RefreshInv
    <3>3. /\ req[r].pc \notin {"idle", "done"} => Asked(key, begun)'
          /\ req[r].pc = "finish" => Got(key, begun, from)'
      BY Zenon, <1>0, <3>2, Shift
    <3> QED BY Zenon, <1>0, <3>1, <3>3 DEF Asked, Got
  <2>2. ASSUME NEW e \in Envs
        PROVE  /\ backgroundRefresh[e].pc # "off" => Asked(e, backgroundRefresh[e].begun)'
               /\ backgroundRefresh[e].pc = "finish" =>
                    Got(e, backgroundRefresh[e].begun, backgroundRefresh[e].from)'
    <3>1. PICK begun \in Nat, from \in Envs :
            begun = backgroundRefresh[e].begun /\ from = backgroundRefresh[e].from
      BY Zenon, <1>0 DEF RefreshType
    <3>2. /\ backgroundRefresh[e].pc # "off" => Asked(e, begun)
          /\ backgroundRefresh[e].pc = "finish" => Got(e, begun, from)
      BY Zenon, <3>1 DEF IInv, EnvInv, RefreshInv
    <3>3. /\ backgroundRefresh[e].pc # "off" => Asked(e, begun)'
          /\ backgroundRefresh[e].pc = "finish" => Got(e, begun, from)'
      BY Zenon, <1>0, <3>2, Shift
    <3> QED BY Zenon, <1>0, <3>1, <3>3 DEF Asked, Got
  <2> QED BY Zenon, <1>0, <2>1, <2>2 DEF EnvInv, RefreshInv, Asked, Got
<1> QED BY Zenon, <1>1, <1>2, <1>3 DEF IInv

-----------------------------------------------------------------------------
(* The theorems *)

\* The invariant: types, the lock and who waits for it, what calm means, what
\* queries under way were asked for, and the three properties below.
THEOREM Invariance == Spec => []IInv
<1>1. Init => IInv
  <2> SUFFICES ASSUME Init PROVE IInv
    BY Zenon
  <2>0. /\ NoEntry \in EntryType /\ NoEntry.age = "none"
        /\ NoRefresh \in RefreshType /\ NoRefresh.pc = "off"
        /\ NewRequest \in ReqType /\ NewRequest.pc = "idle" /\ ~NewRequest.owns
        /\ ~NewRequest.loaded /\ NewRequest.cond = None /\ NewRequest.result = "none"
    BY Zenon, EnvsKnown DEF NoEntry, EntryType, Ages, NoRefresh, RefreshType, NewRequest, ReqType,
                     Places, Results, Answers
  <2>1. TypeInv
    BY Zenon, <2>0, EnvsKnown DEF Init, TypeInv
  <2>2. LockHeld /\ CondInv
    BY Zenon, <2>0 DEF Init, LockHeld, CondInv
  <2>3. CalmInv /\ WaitersServed
    BY Zenon, <2>0 DEF Init, CalmInv, WaitersServed
  <2>4. EnvInv /\ EnvMatches
    BY Zenon, <2>0 DEF Init, EnvInv, RefreshInv, EnvMatches
  <2> QED BY Zenon, <2>1, <2>2, <2>3, <2>4 DEF IInv
<1>2. IInv /\ [Next]_vars => IInv'
  <2> SUFFICES ASSUME IInv, [Next]_vars PROVE IInv'
    BY Zenon
  <2>1. ASSUME NEW r \in Requests, Start(r) \/ Step(r) \/ CtxDone(r) PROVE IInv'
    BY Zenon, <2>1, PlainSteps, LoadSteps, FinishStep, BeginStep, LeaveStep DEF Step
  <2>2. ASSUME NEW e \in Envs, RefreshAnswer(e) \/ RefreshFinish(e) \/ Evict(e) \/ Age(e) PROVE IInv'
    BY Zenon, <2>2, RefreshSteps, CacheSteps
  <2>3. CASE ClearCache \/ ForgetRDRC
    BY Zenon, <2>3, CacheSteps, EnvsKnown
  <2>4. CASE EnvironmentChange
    BY Zenon, <2>4, ChangeStep
  <2>5. CASE UNCHANGED vars
    BY Zenon, <2>5 DEF vars, IInv, TypeInv, LockHeld, CondInv, CalmInv, WaitersServed, EnvInv, RefreshInv,
                EnvMatches, Asked, Got
  <2> QED BY Zenon, <2>1, <2>2, <2>3, <2>4, <2>5 DEF Next
<1> QED BY <1>1, <1>2, PTL DEF Spec

\* Whatever is asked, fails, is rejected or is given up, a lock in the map of
\* the client belongs to exactly one request that has not returned.
THEOREM LocksAreOwned == Spec => []LockHeld
BY Invariance, PTL DEF IInv

\* Requests that wait for an answer are served from it.
THEOREM WaitersAreServed == Spec => []WaitersServed
BY Invariance, PTL DEF IInv

\* Answers are stored for the network they were given in, unless the network
\* changed twice during the query.
THEOREM EntriesMatch == Spec => []EnvMatches
BY Invariance, PTL DEF IInv
=============================================================================
