-------------------------- MODULE MuxService_proofs --------------------------
(***************************************************************************)
(* The multiplexer implements QueryService for any number of queries,       *)
(* connections and resets, as long as register does not come round to the   *)
(* ID of a run inside write or of a request to which a response may still   *)
(* come or is about to be looked up (IDs of answered requests are free).    *)
(* Once keepIdle is cleared, it closes every connection nobody uses: a      *)
(* connection is shared only while a client that will call back waits for   *)
(* it or holds it, until a response is delivered, and then a sweep is due.  *)
(***************************************************************************)
EXTENDS Multiplexer_proofs

Answers == {<<>>, <<"error">>} \cup {<<q>> : q \in Queries}

\* While a query is asked one of its runs is responsible for it; the second
\* run starts when the first has given up its responsibility.
QueryInv(q) ==
    LET first == Responsible(<<q, 1>>)
        second == Responsible(<<q, 2>>) IN
    /\ task[<<q, 1>>] = "new" => answers[q] = <<>> /\ task[<<q, 2>>] = "new"
    /\ task[<<q, 2>>] # "new" => ~first
    /\ task[<<q, 1>>] # "new" /\ answers[q] = <<>> => (first \/ second) /\ ~(first /\ second)
    /\ answers[q] # <<>> => answers[q] \in {<<q>>, <<"error">>} /\ ~first /\ ~second

ServiceInv == answers \in [Queries -> Answers] /\ \A q \in Queries : QueryInv(q)

USE NoConnFresh, NoRunFresh, MaxIdNat

-----------------------------------------------------------------------------
(* What a step does to the responsibility for queries *)

DutySame(k) == (task'[k] = "new" <=> task[k] = "new") /\ (Responsible(k)' <=> Responsible(k))

\* Of all runs, only those of q are concerned.
OnlyQuery(q) == \A k \in Clients : Query(k) # q => DutySame(k)

Passes == answers' = answers /\ \A k \in Clients : DutySame(k)

Asks(q) ==
    /\ task[<<q, 1>>] = "new" /\ task'[<<q, 1>>] # "new"
    /\ Responsible(<<q, 1>>)' /\ ~Responsible(<<q, 2>>)
    /\ DutySame(<<q, 2>>) /\ OnlyQuery(q)
    /\ answers' = answers

CallsBack(k, what) ==
    /\ Responsible(k) /\ ~Responsible(k)' /\ task[k] # "new" /\ task'[k] # "new"
    /\ \A l \in Clients \ {k} : DutySame(l)
    /\ what \in {Query(k), "error"}
    /\ answers' = [answers EXCEPT ![Query(k)] = Append(@, what)]

HandsOver(q) ==
    /\ Responsible(<<q, 1>>) /\ ~Responsible(<<q, 1>>)'
    /\ task[<<q, 1>>] # "new" /\ task'[<<q, 1>>] # "new"
    /\ Responsible(<<q, 2>>)' /\ task'[<<q, 2>>] # "new"
    /\ OnlyQuery(q)
    /\ answers' = answers

ServiceStep ==
    \/ Passes
    \/ \E q \in Queries : Asks(q) \/ HandsOver(q)
    \/ \E k \in Clients, what \in Queries \cup {"error"} : CallsBack(k, what)

\* A query the step does not concern.
LEMMA QueryFrame ==
    ASSUME NEW q \in Queries, QueryInv(q), answers'[q] = answers[q],
           DutySame(<<q, 1>>), DutySame(<<q, 2>>)
    PROVE  QueryInv(q)'
  BY Zenon DEF QueryInv, DutySame

\* The invariant fixes the outcome of a query.
OutcomeFixed ==
    \A q \in Queries : QueryInv(q) =>
        Outcome(q) = IF answers[q] = <<>>
                     THEN IF task[<<q, 1>>] = "new" THEN "unasked" ELSE "asked"
                     ELSE IF answers[q] = <<q>> THEN "response" ELSE "error"

\* Only one case of Outcome is left.
LEMMA OutcomeOf == OutcomeFixed
<1> SUFFICES ASSUME NEW q \in Queries, QueryInv(q)
             PROVE  Outcome(q) = IF answers[q] = <<>>
                                 THEN IF task[<<q, 1>>] = "new" THEN "unasked" ELSE "asked"
                                 ELSE IF answers[q] = <<q>> THEN "response" ELSE "error"
  BY Zenon DEF OutcomeFixed
<1> DEFINE first == Responsible(<<q, 1>>)
           second == Responsible(<<q, 2>>)
           unasked == answers[q] = <<>> /\ task[<<q, 1>>] = "new"
           asked == answers[q] = <<>> /\ task[<<q, 1>>] # "new" /\ first # second
           response == answers[q] = <<q>> /\ ~first /\ ~second
           error == answers[q] = <<"error">> /\ ~first /\ ~second
<1>1. <<q>> # <<>> /\ <<"error">> # <<>> /\ <<q>> # <<"error">>
  BY Zenon, ErrorIsNoQuery
<1>2. Outcome(q) = CASE unasked -> "unasked" [] asked -> "asked" [] response -> "response"
                     [] error -> "error" [] OTHER -> "broken"
  BY Zenon DEF Outcome
<1>3. first \in BOOLEAN /\ second \in BOOLEAN
  BY Zenon DEF Responsible, Pending
<1>4. CASE answers[q] = <<>> /\ task[<<q, 1>>] = "new"
  BY Zenon, <1>1, <1>2, <1>4
<1>5. CASE answers[q] = <<>> /\ task[<<q, 1>>] # "new"
  <2>1. asked
    BY Zenon, <1>3, <1>5 DEF QueryInv
  <2> QED BY ZenonT(40), <1>1, <1>2, <1>5, <2>1
<1>6. CASE answers[q] # <<>>
  <2>1. answers[q] \in {<<q>>, <<"error">>} /\ ~first /\ ~second
    BY Zenon, <1>6 DEF QueryInv
  <2> HIDE DEF first, second
  <2> QED BY Zenon, <1>1, <1>2, <1>6, <2>1
<1> QED BY Zenon, <1>4, <1>5, <1>6

\* So it is after a step.
LEMMA OutcomeNext == OutcomeFixed'
  BY OutcomeOf, PTL

\* Queries the step does not concern keep their part of the invariant and their outcome.
LEMMA OtherQueries ==
    ASSUME ServiceInv, NEW q, OnlyQuery(q), \A p \in Queries \ {q} : answers'[p] = answers[p]
    PROVE  \A p \in Queries \ {q} : QueryInv(p)' /\ Outcome(p)' = Outcome(p)
<1> SUFFICES ASSUME NEW p \in Queries, p # q PROVE QueryInv(p)' /\ Outcome(p)' = Outcome(p)
  BY Zenon
<1>1. DutySame(<<p, 1>>) /\ DutySame(<<p, 2>>) /\ answers'[p] = answers[p]
  <2>1. /\ <<p, 1>> \in Clients /\ Query(<<p, 1>>) # q
        /\ <<p, 2>> \in Clients /\ Query(<<p, 2>>) # q
    BY Runs
  <2> QED BY Zenon, <2>1 DEF OnlyQuery
<1>2. QueryInv(p) /\ QueryInv(p)'
  BY Zenon, <1>1, QueryFrame DEF ServiceInv
<1> QED BY Zenon, <1>1, <1>2, OutcomeOf, OutcomeNext DEF DutySame, OutcomeFixed

\* A query is asked.
LEMMA ServiceAsks ==
    ASSUME ServiceInv, NEW q \in Queries, Asks(q)
    PROVE  /\ ServiceInv'
           /\ Outcome(q) = "unasked" /\ Outcome(q)' = "asked"
           /\ \A p \in Queries \ {q} : Outcome(p)' = Outcome(p)
<1>1. QueryInv(q) /\ answers[q] = <<>> /\ answers' = answers
  BY Zenon DEF ServiceInv, QueryInv, Asks
<1>2. QueryInv(q)'
  BY Zenon, <1>1 DEF QueryInv, Asks, DutySame
<1>3. \A p \in Queries \ {q} : QueryInv(p)' /\ Outcome(p)' = Outcome(p)
  BY Zenon, <1>1, OtherQueries DEF Asks
<1>4. ServiceInv'
  BY Zenon, <1>1, <1>2, <1>3 DEF ServiceInv
<1>5. Outcome(q) = "unasked"
  BY Zenon, <1>1, OutcomeOf DEF Asks, OutcomeFixed
<1>6. Outcome(q)' = "asked"
  BY Zenon, <1>1, <1>2, OutcomeNext DEF Asks, OutcomeFixed
<1> QED BY Zenon, <1>3, <1>4, <1>5, <1>6

\* The callback of a query runs.
LEMMA ServiceCallsBack ==
    ASSUME ServiceInv, NEW k \in Clients, NEW what \in Queries \cup {"error"}, CallsBack(k, what)
    PROVE  /\ ServiceInv'
           /\ answers'[Query(k)] = <<what>>
           /\ \A p \in Queries \ {Query(k)} : answers'[p] = answers[p]
           /\ answers[Query(k)] = <<>>
           /\ Outcome(Query(k)) = "asked" /\ Outcome(Query(k))' \in {"response", "error"}
           /\ \A p \in Queries \ {Query(k)} : Outcome(p)' = Outcome(p)
<1> DEFINE q == Query(k)
<1>1. q \in Queries /\ k \in {<<q, 1>>, <<q, 2>>} /\ <<q, 1>> # <<q, 2>>
  BY Zenon, Runs
<1> HIDE DEF q
<1>2. QueryInv(q) /\ answers[q] \in Answers /\ DOMAIN answers = Queries
  BY Zenon, <1>1 DEF ServiceInv
<1>3. answers[q] = <<>> /\ task[<<q, 1>>] # "new"
  BY Zenon, <1>1, <1>2 DEF QueryInv, CallsBack
<1>4. answers' = [answers EXCEPT ![q] = <<what>>] /\ <<what>> # <<>>
  BY <1>3 DEF CallsBack, q
<1>5. what \in {q, "error"}
  BY Zenon DEF CallsBack, q
<1>6. answers'[q] = <<what>> /\ \A p \in Queries \ {q} : answers'[p] = answers[p]
  BY Zenon, <1>1, <1>2, <1>4
<1>7. QueryInv(q)'
  <2>1. ~Responsible(<<q, 1>>)' /\ ~Responsible(<<q, 2>>)'
    BY Zenon, <1>1, <1>2, Runs DEF QueryInv, CallsBack, DutySame
  <2>2. task'[<<q, 1>>] # "new"
    BY Zenon, <1>1, <1>3, Runs DEF CallsBack, DutySame
  <2> QED BY ZenonT(40), <1>4, <1>5, <1>6, <2>1, <2>2 DEF QueryInv
<1>8. OnlyQuery(q)
  BY Zenon DEF OnlyQuery, CallsBack, q
<1>9. \A p \in Queries \ {q} : QueryInv(p)' /\ Outcome(p)' = Outcome(p)
  BY Zenon, <1>6, <1>8, OtherQueries
<1>10. answers' \in [Queries -> Answers]
  BY Zenon, <1>4, <1>5, <1>1 DEF ServiceInv, Answers
<1>11. ServiceInv'
  BY Zenon, <1>7, <1>9, <1>10 DEF ServiceInv
<1>12. Outcome(q) = "asked"
  BY Zenon, <1>1, <1>2, <1>3, OutcomeOf DEF OutcomeFixed
<1>13. Outcome(q)' \in {"response", "error"}
  BY Zenon, <1>1, <1>4, <1>6, <1>7, OutcomeNext DEF OutcomeFixed
<1> QED BY ZenonT(40), <1>3, <1>6, <1>9, <1>11, <1>12, <1>13 DEF q

\* The second run takes a query over.
LEMMA ServiceHandsOver ==
    ASSUME ServiceInv, NEW q \in Queries, HandsOver(q)
    PROVE  ServiceInv' /\ \A p \in Queries : Outcome(p)' = Outcome(p)
<1>1. QueryInv(q) /\ answers' = answers
  BY Zenon DEF ServiceInv, HandsOver
<1>2. QueryInv(q)'
  BY Zenon, <1>1 DEF QueryInv, HandsOver
<1>3. \A p \in Queries \ {q} : QueryInv(p)' /\ Outcome(p)' = Outcome(p)
  BY Zenon, <1>1, OtherQueries DEF HandsOver
<1>4. Outcome(q)' = Outcome(q)
  BY Zenon, <1>1, <1>2, OutcomeOf, OutcomeNext DEF HandsOver, OutcomeFixed
<1> QED BY Zenon, <1>1, <1>2, <1>3, <1>4 DEF ServiceInv

\* Every step that treats responsibility in one of these ways is one of QueryService.
LEMMA ServiceNext ==
    ASSUME ServiceInv, ServiceStep
    PROVE  ServiceInv' /\ [UNCHANGED [q \in Queries |-> Outcome(q)] \/ Service!Next]_[q \in Queries |-> Outcome(q)]
<1>1. CASE Passes
  <2>1. \A p \in Queries : answers'[p] = answers[p] /\ DutySame(<<p, 1>>) /\ DutySame(<<p, 2>>)
    BY Zenon, <1>1, Runs DEF Passes
  <2>2. \A p \in Queries : QueryInv(p) /\ QueryInv(p)'
    BY Zenon, <2>1, QueryFrame DEF ServiceInv
  <2>3. \A p \in Queries : Outcome(p)' = Outcome(p)
    <3> SUFFICES ASSUME NEW p \in Queries PROVE Outcome(p)' = Outcome(p)
      BY Zenon
    <3>1. answers'[p] = answers[p] /\ (task'[<<p, 1>>] = "new" <=> task[<<p, 1>>] = "new")
      BY Zenon, <2>1 DEF DutySame
    <3> QED BY ZenonT(40), <2>2, <3>1, OutcomeOf, OutcomeNext DEF OutcomeFixed
  <2> QED BY Zenon, <1>1, <2>2, <2>3 DEF ServiceInv, Passes
<1>2. ASSUME NEW q \in Queries, HandsOver(q)
      PROVE  ServiceInv' /\ UNCHANGED [p \in Queries |-> Outcome(p)]
  BY Zenon, <1>2, ServiceHandsOver
<1>3. ASSUME NEW q \in Queries, Asks(q) PROVE ServiceInv' /\ Service!Exchange(q)
  BY Zenon, <1>3, ServiceAsks DEF Service!Exchange
<1>4. ASSUME NEW k \in Clients, NEW what \in Queries \cup {"error"}, CallsBack(k, what)
      PROVE  ServiceInv' /\ Service!Callback(Query(k)) /\ Query(k) \in Queries
  BY Zenon, <1>4, ServiceCallsBack, Runs DEF Service!Callback
<1> QED BY Zenon, <1>1, <1>2, <1>3, <1>4 DEF ServiceStep, Service!Next

-----------------------------------------------------------------------------
(* Each action treats responsibility in one of these ways *)

\* A run whose place and entry are what they were.
LEMMA DutyFrame ==
    ASSUME NEW l \in Clients, task'[l] = task[l], Pending(l)' <=> Pending(l) PROVE DutySame(l)
  BY Zenon DEF DutySame, Responsible

\* A run that returns without its entry being taken, and one that goes on.
LEMMA SamePending ==
    ASSUME NEW k \in Clients, queries' = queries, \A l \in Clients \ {k} : task'[l] = task[l]
    PROVE  /\ Pending(k)' <=> Pending(k)
           /\ \A l \in Clients \ {k} : DutySame(l)
<1>1. \A l \in Clients : Pending(l)' <=> Pending(l)
  BY Zenon DEF Pending
<1> QED BY Zenon, <1>1, DutyFrame

\* Taking the entry of k changes the responsibility of k alone.
LEMMA TakenDuty ==
    ASSUME RunInv, NEW k \in Clients, NEW i \in Ids, queries[i] = k,
           queries' = [queries EXCEPT ![i] = NoRun]
    PROVE  /\ Pending(k) /\ ~Pending(k)' /\ task[k] \in {"write", "done"}
           /\ \A l \in Clients \ {k} : Pending(l)' <=> Pending(l)
<1>1. Pending(k) /\ ~Pending(k)' /\ \A l \in Clients, j \in Ids : queries'[j] = l => queries[j] = l
  BY Zenon, TakeEffect DEF Pending
<1>2. task[k] \in {"write", "done"}
  BY Zenon, <1>1 DEF RunInv, RunOK
<1>3. ASSUME NEW l \in Clients, l # k, Pending(l) PROVE Pending(l)'
  <2>1. PICK j \in Ids : queries[j] = l
    BY Zenon, <1>3 DEF Pending
  <2>2. queries'[j] = l
    BY Zenon, <1>3, <2>1 DEF RunInv, MuxTypes
  <2> QED BY Zenon, <2>2 DEF Pending
<1>4. ASSUME NEW l \in Clients, Pending(l)' PROVE Pending(l)
  BY Zenon, <1>1, <1>4 DEF Pending
<1> QED BY Zenon, <1>1, <1>2, <1>3, <1>4

\* A query is asked.
LEMMA KindExchange ==
    ASSUME RunInv, ServiceInv, NEW q \in Queries, ExchangeAsync(q) PROVE Asks(q)
<1> DEFINE k == <<q, 1>>
<1>1. k \in Clients /\ <<q, 2>> \in Clients /\ <<q, 2>> # k /\ Query(k) = q
  BY Zenon, Runs
<1>2. /\ task[k] = "new" /\ task' = [task EXCEPT ![k] = "acquire"]
      /\ answers' = answers /\ queries' = queries
  BY Zenon DEF ExchangeAsync, Goto, userVars, mapVars
<1>3. task'[k] = "acquire" /\ \A l \in Clients \ {k} : task'[l] = task[l]
  BY Zenon, <1>1, <1>2 DEF RunInv, MuxTypes
<1>4. \A l \in Clients \ {k} : DutySame(l)
  BY Zenon, <1>1, <1>2, <1>3, SamePending
<1>5. ~Responsible(<<q, 2>>)
  <2>1. task[<<q, 2>>] = "new"
    BY Zenon, <1>2 DEF ServiceInv, QueryInv
  <2>2. ~Pending(<<q, 2>>)
    BY ZenonT(40), <1>1, <2>1 DEF RunInv, RunOK
  <2> QED BY ZenonT(40), <2>1, <2>2 DEF Responsible
<1>6. Responsible(k)' /\ task'[k] # "new"
  BY Zenon, <1>3 DEF Responsible
<1>7. OnlyQuery(q)
  BY Zenon, <1>1, <1>4 DEF OnlyQuery
<1> QED BY ZenonT(40), <1>1, <1>2, <1>4, <1>5, <1>6, <1>7 DEF Asks

\* A run goes round or returns from AcquireShared, or calls it.
LEMMA KindAcquire ==
    ASSUME CoreInv, RunInv, NEW k \in Clients, exchangeAsync(k) \/ AcquireShared(k)
    PROVE  \/ Passes /\ Responsible(k) /\ pc'[k] # "idle"
           \/ CallsBack(k, "error") /\ pc'[k] = "idle"
<1>1. MuxTypes /\ RunOK(k)
  BY Zenon DEF RunInv
<1>2. queries' = queries /\ task[k] \in {"start", "acquire"} /\ ~Pending(k)
  BY Zenon, <1>1 DEF exchangeAsync, AcquireShared, mapVars, RunOK
<1>3. Responsible(k) /\ task[k] # "new"
  BY Zenon, <1>2 DEF Responsible
<1>4. CASE answers' = answers /\ \E where \in {"acquire", "register"} : task' = [task EXCEPT ![k] = where]
  <2>1. task'[k] \in {"acquire", "register"} /\ \A l \in Clients \ {k} : task'[l] = task[l]
    BY Zenon, <1>1, <1>4 DEF MuxTypes
  <2>2. Responsible(k)' /\ task'[k] # "new"
    BY Zenon, <2>1 DEF Responsible
  <2>3. Passes
    BY ZenonT(40), <1>2, <1>3, <1>4, <2>1, <2>2, SamePending DEF Passes, DutySame
  <2>4. pc'[k] # "idle"
    <3>1. CASE exchangeAsync(k)
      BY ZenonT(40), <3>1 DEF exchangeAsync, Acquire, Retry, CoreInv, CoreType
    <3>2. CASE AcquireShared(k)
      <4>1. ~EndRun(k)
        BY ZenonT(40), <1>1, <2>1 DEF EndRun, Goto, MuxTypes
      <4>2. pc'[k] \in {"acquire", "select", "holding"}
        BY Zenon, <3>2, <4>1 DEF AcquireShared
      <4> QED BY Zenon, <4>2
    <3> QED BY Zenon, <3>1, <3>2
  <2> QED BY Zenon, <1>3, <2>3, <2>4
<1>5. CASE answers' = answers /\ task' = task /\ pc'[k] \in {"acquire", "select"}
  <2>1. \A l \in Clients \ {k} : task'[l] = task[l]
    BY Zenon, <1>5
  <2>2. Passes
    BY ZenonT(40), <1>2, <1>5, <2>1, SamePending, DutyFrame DEF Passes
  <2> QED BY Zenon, <1>3, <1>5, <2>2
<1>6. CASE pc'[k] = "idle" /\ EndRun(k) /\ callback(Query(k), "error")
  <2>1. task'[k] = "done" /\ \A l \in Clients \ {k} : task'[l] = task[l]
    BY Zenon, <1>1, <1>6, Ends DEF Arrives
  <2>2. ~Pending(k)' /\ \A l \in Clients \ {k} : DutySame(l)
    BY ZenonT(40), <1>2, <2>1, SamePending
  <2>3. ~Responsible(k)' /\ task'[k] # "new"
    BY ZenonT(40), <2>1, <2>2 DEF Responsible
  <2> QED BY ZenonT(40), <1>3, <1>6, <2>2, <2>3 DEF CallsBack, callback
<1> QED
  BY ZenonT(40), <1>4, <1>5, <1>6 DEF exchangeAsync, AcquireShared, Goto, runVars, userVars

\* A run registers: the responsibility passes to its entry.
LEMMA KindRegister ==
    ASSUME RunInv, NEW k \in Clients, register(k) PROVE Passes
<1> DEFINE n == queryId'
<1>1. MuxTypes /\ task[k] = "register"
  BY Zenon DEF RunInv, register
<1>2. n \in Ids /\ queries[n] = NoRun
  BY Zenon DEF register, NextId, FreeIds
<1>3. /\ task' = [task EXCEPT ![k] = "write"] /\ answers' = answers
      /\ queries' = [queries EXCEPT ![n] = k]
  BY Zenon DEF register, Goto, userVars
<1> HIDE DEF n
<1>4. task'[k] = "write" /\ \A l \in Clients \ {k} : task'[l] = task[l]
  BY Zenon, <1>1, <1>3 DEF MuxTypes
<1>5. \A i \in Ids : queries'[i] = IF i = n THEN k ELSE queries[i]
  BY Zenon, <1>1, <1>3 DEF MuxTypes
<1>6. Pending(k)'
  BY Zenon, <1>2, <1>5 DEF Pending
<1>7. \A l \in Clients \ {k} : Pending(l)' <=> Pending(l)
  BY Zenon, <1>2, <1>5 DEF Pending
<1>8. DutySame(k)
  BY ZenonT(40), <1>1, <1>4, <1>6 DEF DutySame, Responsible
<1> QED BY ZenonT(40), <1>3, <1>4, <1>7, <1>8, DutyFrame DEF Passes

\* It fails to.
LEMMA KindRegisterFails ==
    ASSUME RunInv, NEW k \in Clients, registerFails(k) PROVE CallsBack(k, "error")
<1>1. MuxTypes /\ task[k] = "register" /\ ~Pending(k)
  BY Zenon DEF RunInv, RunOK, registerFails
<1>2. task'[k] = "done" /\ \A l \in Clients \ {k} : task'[l] = task[l]
  BY Zenon, <1>1, Ends DEF registerFails, Arrives
<1>3. ~Pending(k)' /\ \A l \in Clients \ {k} : DutySame(l)
  BY ZenonT(40), <1>1, <1>2, SamePending DEF registerFails, mapVars
<1>4. Responsible(k) /\ task[k] # "new" /\ ~Responsible(k)' /\ task'[k] # "new"
  BY ZenonT(40), <1>1, <1>2, <1>3 DEF Responsible
<1> QED BY Zenon, <1>3, <1>4 DEF CallsBack, callback, registerFails

\* A run returns from write; the responsibility is with the entry, if there is one.
LEMMA KindWrite ==
    ASSUME RunInv, NEW k \in Clients, write(k) \/ writeFailsStale(k) PROVE Passes
<1>1. /\ EndRun(k) /\ task[k] = "write" /\ queries' = queries /\ answers' = answers
  BY Zenon DEF write, writeFailsStale, mapVars, userVars
<1>2. task'[k] = "done" /\ \A l \in Clients \ {k} : task'[l] = task[l]
  BY Zenon, <1>1, Ends DEF Arrives, RunInv
<1>3. (Pending(k)' <=> Pending(k)) /\ \A l \in Clients \ {k} : DutySame(l)
  BY ZenonT(40), <1>1, <1>2, SamePending
<1>4. DutySame(k)
  BY ZenonT(40), <1>1, <1>2, <1>3 DEF DutySame, Responsible
<1> QED BY ZenonT(40), <1>1, <1>3, <1>4 DEF Passes

\* A failed write takes the run's own entry, and goes on or reports.
LEMMA KindWriteFails ==
    ASSUME RunInv, OwnInv, NEW k \in Clients, writeFails(k)
    PROVE  Passes \/ CallsBack(k, "error")
<1>1. MuxTypes
  BY Zenon DEF RunInv
<1> DEFINE i == wid[k]
<1>2. i \in Ids /\ queries[i] = k /\ task[k] = "write"
  BY Zenon, <1>1 DEF OwnInv, writeFails, MuxTypes
<1>3. queries' = [queries EXCEPT ![i] = NoRun]
  BY Zenon DEF writeFails, take
<1>4. Pending(k) /\ ~Pending(k)' /\ \A l \in Clients \ {k} : Pending(l)' <=> Pending(l)
  BY ZenonT(40), <1>2, <1>3, TakenDuty
<1>5. Responsible(k) /\ task[k] # "new"
  BY ZenonT(40), <1>2, <1>4 DEF Responsible
<1>6. CASE Goto(k, "start") /\ answers' = answers
  <2>1. task'[k] = "start" /\ \A l \in Clients \ {k} : task'[l] = task[l]
    BY Zenon, <1>1, <1>6 DEF Goto, MuxTypes
  <2>2. DutySame(k)
    BY Zenon, <1>5, <2>1 DEF DutySame, Responsible
  <2> QED BY ZenonT(40), <1>4, <1>6, <2>1, <2>2, DutyFrame DEF Passes
<1>7. CASE EndRun(k) /\ callback(Query(k), "error")
  <2>1. task'[k] = "done" /\ \A l \in Clients \ {k} : task'[l] = task[l]
    BY ZenonT(40), <1>1, <1>7, Ends DEF Arrives
  <2>2. ~Responsible(k)' /\ task'[k] # "new"
    BY ZenonT(40), <1>4, <2>1 DEF Responsible
  <2> QED BY ZenonT(40), <1>4, <1>5, <1>7, <2>1, <2>2, DutyFrame DEF CallsBack, callback
<1> QED BY Zenon, <1>6, <1>7 DEF writeFails, userVars

\* Whoever takes an entry and calls back.
LEMMA TakenCallsBack ==
    ASSUME RunInv, NEW k \in Clients, NEW i \in Ids, queries[i] = k,
           queries' = [queries EXCEPT ![i] = NoRun], task' = task,
           NEW what \in {Query(k), "error"}, callback(Query(k), what)
    PROVE  CallsBack(k, what)
<1>1. /\ Pending(k) /\ ~Pending(k)' /\ task[k] \in {"write", "done"}
      /\ \A l \in Clients \ {k} : Pending(l)' <=> Pending(l)
  BY Zenon, TakenDuty
<1>2. Responsible(k) /\ ~Responsible(k)' /\ task[k] # "new"
  BY Zenon, <1>1 DEF Responsible
<1>3. \A l \in Clients \ {k} : DutySame(l)
  BY Zenon, <1>1, DutyFrame
<1> QED BY Zenon, <1>2, <1>3 DEF CallsBack, callback

\* A response is that of the query it is given to.
LEMMA KindComplete ==
    ASSUME RunInv, OwnInv, NEW c \in Conns, NEW i \in Ids, NEW q \in Queries, complete(c, i, q)
    PROVE  CallsBack(queries[i], q) /\ queries[i] \in Clients
<1> DEFINE k == queries[i]
<1>1. k \in Clients /\ <<i, q>> \in written[c] \cup received[c]
  BY Zenon DEF complete, RunInv, MuxTypes
<1>2. Query(k) = q
  BY Zenon, <1>1 DEF OwnInv, complete
<1>3. queries' = [queries EXCEPT ![i] = NoRun] /\ task' = task /\ callback(Query(k), q)
  BY Zenon DEF complete, take, runVars
<1> HIDE DEF k
<1>4. queries[i] = k
  BY Zenon DEF k
<1>5. CallsBack(k, q)
  BY ZenonT(40), <1>1, <1>2, <1>3, <1>4, TakenCallsBack
<1> QED BY Zenon, <1>1, <1>4, <1>5

\* The context or the connection of a query ends: its callback runs, or its
\* second run takes over.
LEMMA KindDone ==
    ASSUME RunInv, OwnInv, NEW k \in Clients, completeContextDone(k) \/ completeConnDone(k)
    PROVE  CallsBack(k, "error") \/ (HandsOver(Query(k)) /\ k = <<Query(k), 1>>)
<1>1. PICK i \in Ids : queries[i] = k /\ queries' = [queries EXCEPT ![i] = NoRun]
  BY Zenon DEF completeContextDone, completeConnDone, take
<1>2. CASE task' = task /\ callback(Query(k), "error")
  BY ZenonT(40), <1>1, <1>2, TakenCallsBack
<1>3. CASE k \in retry /\ task[<<Query(k), 2>>] = "new" /\ Goto(<<Query(k), 2>>, "start") /\ answers' = answers
  <2> DEFINE q == Query(k)
             l == <<q, 2>>
  <2>1. k = <<q, 1>> /\ l \in Clients /\ l # k
    <3>1. k[2] = 1
      BY Zenon, <1>3 DEF OwnInv
    <3>2. k = <<q, 1>> /\ l \in Clients
      BY <3>1, RunsAreClients DEF Query
    <3>3. l # k
      BY <3>2
    <3> QED BY Zenon, <3>2, <3>3
  <2>2. task'[l] = "start" /\ \A j \in Clients \ {l} : task'[j] = task[j]
    BY ZenonT(40), <1>3, <2>1 DEF Goto, RunInv, MuxTypes
  <2>3. /\ Pending(k) /\ ~Pending(k)' /\ task[k] \in {"write", "done"}
        /\ \A j \in Clients \ {k} : Pending(j)' <=> Pending(j)
    BY Zenon, <1>1, TakenDuty
  <2>4. task'[k] = task[k]
    BY ZenonT(40), <2>1, <2>2
  <2>5. Responsible(k) /\ ~Responsible(k)' /\ task[k] # "new" /\ task'[k] # "new"
    BY Zenon, <2>3, <2>4 DEF Responsible
  <2>6. Responsible(l)' /\ task'[l] # "new"
    BY Zenon, <2>2 DEF Responsible
  <2>7. OnlyQuery(q)
    <3> SUFFICES ASSUME NEW j \in Clients, Query(j) # q PROVE DutySame(j)
      BY Zenon DEF OnlyQuery
    <3>1. j # k /\ j # l
      BY Zenon, Runs
    <3> QED BY ZenonT(40), <2>2, <2>3, <3>1, DutyFrame
  <2> QED BY ZenonT(40), <1>3, <2>1, <2>5, <2>6, <2>7 DEF HandsOver
<1> QED BY ZenonT(40), <1>2, <1>3 DEF completeContextDone, completeConnDone, runVars, userVars

\* The other steps leave runs, entries and callbacks alone.
LEMMA KindOther ==
    ASSUME \/ \E q \in Queries, why \in {"deadline", "cancel"} : CtxDone(q, why)
           \/ \E k \in Clients : CancelAcquire(k)
           \/ \E c \in Conns : Reads(c) \/ recvLoopFails(c)
           \/ closeIdleConnection \/ PoolStep \/ UNCHANGED mvars
           \/ \E keep \in KeepIdleCalls : SetKeepIdleConnections(keep)
    PROVE  Passes
<1>1. UNCHANGED <<task, queries, answers>>
  BY Zenon, ReadsOnly DEF CtxDone, CancelAcquire, recvLoopFails, closeIdleConnection,
     SetKeepIdleConnections, PoolStep, muxVars, mvars, runVars, mapVars, userVars
<1> QED BY ZenonT(40), <1>1, DutyFrame DEF Passes, Pending

\* Every step is a ServiceStep.
LEMMA Kinds ==
    ASSUME CoreInv, RunInv, OwnInv, ServiceInv, [MuxNext]_mvars PROVE ServiceStep
<1>1. ASSUME NEW k \in Clients, Passes \/ CallsBack(k, "error") \/ HandsOver(Query(k)) PROVE ServiceStep
  BY ZenonT(40), <1>1, Runs DEF ServiceStep
<1>2. ASSUME NEW k \in Clients, RunStep(k) PROVE ServiceStep
  BY ZenonT(40), <1>1, <1>2, KindAcquire, KindRegister, KindRegisterFails, KindWrite, KindWriteFails, KindDone, KindOther
     DEF RunStep, ServiceStep
<1> QED
  BY ZenonT(40), <1>2, KindExchange, KindComplete, KindOther DEF MuxNext, ServiceStep, Reads

-----------------------------------------------------------------------------
(* Runs inside the pool, and sweeps *)

\* A run that is inside the pool will call back.
BusyInv == \A k \in Clients : pc[k] # "idle" => Responsible(k)

\* A sweep follows every response once keepIdle can be cleared.
SweepInv == sweeps \in Nat /\ keepIdle \in BOOLEAN /\ (keepIdle \/ FALSE \in KeepIdleCalls)

NoError == \A q \in Queries : answers[q] # <<"error">>

\* How a step moves the clients of the pool, and what follows for their queries.
Settles(k) ==
    \/ Passes
    \/ \E what \in Queries \cup {"error"} : CallsBack(k, what)
    \/ HandsOver(Query(k)) /\ k = <<Query(k), 1>>

Waits(k) ==
    /\ \A l \in Clients \ {k} : pc'[l] = pc[l] /\ (Responsible(l) => Responsible(l)')
    /\ \/ pc'[k] # "idle" /\ Responsible(k)'
       \/ pc'[k] = "idle" /\ CallsBack(k, "error")

\* What gives a connection up.
LEMMA GivesUp ==
    ASSUME CoreInv, RunInv, OwnInv, NEW k \in Clients,
           registerFails(k) \/ writeFails(k) \/ completeContextDone(k) \/ completeConnDone(k)
    PROVE  Drops(k) /\ Settles(k)
<1>1. CASE registerFails(k)
  BY ZenonT(40), <1>1, GiveUpEffect, KindRegisterFails DEF registerFails, Settles
<1>2. CASE writeFails(k)
  <2>1. wid[k] \in Ids /\ queries[wid[k]] = k
    BY Zenon, <1>2 DEF writeFails, OwnInv, RunInv, MuxTypes
  <2>2. held[k] # NoConn
    BY Zenon, <2>1 DEF RunInv, RunOK, Pending
  <2>3. Drops(k)
    BY ZenonT(40), <1>2, <2>2, GiveUpEffect DEF writeFails
  <2> QED BY ZenonT(40), <1>2, <2>3, KindWriteFails DEF Settles
<1>3. CASE completeContextDone(k) \/ completeConnDone(k)
  BY ZenonT(40), <1>3, GiveUpEffect, KindDone DEF completeContextDone, completeConnDone, Settles
<1> QED BY ZenonT(40), <1>1, <1>2, <1>3

\* Calling and leaving AcquireShared.
LEMMA WaitSteps ==
    ASSUME CoreInv, RunInv, NEW k \in Clients, exchangeAsync(k) \/ AcquireShared(k)
    PROVE  Waits(k)
<1>1. \A l \in Clients \ {k} : pc'[l] = pc[l]
  <2>1. CASE exchangeAsync(k)
    BY ZenonT(40), <2>1 DEF exchangeAsync, Acquire, Retry, CoreInv, CoreType
  <2>2. CASE AcquireShared(k)
    <3>1. \E where : pc' = [pc EXCEPT ![k] = where]
      BY Zenon, <2>2, AcquireEffect DEF AcquireShared, Moves, Obtains
    <3> QED BY Zenon, <3>1 DEF CoreInv, CoreType
  <2> QED BY ZenonT(40), <2>1, <2>2
<1> QED BY Zenon, <1>1, KindAcquire DEF Waits, Passes, CallsBack, DutySame

\* So does asking.
LEMMA AskSteps ==
    ASSUME CoreInv, RunInv, ServiceInv, NEW q \in Queries, ExchangeAsync(q)
    PROVE  Waits(<<q, 1>>)
<1> DEFINE k == <<q, 1>>
<1>1. k \in Clients /\ Asks(q)
  BY ZenonT(40), Runs, KindExchange
<1>2. pc'[k] # "idle" /\ \A l \in Clients \ {k} : pc'[l] = pc[l]
  BY ZenonT(40), <1>1 DEF ExchangeAsync, Acquire, Retry, CoreInv, CoreType
<1>3. Responsible(k)'
  BY Zenon, <1>1 DEF Asks
<1>4. ASSUME NEW l \in Clients, l # k PROVE DutySame(l)
  BY ZenonT(40), <1>1, <1>4, Runs DEF Asks, OnlyQuery
<1> QED BY ZenonT(40), <1>2, <1>3, <1>4 DEF Waits, DutySame

\* Every step moves no client, or one, in these ways.
LEMMA ClientSteps ==
    ASSUME CoreInv, RunInv, OwnInv, ServiceInv, [MuxNext]_mvars
    PROVE  \/ ClientsSame /\ Passes
           \/ \E k \in Clients : (Drops(k) /\ Settles(k)) \/ Waits(k)
<1>1. ASSUME NEW k \in Clients, register(k) \/ write(k) \/ writeFailsStale(k) PROVE ClientsSame /\ Passes
  <2>1. ClientsSame
    BY Zenon, <1>1 DEF register, write, writeFailsStale, ReaderInvalidate, vars, clientVars, ClientsSame
  <2> QED BY ZenonT(40), <1>1, <2>1, KindRegister, KindWrite
<1>2. ASSUME NEW c \in Conns, NEW i \in Ids, NEW q \in Queries, complete(c, i, q)
      PROVE  \E k \in Clients : Drops(k) /\ Settles(k)
  <2>1. queries[i] \in Clients /\ CallsBack(queries[i], q)
    BY Zenon, <1>2, KindComplete
  <2>2. Drops(queries[i])
    BY ZenonT(40), <1>2, <2>1, GiveUpEffect DEF complete
  <2> QED BY Zenon, <2>1, <2>2 DEF Settles
<1>3. ASSUME NEW k \in Clients, RunStep(k)
      PROVE  (ClientsSame /\ Passes) \/ \E l \in Clients : (Drops(l) /\ Settles(l)) \/ Waits(l)
  BY ZenonT(40), <1>1, <1>3, GivesUp, WaitSteps, QuietClients, KindOther DEF RunStep
<1>4. ASSUME NEW q \in Queries, ExchangeAsync(q) PROVE \E l \in Clients : Waits(l)
  BY ZenonT(40), <1>4, AskSteps, Runs
<1> QED BY ZenonT(40), <1>2, <1>3, <1>4, QuietClients, KindOther DEF MuxNext, Reads

\* A run inside the pool stays responsible for its query.
LEMMA BusyNext ==
    ASSUME CoreInv, RunInv, OwnInv, ServiceInv, BusyInv, [MuxNext]_mvars PROVE BusyInv'
<1>1. CASE ClientsSame /\ Passes
  BY Zenon, <1>1 DEF BusyInv, ClientsSame, Passes, DutySame
<1>2. ASSUME NEW k \in Clients, Waits(k) PROVE BusyInv'
  BY Zenon, <1>2 DEF BusyInv, Waits
<1>3. ASSUME NEW k \in Clients, Drops(k), Settles(k) PROVE BusyInv'
  <2>1. pc'[k] = "idle" /\ \A l \in Clients \ {k} : pc'[l] = pc[l]
    BY Zenon, <1>3 DEF Drops, CoreInv, CoreType
  <2>2. ASSUME NEW l \in Clients, l # k, Responsible(l) PROVE Responsible(l)'
    <3>1. CASE HandsOver(Query(k)) /\ k = <<Query(k), 1>>
      <4>1. Query(l) # Query(k) \/ l = <<Query(k), 2>>
        BY ZenonT(40), <2>2, <3>1, Runs
      <4> QED BY ZenonT(40), <2>2, <3>1, <4>1 DEF HandsOver, OnlyQuery, DutySame
    <3> QED BY ZenonT(40), <1>3, <2>2, <3>1 DEF Settles, Passes, CallsBack, DutySame
  <2> QED BY ZenonT(40), <2>1, <2>2 DEF BusyInv
<1> QED BY ZenonT(40), <1>1, <1>2, <1>3, ClientSteps

\* A callback with an error shows.
LEMMA ErrorShows ==
    ASSUME ServiceInv, NEW k \in Clients, CallsBack(k, "error") PROVE ~NoError'
<1>1. Query(k) \in Queries /\ answers'[Query(k)] = <<"error">>
  BY Zenon, Runs, ServiceCallsBack
<1> QED BY Zenon, <1>1 DEF NoError

\* What was called back stays.
LEMMA ErrorStays ==
    ASSUME ServiceInv, ServiceStep, NoError' PROVE NoError
<1> SUFFICES ASSUME NEW q \in Queries, answers[q] = <<"error">> PROVE answers'[q] = answers[q]
  BY Zenon DEF NoError
<1>1. answers[q] # <<>>
  OBVIOUS
<1>2. ASSUME NEW k \in Clients, NEW what \in Queries \cup {"error"}, CallsBack(k, what)
      PROVE  answers'[q] = answers[q]
  BY ZenonT(40), <1>1, <1>2, ServiceCallsBack
<1> QED BY Zenon, <1>2 DEF ServiceStep, Passes, Asks, HandsOver

\* A sweep that is due counts one more.
LEMMA SweepCounts ==
    ASSUME NEW n \in Nat PROVE n + 1 \in Nat /\ n + 1 # n
  OBVIOUS

\* What becomes of keepIdle and the sweeps.
LEMMA SweepNext ==
    ASSUME SweepInv, [MuxNext]_mvars
    PROVE  /\ SweepInv'
           /\ \/ UNCHANGED <<keepIdle, sweeps>>
              \/ Sweep
              \/ closeIdleConnection
<1>0. Sweep => sweeps' \in Nat
  <2>1. sweeps \in Nat
    BY Zenon DEF SweepInv
  <2>2. Sweep => sweeps' = sweeps + 1 \/ sweeps' = sweeps
    BY Zenon DEF Sweep
  <2> QED BY Zenon, <2>1, <2>2, SweepCounts
<1>1. CASE UNCHANGED <<keepIdle, sweeps>>
  BY Zenon, <1>1 DEF SweepInv
<1>2. CASE Sweep /\ UNCHANGED keepIdle
  BY ZenonT(40), <1>0, <1>2 DEF SweepInv
<1>3. CASE closeIdleConnection
  <2>1. sweeps' \in Nat
    BY SMTT(40), <1>3 DEF closeIdleConnection, SweepInv
  <2> QED BY ZenonT(40), <1>3, <2>1 DEF SweepInv, closeIdleConnection
<1>4. ASSUME NEW keep \in KeepIdleCalls, SetKeepIdleConnections(keep) PROVE SweepInv' /\ Sweep
  <2>1. keep \in BOOLEAN
    BY ZenonT(40), KeepIdleCallsBool
  <2> QED BY ZenonT(40), <1>0, <1>4, <2>1 DEF SweepInv, SetKeepIdleConnections
<1>5. ASSUME NEW k \in Clients, RunStep(k)
      PROVE  UNCHANGED <<keepIdle, sweeps>> \/ (Sweep /\ UNCHANGED keepIdle)
  BY ZenonT(40), <1>5 DEF RunStep, exchangeAsync, AcquireShared, CancelAcquire, register, registerFails, write,
     writeFails, writeFailsStale, completeContextDone, completeConnDone, muxVars, idleVars
<1>6. ASSUME NEW c \in Conns, NEW i \in Ids, NEW q \in Queries, complete(c, i, q)
      PROVE  Sweep /\ UNCHANGED keepIdle
  BY Zenon, <1>6 DEF complete
<1>7. ASSUME NEW c \in Conns, Reads(c) \/ recvLoopFails(c) PROVE UNCHANGED <<keepIdle, sweeps>>
  BY Zenon, <1>7, ReadsOnly DEF recvLoopFails, idleVars
<1>8. ASSUME NEW q \in Queries, ExchangeAsync(q) \/ \E why \in {"deadline", "cancel"} : CtxDone(q, why)
      PROVE  UNCHANGED <<keepIdle, sweeps>>
  BY Zenon, <1>8 DEF ExchangeAsync, CtxDone, idleVars
<1>9. CASE PoolStep \/ UNCHANGED mvars
  BY ZenonT(40), <1>1, <1>9 DEF PoolStep, mvars, muxVars, idleVars
<1> QED BY ZenonT(40), <1>1, <1>2, <1>3, <1>4, <1>5, <1>6, <1>7, <1>8, <1>9 DEF MuxNext, Reads

-----------------------------------------------------------------------------
(* Theorems *)

\* Initially no query has been asked.
LEMMA ServiceInit ==
    ASSUME newQueryMultiplexer PROVE ServiceInv /\ Service!Init
<1>1. /\ task = [k \in Clients |-> "new"] /\ answers = [q \in Queries |-> <<>>]
      /\ queries = [i \in Ids |-> NoRun]
  BY Zenon DEF newQueryMultiplexer
<1>2. \A k \in Clients : ~Pending(k) /\ task[k] = "new"
  BY Zenon, <1>1 DEF Pending
<1>3. \A k \in Clients : ~Responsible(k)
  BY ZenonT(40), <1>2 DEF Responsible
<1>4. \A q \in Queries : QueryInv(q) /\ answers[q] = <<>> /\ task[<<q, 1>>] = "new"
  BY ZenonT(40), <1>1, <1>2, <1>3, Runs DEF QueryInv
<1>5. ServiceInv
  BY ZenonT(40), <1>1, <1>4 DEF ServiceInv, Answers
<1>6. Service!Init
  BY ZenonT(40), <1>4, OutcomeOf DEF OutcomeFixed, Service!Init
<1> QED BY ZenonT(40), <1>5, <1>6

\* As long as register does not come round to an ID in use, each query that is
\* asked has one run that will call it back.
THEOREM ServiceInvariance == MuxSpec /\ FreshIds => []ServiceInv
<1>1. newQueryMultiplexer => ServiceInv
  BY Zenon, ServiceInit
<1>2. CoreInv /\ RunInv /\ OwnInv /\ ServiceInv /\ [MuxNext]_mvars => ServiceInv'
  BY ZenonT(40), Kinds, ServiceNext
<1> QED BY <1>1, <1>2, MuxInvariance, OwnEntries, PTL DEF MuxSpec

\* As long as register does not come round to an ID in use, the multiplexer
\* implements QueryService: every query is called back exactly once, with its own
\* response or an error.
THEOREM ImplementsQueryService == MuxSpec /\ FreshIds => ServiceSpec
<1>1. newQueryMultiplexer => Service!Init
  BY Zenon, ServiceInit
<1>2. CoreInv /\ RunInv /\ OwnInv /\ ServiceInv /\ [MuxNext]_mvars =>
        [UNCHANGED [q \in Queries |-> Outcome(q)] \/ Service!Next]_[q \in Queries |-> Outcome(q)]
  BY ZenonT(40), Kinds, ServiceNext
<1> QED BY <1>1, <1>2, MuxInvariance, OwnEntries, ServiceInvariance, PTL DEF MuxSpec, ServiceSpec, Service!Spec

-----------------------------------------------------------------------------
(* Idle connections *)

\* While every callback has had a response, dials have starters; with keepIdle
\* cleared and no sweep due, the shared connection has a user.
IdleInv ==
    /\ BusyInv /\ SweepInv
    /\ NoError => StarterInv
    /\ NoError /\ ~keepIdle /\ sweeps = 0 => InUseInv

\* A failure of AcquireShared shows as an error.
LEMMA FailureShows ==
    ASSUME CoreInv, RunInv, OwnInv, ServiceInv, [MuxNext]_mvars, NoError'
    PROVE  \A k \in Clients : ~Fails(k)
<1> SUFFICES ASSUME NEW l \in Clients, pc[l] \in {"acquire", "select"}, pc'[l] = "idle" PROVE FALSE
  BY Zenon DEF Fails
<1>1. pc[l] # "idle" /\ pc[l] # "holding"
  BY Zenon
<1>2. CASE ClientsSame
  BY ZenonT(40), <1>1, <1>2 DEF ClientsSame
<1>3. ASSUME NEW k \in Clients, Drops(k) PROVE FALSE
  BY ZenonT(40), <1>1, <1>3 DEF Drops, CoreInv, CoreType
<1>4. ASSUME NEW k \in Clients, Waits(k) PROVE FALSE
  BY ZenonT(40), <1>1, <1>4, ErrorShows DEF Waits
<1> QED BY ZenonT(40), <1>2, <1>3, <1>4, ClientSteps

\* The shared connection is in use, or CloseIdle may close it.
LEMMA NotIdle ==
    ASSUME IInv, StarterInv, ~Idle PROVE InUseInv
<1> SUFFICES ASSUME ~closed, shared[state] # NoConn PROVE User
  BY Zenon DEF InUseInv
<1>1. PICK k \in Clients : held[k] = shared[state] \/ (pc[k] = "select" /\ current(k) = state)
  BY Zenon, IdleCounted
<1>2. CASE held[k] = shared[state]
  BY Zenon, <1>2 DEF User
<1>3. CASE pc[k] = "select" /\ current(k) = state
  <2>1. attempt[k] \in Conns /\ connGen[attempt[k]] = state /\ dialer[attempt[k]] # "none"
    <3>1. attempt[k] \in Conns \cup {NoConn} /\ ClientInv
      BY Zenon DEF IInv, CoreInv, CoreType
    <3>2. attempt[k] # NoConn /\ dialer[attempt[k]] # "none"
      BY Zenon, <1>3, <3>1 DEF ClientInv
    <3> QED BY Zenon, <1>3, <3>1, <3>2 DEF current
  <2>2. CASE dialer[attempt[k]] = "done"
    BY ZenonT(40), <1>3, <2>2 DEF User
  <2>3. CASE dialer[attempt[k]] # "done"
    <3>1. Starter(attempt[k])
      BY Zenon, <2>1, <2>3 DEF StarterInv
    <3>2. PICK l \in Clients : pc[l] = "select" /\ startDial[l] /\ attempt[l] = attempt[k]
      BY Zenon, <3>1 DEF Starter
    <3> QED BY ZenonT(40), <2>1, <3>2 DEF User, current
  <2> QED BY ZenonT(40), <2>2, <2>3
<1> QED BY ZenonT(40), <1>1, <1>2, <1>3

\* A step that leaves keepIdle and the sweeps alone is one of the pool without a
\* Release, or shows an error.
LEMMA KeepSteps ==
    ASSUME CoreInv, RunInv, OwnInv, ServiceInv, [MuxNext]_mvars, NoError',
           UNCHANGED <<keepIdle, sweeps>>, FALSE \in KeepIdleCalls, sweeps \in Nat
    PROVE  KeepStep
<1>0. ~Sweep
  BY Zenon, SweepCounts DEF Sweep
<1>1. ASSUME NEW q \in Queries, ExchangeAsync(q) PROVE KeepStep
  BY ZenonT(40), <1>1, Runs DEF ExchangeAsync, KeepStep
<1>2. ASSUME NEW k \in Clients, RunStep(k) PROVE KeepStep
  <2>1. CASE exchangeAsync(k) \/ AcquireShared(k) \/ CancelAcquire(k)
    BY Zenon, <2>1 DEF exchangeAsync, AcquireShared, CancelAcquire, KeepStep
  <2>2. CASE register(k) \/ write(k)
    BY Zenon, <2>2 DEF register, write, KeepStep
  <2>3. CASE registerFails(k) \/ completeContextDone(k)
    BY ZenonT(40), <1>0, <2>3 DEF registerFails, completeContextDone
  <2>4. CASE writeFails(k) \/ writeFailsStale(k)
    BY ZenonT(40), <2>4 DEF writeFails, writeFailsStale, RunInv, RunOK, KeepStep
  <2>5. CASE completeConnDone(k)
    BY Zenon, <2>5 DEF completeConnDone, KeepStep
  <2> QED BY ZenonT(40), <1>2, <2>1, <2>2, <2>3, <2>4, <2>5 DEF RunStep
<1>3. ASSUME NEW c \in Conns, NEW i \in Ids, NEW q \in Queries, complete(c, i, q) PROVE KeepStep
  BY ZenonT(40), <1>0, <1>3 DEF complete
<1>4. ASSUME NEW c \in Conns, Reads(c) \/ recvLoopFails(c) PROVE KeepStep
  BY ZenonT(40), <1>4, ReadsOnly DEF recvLoopFails, KeepStep
<1>5. CASE closeIdleConnection \/ PoolStep \/ UNCHANGED mvars
  BY Zenon, <1>5 DEF closeIdleConnection, PoolStep, KeepStep, mvars
<1>6. ASSUME NEW q \in Queries, NEW why \in {"deadline", "cancel"}, CtxDone(q, why) PROVE KeepStep
  BY Zenon, <1>6 DEF CtxDone, KeepStep
<1>7. ASSUME NEW keep \in KeepIdleCalls, SetKeepIdleConnections(keep) PROVE KeepStep
  BY ZenonT(40), <1>0, <1>7 DEF SetKeepIdleConnections
<1> QED BY ZenonT(40), <1>1, <1>2, <1>3, <1>4, <1>5, <1>6, <1>7 DEF MuxNext, Reads

\* IdleInv is preserved.
LEMMA IdleNext ==
    ASSUME IInv, CoreInv, RunInv, OwnInv, ServiceInv, IdleInv, [MuxNext]_mvars PROVE IdleInv'
<1>1. BusyInv' /\ SweepInv /\ SweepInv'
  BY ZenonT(40), BusyNext, SweepNext DEF IdleInv
<1> SUFFICES ASSUME NoError' PROVE StarterInv' /\ (~keepIdle' /\ sweeps' = 0 => InUseInv')
  BY Zenon, <1>1 DEF IdleInv
<1>2. NoError /\ StarterInv /\ \A k \in Clients : ~Fails(k)
  BY ZenonT(40), Kinds, ErrorStays, FailureShows DEF IdleInv
<1>3. StarterInv'
  BY ZenonT(40), <1>2, PoolNext, StarterNext
<1> SUFFICES ASSUME ~keepIdle', sweeps' = 0 PROVE InUseInv'
  BY Zenon, <1>3
<1>4. FALSE \in KeepIdleCalls /\ sweeps \in Nat
  BY Zenon, <1>1 DEF SweepInv
<1>5. ~Sweep
  BY SMTT(40), <1>4 DEF Sweep
<1>6. CASE UNCHANGED <<keepIdle, sweeps>>
  <2>1. KeepStep
    BY ZenonT(40), <1>4, <1>6, KeepSteps
  <2> QED BY ZenonT(40), <1>2, <1>6, <2>1, UserNext, AlwaysAlive DEF IdleInv
<1>7. CASE closeIdleConnection
  <2>1. CASE CloseIdle
    <3>1. UNCHANGED <<closed, state>> /\ shared'[state] = NoConn
      BY ZenonT(40), <2>1 DEF CloseIdle, removeConn, CoreInv, CoreType, poolVars
    <3> QED BY ZenonT(40), <3>1 DEF InUseInv
  <2>2. CASE (closed \/ shared[state] = NoConn \/ ~Idle) /\ UNCHANGED vars
    <3>1. InUseInv
      BY ZenonT(40), <1>2, <2>2, NotIdle DEF InUseInv
    <3>2. UNCHANGED <<closed, state, shared, connGen, dialer, held, pc, attempt, startDial>>
      BY Zenon, <2>2 DEF vars, poolVars, genVars, dialVars, clientVars
    <3> QED BY ZenonT(40), <3>1, <3>2, UserSame
  <2> QED BY ZenonT(40), <1>7, <2>1, <2>2 DEF closeIdleConnection
<1> QED BY ZenonT(40), <1>1, <1>5, <1>6, <1>7, SweepNext

-----------------------------------------------------------------------------
(* Theorem *)

\* With keepIdle cleared, and as long as register does not come round to an ID in
\* use, no connection stays open for nothing.
THEOREM IdleConnectionsClosed == MuxSpec /\ FreshIds => []IdleClosed
<1>1. newQueryMultiplexer => IdleInv
  <2> SUFFICES ASSUME newQueryMultiplexer PROVE IdleInv
    BY Zenon
  <2>1. Init /\ keepIdle = TRUE /\ sweeps = 0
    BY Zenon DEF newQueryMultiplexer
  <2>2. BusyInv /\ StarterInv
    BY Zenon, <2>1 DEF Init, NewConnPool, BusyInv, StarterInv
  <2>3. SweepInv
    BY Zenon, <2>1 DEF SweepInv
  <2> QED BY ZenonT(40), <2>1, <2>2, <2>3 DEF IdleInv
<1>2. IInv /\ CoreInv /\ RunInv /\ OwnInv /\ ServiceInv /\ IdleInv /\ [MuxNext]_mvars => IdleInv'
  BY Zenon, IdleNext
<1>3. MuxSpec => []IInv
  <2>1. IInv /\ [UNCHANGED vars \/ Next]_vars => IInv'
    BY Zenon, InvNext
  <2> QED BY <2>1, InvInit, UsesPoolAsClient, PTL DEF PoolSpec
<1>4. CoreInv /\ RunInv /\ ServiceInv /\ IdleInv => IdleClosed
  <2> SUFFICES ASSUME CoreInv, RunInv, ServiceInv, IdleInv, ~keepIdle, sweeps = 0, ~closed,
                      \A q \in Queries : task[<<q, 1>>] = "new" \/ answers[q] = <<q>>,
                      shared[state] # NoConn
               PROVE  FALSE
    BY Zenon DEF IdleClosed
  <2>1. ASSUME NEW q \in Queries
        PROVE  answers[q] # <<"error">> /\ ~Responsible(<<q, 1>>) /\ ~Responsible(<<q, 2>>)
    <3>1. <<q>> # <<>> /\ <<q>> # <<"error">> /\ <<>> # <<"error">>
      BY Zenon, ErrorIsNoQuery
    <3>2. CASE answers[q] = <<q>>
      BY ZenonT(40), <3>1, <3>2 DEF ServiceInv, QueryInv
    <3>3. CASE task[<<q, 1>>] = "new"
      <4>1. answers[q] = <<>> /\ task[<<q, 2>>] = "new"
        BY ZenonT(40), <3>3 DEF ServiceInv, QueryInv
      <4>2. ASSUME NEW k \in Clients, task[k] = "new" PROVE ~Responsible(k)
        BY ZenonT(40), <4>2 DEF RunInv, RunOK, Responsible
      <4> QED BY ZenonT(40), <3>1, <3>3, <4>1, <4>2, Runs
    <3> QED BY ZenonT(40), <3>2, <3>3
  <2>2. \A k \in Clients : pc[k] = "idle"
    BY ZenonT(40), <2>1, Runs DEF IdleInv, BusyInv
  <2>3. User
    BY ZenonT(40), <2>1 DEF IdleInv, NoError, InUseInv
  <2>4. \A k \in Clients : held[k] = NoConn /\ pc[k] # "select"
    BY Zenon, <2>2 DEF CoreInv, ClientInv
  <2> QED BY ZenonT(40), <2>3, <2>4 DEF User
<1> QED BY <1>1, <1>2, <1>3, <1>4, MuxInvariance, OwnEntries, ServiceInvariance, PTL DEF MuxSpec

=============================================================================
