------------------------------- MODULE DNSWalk -------------------------------
(***************************************************************************)
(* One query walking the DNS rules (dns/router.go, exchangeWithRules):      *)
(* evaluate actions launch queries whose responses later rules are judged   *)
(* by, race rules are armed and judged out of order when their responses    *)
(* arrive, speculative actions query ahead of a decision.                   *)
(*                                                                         *)
(* The walk is one goroutine; the futures are completed by the DNS client   *)
(* at any moment between its steps.  A future is named by the index of the  *)
(* rule that launched it.  A response is a hit or a miss for the rules that *)
(* are bound to it, an error leaves no response; the other conditions of a  *)
(* rule are constant during a walk, and a rule that fails them is not in    *)
(* the list.                                                                *)
(***************************************************************************)
EXTENDS Integers, Sequences, FiniteSets, SequencesExt

CONSTANTS
    RuleLists,  \* the rule lists a walk may start with
    Tags        \* evaluate tags; "" is the anonymous response

VARIABLES
    rules,
    pc,             \* where the walk is
    ruleIndex,      \* state.ruleIndex, from 1
    options,        \* state.effectiveOptions: the rules that contributed
    future,         \* the futures: none, pending, hit, miss or error
    settled,
    namedResponses, \* the tagged futures whose responses have been stored
    anonymousFuture, terminalFuture,
    armedRules, index,
    suspension,     \* what the walk waits for: a future to await, or drain
    wake,
    waking,         \* callbacks that have closed done and not yet sent wake
    result,
    judged,         \* history: the rules judged so far that did not match
    missed          \* history: rules judged without a response that was there

walkVars == <<ruleIndex, options, anonymousFuture, terminalFuture>>
sweepVars == <<armedRules, index>>
vars == <<rules, pc, walkVars, future, settled, namedResponses, sweepVars,
          suspension, wake, waking, result, judged, missed>>

NoFuture == 0
NoResult == [kind |-> "none", rule |-> 0, future |-> NoFuture, options |-> {}]
Result(kind, i, f, o) == [kind |-> kind, rule |-> i, future |-> f, options |-> o]
NoWait == [await |-> NoFuture, drain |-> FALSE]

Indices == 1 .. Len(rules)
Resolved(f) == future[f] \in {"hit", "miss", "error"}
View(f) == IF f # NoFuture /\ future[f] \in {"hit", "miss"} THEN future[f] ELSE "nil"

Rule == [act : {"evaluate", "respond", "route", "reject", "predefined", "options"},
         bind : SUBSET (Tags \cup {""}),     \* MatchResponseTags, MatchResponseAnonymous
         race : BOOLEAN, spec : BOOLEAN,
         tag : Tags \cup {""},               \* of an evaluate action
         server : {"found", "missing", "skipped"}]

\* What validateLegacyDNSModeDisabledRules and the rule options ask of a list:
\* a bound response comes from an earlier evaluate, tags are unique, a respond
\* is bound to one response at most (a logical rule cannot bind a tag), an
\* evaluate is not sent to a fakeip server, race needs a bound response and a
\* deciding action, and excludes speculative.
Valid(list) ==
    \A i \in DOMAIN list :
        LET r == list[i]
            before(t) == \E j \in 1 .. i - 1 : list[j].act = "evaluate" /\ list[j].tag = t IN
        /\ \A t \in r.bind : before(t)
        /\ r.act = "respond" /\ r.bind = {} => before("")
        /\ r.act = "respond" => Cardinality(r.bind) <= 1
        /\ r.act = "evaluate" => r.server # "skipped"
        /\ r.act = "evaluate" /\ r.tag # "" => ~before(r.tag)
        /\ r.race => r.bind # {} /\ ~r.spec /\ r.act \notin {"evaluate", "options"}

ASSUME ValidLists == \A list \in RuleLists : Valid(list) /\ \A i \in DOMAIN list : list[i] \in Rule

Init ==
    /\ rules \in RuleLists
    /\ pc = "walk" /\ ruleIndex = 1 /\ options = {}
    /\ future = [i \in Indices |-> "none"]
    /\ settled = {} /\ namedResponses = {}
    /\ anonymousFuture = NoFuture /\ terminalFuture = NoFuture
    /\ armedRules = <<>> /\ index = 1
    /\ suspension = NoWait /\ wake = FALSE /\ waking = {}
    /\ result = NoResult
    /\ judged = {} /\ missed = {}

-----------------------------------------------------------------------------
(* What a rule is bound to and how it is judged *)

\* namedFutures: tags are unique in a valid list.
NamedFuture(t) ==
    LET launched == {f \in Indices : rules[f].act = "evaluate" /\ rules[f].tag = t /\ future[f] # "none"}
    IN  IF launched = {} THEN NoFuture ELSE CHOOSE f \in launched : TRUE

\* The futures rule i is bound to, given the anonymous one.
Bound(i, anonymous) ==
    ({NamedFuture(t) : t \in rules[i].bind \ {""}}
        \cup (IF "" \in rules[i].bind THEN {anonymous} ELSE {})) \ {NoFuture}

\* What Match sees: a tagged response once it is stored, the anonymous one as
\* soon as it is resolved.
Seen(f) == IF rules[f].tag = "" \/ f \in namedResponses THEN View(f) ELSE "nil"

\* Match of rule i: every response it is bound to is there and is a hit.
Match(i, anonymous) ==
    /\ \A t \in rules[i].bind \ {""} : NamedFuture(t) # NoFuture
    /\ "" \in rules[i].bind => anonymous # NoFuture
    /\ \A f \in Bound(i, anonymous) : Seen(f) = "hit"

\* Futures whose response arrived but is not seen by Match.
Overlooked(i, anonymous) == {f \in Bound(i, anonymous) : Seen(f) # View(f)}

Judge(i, anonymous) ==
    /\ missed' = IF Overlooked(i, anonymous) = {} THEN missed ELSE missed \cup {i}
    /\ judged' = IF Match(i, anonymous) THEN judged ELSE judged \cup {i}

\* settleDNSFutures.
settle ==
    LET new == {f \in Indices : Resolved(f)} \ settled IN
    /\ settled' = settled \cup new
    /\ namedResponses' = namedResponses \cup {f \in new : rules[f].act = "evaluate" /\ rules[f].tag # ""}

launchDNSEvaluate(f) == future' = [future EXCEPT ![f] = "pending"]

-----------------------------------------------------------------------------
(* walkDNSRules *)

Goto(where) == pc' = where

\* Suspend the walk; exchangeWithRules goes on in resumeExchangeWithRules.
Suspend(s) == suspension' = s /\ Goto("settle")

Finish(r) == result' = r /\ Goto("done")

\* A query that decides the result: finishPendingExchange.
Exchange(r) == result' = r /\ Goto("exchange")

\* Fault: armed rules are forgotten at the end of the list.
WalkEndEarly ==
    /\ pc = "walk"
    /\ ruleIndex > Len(rules)
    /\ Exchange(Result("exchange", 0, NoFuture, options))
    /\ UNCHANGED <<rules, walkVars, future, settled, namedResponses, sweepVars, suspension, wake,
                   waking, judged, missed>>

\* The end of the list: the default transport, once no race rule is armed.
WalkEnd ==
    /\ pc = "walk"
    /\ ruleIndex > Len(rules)
    /\ IF armedRules # <<>>
       THEN Suspend([NoWait EXCEPT !.drain = TRUE]) /\ UNCHANGED result
       ELSE Exchange(Result("exchange", 0, NoFuture, options)) /\ UNCHANGED suspension
    /\ UNCHANGED <<rules, walkVars, future, settled, namedResponses, sweepVars, wake, waking, judged, missed>>

\* The next rule; settleDNSFutures first if it is bound to responses.
WalkRule ==
    /\ pc = "walk"
    /\ ruleIndex \in Indices
    /\ IF rules[ruleIndex].bind # {} THEN settle ELSE UNCHANGED <<settled, namedResponses>>
    /\ Goto(IF rules[ruleIndex].bind # {} THEN "check" ELSE "match")
    /\ UNCHANGED <<rules, walkVars, future, sweepVars, suspension, wake, waking, result, judged, missed>>

\* A bound rule without race awaits its responses one after the other.
CheckOrdered ==
    LET i == ruleIndex
        open == {f \in Bound(i, anonymousFuture) : ~Resolved(f)} IN
    /\ pc = "check"
    /\ ~rules[i].race
    /\ IF open = {} THEN Goto("match") /\ UNCHANGED suspension
       ELSE \E f \in open : Suspend([NoWait EXCEPT !.await = f])
    /\ UNCHANGED <<rules, walkVars, future, settled, namedResponses, sweepVars, wake, waking, result,
                   judged, missed>>

\* A race rule is armed; if nothing is pending the armed rules are swept.
CheckRace ==
    LET i == ruleIndex
        open == {f \in Bound(i, anonymousFuture) : ~Resolved(f)} IN
    /\ pc = "check"
    /\ rules[i].race
    /\ armedRules' = Append(armedRules,
            [rule |-> i, futures |-> open, anonymous |-> anonymousFuture, options |-> options])
    /\ ruleIndex' = ruleIndex + 1
    /\ index' = 1
    /\ Goto(IF open = {} THEN "sweep" ELSE "walk")
    /\ UNCHANGED <<rules, options, anonymousFuture, terminalFuture, future, settled,
                   namedResponses, suspension, wake, waking, result, judged, missed>>

\* Fault: an evaluate action never waits.
HoldsDeciding(i) ==
    \/ rules[i].act \in {"respond", "reject", "predefined"}
    \/ rules[i].act = "route" /\ rules[i].server = "found"

\* Actions that must not take effect while a race rule is armed.
Holds(i) ==
    LET r == rules[i] IN
    \/ r.act \in {"respond", "reject", "predefined"}
    \/ r.act = "route" /\ r.server = "found"
    \/ r.act = "evaluate" /\ r.server # "missing" /\ ~r.spec

NextRule == ruleIndex' = ruleIndex + 1 /\ Goto("walk")

WalkNoMatch ==
    /\ pc = "match"
    /\ ~Match(ruleIndex, anonymousFuture)
    /\ Judge(ruleIndex, anonymousFuture)
    /\ NextRule
    /\ UNCHANGED <<rules, options, anonymousFuture, terminalFuture, future, settled,
                   namedResponses, sweepVars, suspension, wake, waking, result>>

\* The rule matched and waits for the armed rules; a speculative route sends
\* its query now.
WalkHeld ==
    LET i == ruleIndex IN
    /\ pc = "match"
    /\ Match(i, anonymousFuture)
    /\ Holds(i)
    /\ armedRules # <<>>
    /\ IF rules[i].act = "route" /\ rules[i].spec /\ terminalFuture = NoFuture
       THEN launchDNSEvaluate(i) /\ terminalFuture' = i
       ELSE UNCHANGED <<future, terminalFuture>>
    /\ Suspend([NoWait EXCEPT !.drain = TRUE])
    /\ UNCHANGED <<rules, ruleIndex, options, anonymousFuture, settled, namedResponses,
                   sweepVars, wake, waking, result, judged, missed>>

\* The rule matched and does not end the walk.
WalkContinue ==
    LET i == ruleIndex IN
    /\ pc = "match"
    /\ Match(i, anonymousFuture)
    /\ \/ rules[i].act = "options"
       \/ rules[i].act = "evaluate" /\ ~(Holds(i) /\ armedRules # <<>>)
       \/ rules[i].act = "route" /\ rules[i].server # "found"
    /\ options' = IF rules[i].act = "options" THEN options \cup {i} ELSE options
    /\ IF rules[i].act = "evaluate" /\ rules[i].server # "missing"
       THEN launchDNSEvaluate(i) ELSE UNCHANGED future
    /\ anonymousFuture' = IF rules[i].act # "evaluate" \/ rules[i].tag # "" THEN anonymousFuture
                          ELSE IF rules[i].server = "missing" THEN NoFuture ELSE i
    /\ NextRule
    /\ UNCHANGED <<rules, terminalFuture, settled, namedResponses, sweepVars, suspension, wake, waking,
                   result, judged, missed>>

\* What a respond, reject or predefined action ends the walk with.
Outcome(i, anonymous, o) ==
    LET f == IF rules[i].bind \ {""} # {}
             THEN NamedFuture(CHOOSE t \in rules[i].bind \ {""} : TRUE) ELSE anonymous
    IN  IF rules[i].act # "respond" THEN Result(rules[i].act, i, NoFuture, o)
        ELSE IF f = NoFuture \/ View(f) = "nil" THEN Result("missing response", i, NoFuture, o)
        ELSE Result("response", i, f, o)

\* An unbound respond awaits the anonymous response.
WalkAwaitRespond ==
    LET i == ruleIndex IN
    /\ pc = "match"
    /\ rules[i].act = "respond" /\ rules[i].bind = {}
    /\ armedRules = <<>>
    /\ anonymousFuture # NoFuture /\ ~Resolved(anonymousFuture)
    /\ Suspend([NoWait EXCEPT !.await = anonymousFuture])
    /\ UNCHANGED <<rules, walkVars, future, settled, namedResponses, sweepVars, wake, waking, result,
                   judged, missed>>

\* The rule matched and decides.
WalkCommit ==
    LET i == ruleIndex IN
    /\ pc = "match"
    /\ Match(i, anonymousFuture)
    /\ armedRules = <<>>
    /\ \/ /\ rules[i].act \in {"respond", "reject", "predefined"}
          /\ ~(rules[i].act = "respond" /\ rules[i].bind = {}
                /\ anonymousFuture # NoFuture /\ ~Resolved(anonymousFuture))
          /\ Finish(Outcome(i, anonymousFuture, options))
       \/ /\ rules[i].act = "route" /\ rules[i].server = "found"
          /\ Exchange(Result("exchange", i, IF terminalFuture = i THEN i ELSE NoFuture, options))
    /\ UNCHANGED <<rules, walkVars, future, settled, namedResponses, sweepVars, suspension, wake, waking,
                   judged, missed>>

-----------------------------------------------------------------------------
(* sweepArmedDNSRules, and resumeExchangeWithRules around it *)

Armed == armedRules[index]

\* Fault: the options of the walk, which has gone on, instead of those the rule
\* was armed with.
WalkOptions(a) == options

ArmedOptions(a) == a.options

SweepNotReady ==
    /\ pc = "sweep"
    /\ index \in DOMAIN armedRules
    /\ \E f \in Armed.futures : ~Resolved(f)
    /\ index' = index + 1
    /\ UNCHANGED <<rules, pc, walkVars, future, settled, namedResponses, armedRules, suspension,
                   wake, waking, result, judged, missed>>

\* A ready rule is disarmed and judged.
SweepJudge ==
    LET a == Armed IN
    /\ pc = "sweep"
    /\ index \in DOMAIN armedRules
    /\ \A f \in a.futures : Resolved(f)
    /\ Judge(a.rule, a.anonymous)
    /\ \/ /\ \/ ~Match(a.rule, a.anonymous)
             \/ rules[a.rule].act = "route" /\ rules[a.rule].server # "found"
          /\ armedRules' = RemoveAt(armedRules, index)
          /\ UNCHANGED <<pc, result>>
       \/ /\ Match(a.rule, a.anonymous)
          /\ rules[a.rule].act = "route" /\ rules[a.rule].server = "found"
          /\ armedRules' = <<>>
          /\ Exchange(Result("exchange", a.rule, NoFuture, ArmedOptions(a)))
       \/ /\ Match(a.rule, a.anonymous)
          /\ rules[a.rule].act # "route"
          /\ armedRules' = RemoveAt(armedRules, index)
          /\ Finish(Outcome(a.rule, a.anonymous, ArmedOptions(a)))
    /\ UNCHANGED <<rules, walkVars, future, settled, namedResponses, index, suspension, wake, waking>>

\* Nothing committed.  A sweep inside the walk (nothing is awaited) goes on
\* with the next rule.
SweepEnd ==
    /\ pc = "sweep"
    /\ index > Len(armedRules)
    /\ Goto(IF suspension = NoWait THEN "walk" ELSE "resume")
    /\ UNCHANGED <<rules, walkVars, future, settled, namedResponses, sweepVars, suspension, wake, waking,
                   result, judged, missed>>

ResumeSettle ==
    /\ pc = "settle"
    /\ settle
    /\ index' = 1
    /\ Goto("sweep")
    /\ UNCHANGED <<rules, walkVars, future, armedRules, suspension, wake, waking, result, judged, missed>>

Waiting ==
    \/ suspension.await # NoFuture /\ ~Resolved(suspension.await)
    \/ suspension.drain /\ armedRules # <<>>

\* What is waited for has happened: walk on from the rule that suspended.
ResumeWalk ==
    /\ pc = "resume"
    /\ ~Waiting
    /\ suspension' = NoWait
    /\ Goto("walk")
    /\ UNCHANGED <<rules, walkVars, future, settled, namedResponses, sweepVars, wake, waking, result,
                   judged, missed>>

ResumeWake ==
    /\ pc = "resume"
    /\ Waiting
    /\ wake
    /\ wake' = FALSE
    /\ Goto("settle")
    /\ UNCHANGED <<rules, walkVars, future, settled, namedResponses, sweepVars, suspension,
                   waking, result, judged, missed>>

\* finishPendingExchange: the speculative query, or one sent now.
FinishExchange ==
    /\ pc = "exchange"
    /\ result.future # NoFuture => Resolved(result.future)
    /\ Goto("done")
    /\ UNCHANGED <<rules, walkVars, future, settled, namedResponses, sweepVars, suspension, wake, waking,
                   result, judged, missed>>

\* ctx is done while the walk waits.
CtxDone ==
    /\ (pc = "resume" /\ Waiting) \/ pc = "exchange"
    /\ Finish(Result("ctx", 0, NoFuture, {}))
    /\ UNCHANGED <<rules, walkVars, future, settled, namedResponses, sweepVars, suspension, wake, waking,
                   judged, missed>>

\* The DNS client calls back: done is closed, then wake is sent unless a token
\* is there already.  After the end of the walk nobody looks.
Respond(f) ==
    /\ future[f] = "pending"
    /\ pc # "done"
    /\ \E v \in {"hit", "miss", "error"} : future' = [future EXCEPT ![f] = v]
    /\ waking' = waking \cup {f}
    /\ UNCHANGED <<rules, pc, walkVars, settled, namedResponses, sweepVars, suspension, wake,
                   result, judged, missed>>

\* Fault: a channel without a buffer: the token is lost unless the walk waits.
WakeUnbuffered(f) ==
    /\ f \in waking
    /\ pc # "done"
    /\ waking' = waking \ {f}
    /\ wake' = (pc = "resume" /\ Waiting)
    /\ UNCHANGED <<rules, pc, walkVars, future, settled, namedResponses, sweepVars, suspension,
                   result, judged, missed>>

Wake(f) ==
    /\ f \in waking
    /\ pc # "done"
    /\ waking' = waking \ {f}
    /\ wake' = TRUE
    /\ UNCHANGED <<rules, pc, walkVars, future, settled, namedResponses, sweepVars, suspension,
                   result, judged, missed>>

WalkStep ==
    \/ WalkEnd \/ WalkRule \/ CheckOrdered \/ CheckRace \/ WalkNoMatch \/ WalkHeld
    \/ WalkContinue \/ WalkAwaitRespond \/ WalkCommit
    \/ SweepNotReady \/ SweepJudge \/ SweepEnd
    \/ ResumeSettle \/ ResumeWalk \/ ResumeWake \/ FinishExchange

Done == pc = "done" /\ UNCHANGED vars

Next == WalkStep \/ CtxDone \/ (\E f \in Indices : Respond(f) \/ Wake(f)) \/ Done

Spec == Init /\ [][Next]_vars

\* The walk runs, and the client answers every query it was given.
FairSpec ==
    /\ Spec /\ WF_vars(WalkStep)
    /\ WF_vars(\E f \in Indices : Respond(f) \/ Wake(f))

-----------------------------------------------------------------------------
(* Properties *)

\* The anonymous response in force at rule i: that of the last evaluate without
\* a tag before it (in the lists checked an evaluate with a missing server is
\* not bound to a response).
AnonymousAt(i) ==
    LET before == {j \in 1 .. i - 1 : rules[j].act = "evaluate" /\ rules[j].tag = ""
                        /\ (future[j] # "none" \/ rules[j].server = "missing")}
        last == CHOOSE j \in before : \A l \in before : l <= j
    IN  IF before = {} \/ rules[last].server = "missing" THEN NoFuture ELSE last

\* Rule i matches the responses that have arrived.
Hits(i) ==
    /\ \A t \in rules[i].bind \ {""} : View(NamedFuture(t)) = "hit"
    /\ "" \in rules[i].bind => View(AnonymousAt(i)) = "hit"

Decides(i) ==
    \/ rules[i].act \in {"respond", "reject", "predefined"}
    \/ rules[i].act = "route" /\ rules[i].server = "found"

\* The rules listed before the one with index i, all of them for the default.
Before(i) == {j \in Indices : i = 0 \/ j < i}

Decided == pc = "done" /\ result.kind # "ctx" /\ missed = {}

\* The walk decides as the listed order and race promise: the deciding rule
\* matched, no rule without race before it did, and, unless it is itself a race
\* rule, no race rule before it did.  A response that is overlooked
\* (JudgedWithResponse) is the one exception.
LawfulResult ==
    Decided =>
        LET i == result.rule IN
        /\ i # 0 => Decides(i) /\ Hits(i)
        /\ \A j \in Before(i) :
            Hits(j) /\ Decides(j) => i # 0 /\ rules[i].race /\ rules[j].race

\* The deciding query is made with the options of the matched route-options
\* rules listed before the deciding one and with no others, although the walk
\* may have gone on past an armed rule.
OptionsInOrder ==
    Decided => result.options = {j \in Before(result.rule) : rules[j].act = "options" /\ Hits(j)}

\* A query that is not speculative is sent only when every race rule before it
\* has been judged and did not decide.
HeldQueries ==
    [][\A i \in Indices :
        future[i] = "none" /\ future'[i] # "none" /\ ~rules[i].spec =>
            \A j \in 1 .. i - 1 : rules[j].race => j \in judged \/ ~Decides(j)]_vars

\* A rule is judged with the responses it is bound to: one that has arrived is
\* never taken for missing ("Each race rule is judged once its referenced
\* responses are available", "a rule with `match_response` waits for its
\* referenced responses").
JudgedWithResponse == missed = {}

\* The walk ends once the client has called back: no wake-up is lost.
WalkEnds == <>(pc = "done")
=============================================================================
