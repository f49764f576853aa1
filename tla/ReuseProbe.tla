------------------------------ MODULE ReuseProbe ------------------------------
(***************************************************************************)
(* How the query multiplexer finds out whether a server answers several     *)
(* queries on one connection (dns/transport/multiplexer.go, probeReuse, set *)
(* for plain TCP): the reuse state, the probes that decide it, the failures *)
(* that demote it, and Reset.                                               *)
(***************************************************************************)
EXTENDS Naturals, FiniteSets

CONSTANTS
    Probes,     \* goroutines of runReuseProbe
    Readers,    \* recvLoops that meet a read error
    MaxEpoch    \* bound on the number of Resets

ASSUME MaxEpochIsNatural == MaxEpoch \in Nat

VARIABLES
    reuseState, demoteFailures, probeEpoch,
    lastProbe,  \* lastProbeTime: zero, or within or past reuseProbeRetryInterval
    probe,      \* [pc, epoch] of a dispatch and of the runReuseProbe it starts
    reader,     \* where each recvLoop is in recordConnDeath
    resetting,  \* Reset has released probeAccess
    proven      \* history: the epochs one of whose probes succeeded

vars == <<reuseState, demoteFailures, probeEpoch, lastProbe, probe, reader, resetting, proven>>

reuseDemoteFailureLimit == 3
Epochs == 0 .. MaxEpoch
ReuseStates == {"unknown", "probing", "supported", "unsupported"}
Results == {"supported", "dialFailed", "unsupported"}

TypeOK ==
    /\ reuseState \in ReuseStates
    /\ demoteFailures \in Nat /\ probeEpoch \in Epochs
    /\ lastProbe \in {"zero", "recent", "old"}
    /\ probe \in [Probes -> [pc : {"none", "asking", "running"} \cup Results, epoch : Epochs]]
    /\ reader \in [Readers -> {"reading", "count", "demote", "clear"}]
    /\ resetting \in BOOLEAN
    /\ proven \subseteq Epochs

NoProbe == [pc |-> "none", epoch |-> 0]

Init ==
    /\ reuseState = "unknown" /\ demoteFailures = 0
    /\ probeEpoch = 0 /\ lastProbe = "zero"
    /\ probe = [p \in Probes |-> NoProbe]
    /\ reader = [r \in Readers |-> "reading"]
    /\ resetting = FALSE /\ proven = {}

-----------------------------------------------------------------------------
(* Probes *)

\* A query is dispatched and loads a state other than supported; it goes to a
\* connection of its own (exchangeSingle).
dispatch(p) ==
    /\ probe[p].pc = "none"
    /\ reuseState # "supported"
    /\ probe' = [probe EXCEPT ![p].pc = "asking"]
    /\ UNCHANGED <<reuseState, demoteFailures, probeEpoch, lastProbe, reader, resetting, proven>>

Starts(p) == reuseState # "probing" /\ lastProbe # "recent"

maybeStartProbe(p) ==
    /\ probe[p].pc = "asking"
    /\ \/ /\ ~Starts(p)
          /\ probe' = [probe EXCEPT ![p] = NoProbe]
          /\ UNCHANGED <<reuseState, lastProbe>>
       \/ /\ Starts(p)
          /\ reuseState' = "probing"
          /\ lastProbe' = "recent"
          /\ probe' = [probe EXCEPT ![p] = [pc |-> "running", epoch |-> probeEpoch]]
    /\ UNCHANGED <<demoteFailures, probeEpoch, reader, resetting, proven>>

\* Fault: without reuseProbeTimeout a silent server holds the probe until Reset.
executeWithoutTimeout(p) ==
    /\ probe[p].pc = "running"
    /\ probe[p].epoch # probeEpoch
    /\ \E result \in Results : probe' = [probe EXCEPT ![p].pc = result]
    /\ UNCHANGED <<reuseState, demoteFailures, probeEpoch, lastProbe, reader, resetting, proven>>

\* The dial fails; a write or a read fails, or probeCtx times out; or both
\* queries are answered.
executeReuseProbe(p) ==
    /\ probe[p].pc = "running"
    /\ \E result \in Results : probe' = [probe EXCEPT ![p].pc = result]
    /\ UNCHANGED <<reuseState, demoteFailures, probeEpoch, lastProbe, reader, resetting, proven>>

\* Fault: a result is believed whatever Reset did in the meantime.
AnyEpoch(p) == TRUE

SameEpoch(p) == probe[p].epoch = probeEpoch

Verdict(result) == IF result = "dialFailed" THEN "unknown" ELSE result

runReuseProbe(p) ==
    /\ probe[p].pc \in Results
    /\ probe' = [probe EXCEPT ![p] = NoProbe]
    /\ reuseState' = IF SameEpoch(p) THEN Verdict(probe[p].pc) ELSE reuseState
    /\ demoteFailures' = IF SameEpoch(p) /\ probe[p].pc = "supported" THEN 0 ELSE demoteFailures
    /\ proven' = IF probe[p].pc = "supported" THEN proven \cup {probe[p].epoch} ELSE proven
    /\ UNCHANGED <<probeEpoch, lastProbe, reader, resetting>>

Elapse ==
    /\ lastProbe = "recent"
    /\ lastProbe' = "old"
    /\ UNCHANGED <<reuseState, demoteFailures, probeEpoch, probe, reader, resetting, proven>>

-----------------------------------------------------------------------------
(* recordConnDeath, in the recvLoop of a shared connection *)

\* The state is loaded, and readEpoch: a connection that answered before.
deathSeen(r) ==
    /\ reader[r] = "reading"
    /\ reuseState = "supported"
    /\ reader' = [reader EXCEPT ![r] = "count"]
    /\ UNCHANGED <<reuseState, demoteFailures, probeEpoch, lastProbe, probe, resetting, proven>>

deathCounted(r) ==
    /\ reader[r] = "count"
    /\ \/ /\ demoteFailures' = 0                    \* nothing was pending on it
          /\ reader' = [reader EXCEPT ![r] = "reading"]
       \/ /\ demoteFailures' = demoteFailures + 1
          /\ reader' = [reader EXCEPT ![r] =
                IF demoteFailures' < reuseDemoteFailureLimit THEN "reading" ELSE "demote"]
    /\ UNCHANGED <<reuseState, probeEpoch, lastProbe, probe, resetting, proven>>

\* Fault: the state is not looked at again under the lock.
demoteAlways(r) ==
    /\ reader[r] = "demote"
    /\ reader' = [reader EXCEPT ![r] = "clear"]
    /\ reuseState' = "unsupported" /\ lastProbe' = "recent"
    /\ UNCHANGED <<demoteFailures, probeEpoch, probe, resetting, proven>>

demote(r) ==
    /\ reader[r] = "demote"
    /\ reader' = [reader EXCEPT ![r] = "clear"]
    /\ IF reuseState = "supported"
       THEN reuseState' = "unsupported" /\ lastProbe' = "recent"
       ELSE UNCHANGED <<reuseState, lastProbe>>
    /\ UNCHANGED <<demoteFailures, probeEpoch, probe, resetting, proven>>

\* Fault: the failures that led to a demotion are kept.
keepFailures(r) ==
    /\ reader[r] = "clear"
    /\ reader' = [reader EXCEPT ![r] = "reading"]
    /\ UNCHANGED <<reuseState, demoteFailures, probeEpoch, lastProbe, probe, resetting, proven>>

clearFailures(r) ==
    /\ reader[r] = "clear"
    /\ reader' = [reader EXCEPT ![r] = "reading"]
    /\ demoteFailures' = 0
    /\ UNCHANGED <<reuseState, probeEpoch, lastProbe, probe, resetting, proven>>

-----------------------------------------------------------------------------

\* Reset, up to the release of probeAccess, and what is left of it.
Reset ==
    /\ ~resetting
    /\ probeEpoch < MaxEpoch
    /\ probeEpoch' = probeEpoch + 1
    /\ reuseState' = "unknown"
    /\ lastProbe' = "zero"
    /\ resetting' = TRUE
    /\ UNCHANGED <<demoteFailures, probe, reader, proven>>

ResetFailures ==
    /\ resetting
    /\ resetting' = FALSE
    /\ demoteFailures' = 0
    /\ UNCHANGED <<reuseState, probeEpoch, lastProbe, probe, reader, proven>>

ProbeStep(p) == maybeStartProbe(p) \/ executeReuseProbe(p) \/ runReuseProbe(p)

Next ==
    \/ \E p \in Probes : dispatch(p) \/ ProbeStep(p)
    \/ \E r \in Readers : deathSeen(r) \/ deathCounted(r) \/ demote(r) \/ clearFailures(r)
    \/ Elapse \/ Reset \/ ResetFailures

Spec == Init /\ [][Next]_vars

\* A probe ends: executeReuseProbe runs under reuseProbeTimeout.
FairSpec == Spec /\ \A p \in Probes : WF_vars(ProbeStep(p))

-----------------------------------------------------------------------------
(* Properties *)

\* The probe of the current epoch that is under way.
CurrentProbes ==
    {p \in Probes : probe[p].pc \in Results \cup {"running"} /\ probe[p].epoch = probeEpoch}

\* The state says probing exactly while one probe of this epoch is under way:
\* it can neither get stuck in probing, where maybeStartProbe would never start
\* another, nor be probing twice, whatever Reset and demotions do meanwhile.
ProbeOwned ==
    /\ reuseState = "probing" <=> CurrentProbes # {}
    /\ Cardinality(CurrentProbes) <= 1

\* Queries share a connection only with a server that passed a probe since the
\* last Reset: a late result from before it is not believed.
SupportedIsProven == reuseState = "supported" => probeEpoch \in proven

\* Deaths are counted without a lock, by several recvLoops and against Reset and
\* new verdicts; a count that has reached reuseDemoteFailureLimit is nevertheless
\* in the hands of a recvLoop that demotes the server and clears it.  No such
\* count is left for a server that passes its next probe.
LimitIsActedOn ==
    demoteFailures >= reuseDemoteFailureLimit => \E r \in Readers : reader[r] \in {"demote", "clear"}

\* Probing comes to an end.
ProbingEnds == reuseState = "probing" ~> reuseState # "probing"
=============================================================================
