------------------------- MODULE ReuseProbe_proofs -------------------------
(***************************************************************************)
(* The safety of the reuse state, for any number of probes, connections and *)
(* Resets.                                                                  *)
(***************************************************************************)
EXTENDS ReuseProbe, FiniteSetTheorems, TLAPS

\* p is a probe of this epoch whose result has not been stored.
Current(p) == probe[p].pc \in Results \cup {"running"} /\ probe[p].epoch = probeEpoch

\* The inductive invariant: ProbeOwned, said without a cardinality, and that no
\* probe is of a later epoch, or a Reset could turn an old probe into a current
\* one.
IInv ==
    /\ TypeOK
    /\ reuseState = "probing" <=> \E p \in Probes : Current(p)
    /\ \A p, q \in Probes : Current(p) /\ Current(q) => p = q
    /\ \A p \in Probes : probe[p].epoch <= probeEpoch
    /\ SupportedIsProven

\* Nothing is under way in the initial state.
LEMMA InitIInv == Init => IInv
  <1> SUFFICES ASSUME Init PROVE IInv
    OBVIOUS
  <1>1. TypeOK
    <2>1. 0 \in Epochs
      BY MaxEpochIsNatural DEF Epochs
    <2>2. NoProbe \in [pc : {"none", "asking", "running"} \cup Results, epoch : Epochs]
      BY <2>1 DEF NoProbe
    <2> QED
      BY Zenon, <2>1, <2>2 DEF Init, TypeOK, ReuseStates
  <1>2. \A p \in Probes : ~Current(p) /\ probe[p].epoch <= probeEpoch
    BY DEF Init, Current, NoProbe, Results
  <1> QED
    BY <1>1, <1>2 DEF Init, IInv, SupportedIsProven

\* The steps of a probe: it starts only when none is current, and its result
\* counts only in its own epoch.
LEMMA ProbeStepIInv ==
    ASSUME NEW p \in Probes, IInv, dispatch(p) \/ ProbeStep(p)
    PROVE  IInv'
  <1> USE DEF Epochs
  <1>1. CASE dispatch(p)
    BY <1>1 DEF IInv, TypeOK, dispatch, Current, Results, SupportedIsProven
  <1>0. NoProbe \in [pc : {"none", "asking", "running"} \cup Results, epoch : Epochs]
    BY MaxEpochIsNatural DEF NoProbe
  <1>2. CASE maybeStartProbe(p) /\ ~Starts(p)
    <2>1. TypeOK'
      BY <1>0, <1>2 DEF IInv, TypeOK, maybeStartProbe
    <2>2. \A q \in Probes : Current(q)' <=> Current(q)
      BY <1>2 DEF IInv, TypeOK, maybeStartProbe, NoProbe, Current, Results
    <2>3. \A q \in Probes : probe'[q].epoch <= probeEpoch'
      BY <1>2 DEF IInv, TypeOK, maybeStartProbe, NoProbe
    <2> QED
      BY <1>2, <2>1, <2>2, <2>3 DEF IInv, maybeStartProbe, SupportedIsProven
  <1>3. CASE maybeStartProbe(p) /\ Starts(p)
    BY SMTT(40), <1>3 DEF IInv, TypeOK, maybeStartProbe, Starts, ReuseStates, Current, Results, SupportedIsProven
  <1>4. CASE executeReuseProbe(p)
    BY <1>4 DEF IInv, TypeOK, executeReuseProbe, Current, Results, SupportedIsProven
  <1>5. CASE runReuseProbe(p)
    <2>1. TypeOK'
      <3>1. reuseState' \in ReuseStates
        BY <1>5 DEF IInv, TypeOK, runReuseProbe, Verdict, Results, ReuseStates
      <3>2. probe' \in [Probes -> [pc : {"none", "asking", "running"} \cup Results, epoch : Epochs]]
        BY <1>0, <1>5 DEF IInv, TypeOK, runReuseProbe
      <3>3. demoteFailures' \in Nat /\ proven' \subseteq Epochs
        BY Zenon, <1>5 DEF IInv, TypeOK, runReuseProbe
      <3> QED
        BY <1>5, <3>1, <3>2, <3>3 DEF IInv, TypeOK, runReuseProbe
    <2>2. \A q \in Probes : Current(q)' <=> Current(q) /\ q # p
      BY <1>5 DEF IInv, TypeOK, runReuseProbe, NoProbe, Current, Results
    <2>3. \A q \in Probes : probe'[q].epoch <= probeEpoch'
      BY <1>5 DEF IInv, TypeOK, runReuseProbe, NoProbe
    <2>4. CASE SameEpoch(p)
      <3>1. Current(p)
        BY <1>5, <2>4 DEF runReuseProbe, SameEpoch, Current
      <3>2. reuseState' # "probing" /\ SupportedIsProven'
        BY <1>5, <2>4 DEF runReuseProbe, SameEpoch, Verdict, Results, SupportedIsProven
      <3> QED
        BY <2>1, <2>2, <2>3, <3>1, <3>2 DEF IInv
    <2>5. CASE ~SameEpoch(p)
      BY <1>5, <2>1, <2>2, <2>3, <2>5 DEF IInv, runReuseProbe, SameEpoch, Current, SupportedIsProven
    <2> QED
      BY <2>4, <2>5
  <1> QED
    BY <1>1, <1>2, <1>3, <1>4, <1>5 DEF ProbeStep

\* The steps of recordConnDeath: a demotion never touches the probing state.
LEMMA ReaderStepIInv ==
    ASSUME NEW r \in Readers, IInv, deathSeen(r) \/ deathCounted(r) \/ demote(r) \/ clearFailures(r)
    PROVE  IInv'
  <1>1. CASE deathSeen(r)
    BY <1>1 DEF IInv, TypeOK, deathSeen, Current, SupportedIsProven
  <1>2. CASE deathCounted(r)
    BY <1>2 DEF IInv, TypeOK, deathCounted, Current, SupportedIsProven
  <1>3. CASE demote(r)
    BY <1>3 DEF IInv, TypeOK, demote, ReuseStates, Current, SupportedIsProven
  <1>4. CASE clearFailures(r)
    BY <1>4 DEF IInv, TypeOK, clearFailures, Current, SupportedIsProven
  <1> QED
    BY <1>1, <1>2, <1>3, <1>4

\* After a Reset no probe is of the new epoch.
LEMMA ResetIInv == IInv /\ Reset => IInv'
  <1> SUFFICES ASSUME IInv, Reset PROVE IInv'
    OBVIOUS
  <1>1. TypeOK'
    BY MaxEpochIsNatural DEF IInv, TypeOK, Reset, Epochs, ReuseStates
  <1>2. \A p \in Probes : ~Current(p)' /\ probe'[p].epoch <= probeEpoch'
    BY MaxEpochIsNatural DEF IInv, TypeOK, Reset, Current, Epochs
  <1> QED
    BY <1>1, <1>2 DEF IInv, Reset, SupportedIsProven

\* The invariant is inductive.
LEMMA NextIInv == IInv /\ [Next]_vars => IInv'
  <1> SUFFICES ASSUME IInv, [Next]_vars PROVE IInv'
    OBVIOUS
  <1>1. CASE \E p \in Probes : dispatch(p) \/ ProbeStep(p)
    BY <1>1, ProbeStepIInv
  <1>2. CASE \E r \in Readers : deathSeen(r) \/ deathCounted(r) \/ demote(r) \/ clearFailures(r)
    BY <1>2, ReaderStepIInv
  <1>3. CASE Elapse
    BY <1>3 DEF IInv, TypeOK, Elapse, Current, SupportedIsProven
  <1>4. CASE Reset
    BY <1>4, ResetIInv
  <1>5. CASE ResetFailures
    BY Zenon, <1>5 DEF IInv, TypeOK, ResetFailures, Current, SupportedIsProven
  <1>6. CASE UNCHANGED vars
    BY <1>6 DEF IInv, TypeOK, vars, Current, SupportedIsProven
  <1> QED
    BY <1>1, <1>2, <1>3, <1>4, <1>5, <1>6 DEF Next

\* At most one current probe, as a cardinality.
LEMMA IInvProbeOwned == IInv => ProbeOwned
  <1> SUFFICES ASSUME IInv PROVE ProbeOwned
    OBVIOUS
  <1>1. \A p : p \in CurrentProbes <=> p \in Probes /\ Current(p)
    BY DEF CurrentProbes, Current
  <1>2. reuseState = "probing" <=> CurrentProbes # {}
    BY <1>1 DEF IInv
  <1>3. CASE CurrentProbes = {}
    <2>1. Cardinality(CurrentProbes) = 0
      BY <1>3, FS_EmptySet
    <2> QED
      BY <1>2, <2>1 DEF ProbeOwned
  <1>4. CASE CurrentProbes # {}
    <2>1. PICK p : CurrentProbes = {p}
      BY Zenon, <1>1, <1>4 DEF IInv
    <2>2. Cardinality(CurrentProbes) = 1
      BY Zenon, <2>1, FS_Singleton
    <2> QED
      BY <1>2, <2>2 DEF ProbeOwned
  <1> QED
    BY <1>3, <1>4

\* The state is probing exactly while one probe of the current epoch is under
\* way, so it is never stuck in probing and never probed twice at a time.
THEOREM ProbeIsOwned == Spec => []ProbeOwned
  BY InitIInv, NextIInv, IInvProbeOwned, PTL DEF Spec

\* Connections are shared only with a server that has passed a probe since the
\* last Reset.
THEOREM SupportedWasProven == Spec => []SupportedIsProven
  <1>1. IInv => SupportedIsProven
    BY DEF IInv
  <1> QED
    BY <1>1, InitIInv, NextIInv, PTL DEF Spec

\* A count at the limit belongs to a recvLoop that will demote and clear it.
THEOREM LimitActedOn == Spec => []LimitIsActedOn
<1>1. Init => LimitIsActedOn
  BY DEF Init, LimitIsActedOn, reuseDemoteFailureLimit
<1>2. IInv /\ LimitIsActedOn /\ [Next]_vars => LimitIsActedOn'
  <2> SUFFICES ASSUME IInv, LimitIsActedOn, [Next]_vars PROVE LimitIsActedOn'
    BY Zenon
  <2>0. demoteFailures \in Nat /\ reader \in [Readers -> {"reading", "count", "demote", "clear"}]
    BY Zenon DEF IInv, TypeOK
  <2>1. ASSUME NEW r \in Readers, deathCounted(r), demoteFailures' # 0 PROVE LimitIsActedOn'
    BY <2>0, <2>1 DEF LimitIsActedOn, deathCounted, reuseDemoteFailureLimit
  <2>2. CASE demoteFailures' = 0
    BY <2>2 DEF LimitIsActedOn, reuseDemoteFailureLimit
  <2>3. ASSUME NEW r \in Readers, deathSeen(r) \/ demote(r) PROVE LimitIsActedOn'
    <3>1. /\ demoteFailures' = demoteFailures
          /\ \/ reader' = [reader EXCEPT ![r] = "count"] /\ reader[r] = "reading"
             \/ reader' = [reader EXCEPT ![r] = "clear"]
      BY Zenon, <2>3 DEF deathSeen, demote
    <3> QED BY <2>0, <3>1 DEF LimitIsActedOn, reuseDemoteFailureLimit
  <2>4. CASE UNCHANGED <<demoteFailures, reader>>
    BY Zenon, <2>4 DEF LimitIsActedOn
  <2>5. ASSUME NEW p \in Probes, dispatch(p) \/ ProbeStep(p)
        PROVE  demoteFailures' = 0 \/ UNCHANGED <<demoteFailures, reader>>
    BY Zenon, <2>5 DEF dispatch, ProbeStep, maybeStartProbe, executeReuseProbe, runReuseProbe
  <2> QED
    BY Zenon, <2>1, <2>2, <2>3, <2>4, <2>5 DEF Next, clearFailures, Elapse, Reset, ResetFailures, vars
<1> QED
  BY <1>1, <1>2, InitIInv, NextIInv, PTL DEF Spec
=============================================================================
