------------------------ MODULE OutboundGroup_proofs ------------------------
(***************************************************************************)
(* Connections do not outlive the selection, and an update selects the      *)
(* first tested member, for any members, networks and callers.              *)
(***************************************************************************)
EXTENDS OutboundGroup, TLAPS

\* Whom Pick may name.
Picks == Members \cup {FirstOf(Supporting(n)) : n \in Nets}

Places == {"idle", "update", "select", "interrupt", "attach", "dial", "wrap", "open"}

Calls == [pc : Places, routed : BOOLEAN, external : BOOLEAN, net : DOMAIN Networks, member : Picks \cup {nil},
          at : DOMAIN outbounds, first : Members \cup {nil}, updated : BOOLEAN]

Updating == {"select", "interrupt"}
Dialling == {"attach", "dial", "wrap", "open"}

GroupType ==
    /\ caller \in [Callers -> Calls]
    /\ selected \in [Nets -> Members \cup {nil}]
    /\ quiet \in BOOLEAN
    /\ current \subseteq listed /\ listed \subseteq Dials

\* Who is inside performUpdateCheck holds updateAccess.
LockInv ==
    \A p \in Callers :
        /\ caller[p].pc \in Updating <=> updateAccess = p
        /\ caller[p].updated => caller[p].pc \in Updating

\* What the interrupt group lists is open, or routed and being dialled.
ListInv ==
    /\ \A d \in listed : caller[d].pc = "open" \/ (caller[d].pc = "dial" /\ caller[d].routed)
    /\ \A p \in Callers : caller[p].pc \in Dialling => caller[p].member # nil
    /\ \A p \in Callers : caller[p].pc = "attach" => caller[p].routed

\* The network is decided as SelectsFirstTested wants it.
Good(n) == Supporting(n) \cap history # {} => selected[n] = FirstOf(Supporting(n) \cap history)

\* The networks before the one at hand are decided, and the members before the
\* one at hand are not tested.
Decided(p) ==
    /\ caller[p].pc = "select" =>
          /\ \A i \in 1 .. caller[p].net - 1 : Good(Networks[i])
          /\ \A j \in 1 .. caller[p].at - 1 : outbounds[j] \notin Supporting(NetOf(p)) \cap history
    /\ caller[p].pc = "interrupt" => \A n \in Nets : Good(n)

SelectInv == quiet => \A p \in Callers : Decided(p)

\* The inductive invariant.
GroupInv == GroupType /\ LockInv /\ ListInv /\ OnSelected /\ SelectInv

-----------------------------------------------------------------------------
(* Lists *)

\* The members and the networks, by index.
LEMMA Lists ==
    /\ Len(outbounds) \in Nat \ {0} /\ DOMAIN outbounds = 1 .. Len(outbounds)
    /\ \A i \in DOMAIN outbounds : outbounds[i] \in Members
    /\ Len(Networks) \in Nat \ {0} /\ DOMAIN Networks = 1 .. Len(Networks)
    /\ \A i \in DOMAIN Networks : Networks[i] \in Nets
    /\ \A n \in Nets : \E i \in DOMAIN Networks : n = Networks[i]
<1>1. \A n \in Nets : \E i \in DOMAIN Networks : n = Networks[i]
  BY Zenon DEF Nets, Range
<1>2. /\ Len(outbounds) \in Nat \ {0} /\ DOMAIN outbounds = 1 .. Len(outbounds)
      /\ \A i \in DOMAIN outbounds : outbounds[i] \in Members
  BY SMT, GroupHasMembers
<1>3. /\ Len(Networks) \in Nat \ {0} /\ DOMAIN Networks = 1 .. Len(Networks)
      /\ \A i \in DOMAIN Networks : Networks[i] \in Nets
  BY SMT, NetworksListed
<1> QED BY Zenon, <1>1, <1>2, <1>3

\* FirstOf is the first.
LEMMA FirstFound ==
    ASSUME NEW S, NEW i \in DOMAIN outbounds, outbounds[i] \in S,
           \A j \in 1 .. i - 1 : outbounds[j] \notin S
    PROVE  FirstOf(S) = outbounds[i]
<1> DEFINE I == {j \in DOMAIN outbounds : outbounds[j] \in S}
<1>1. i \in I /\ \A j \in I : i <= j
  BY SMT, Lists
<1>2. \A j \in I : (\A k \in I : j <= k) => j = i
  BY SMT, <1>1, Lists
<1>3. Min(I) = i
  BY Zenon, <1>1, <1>2 DEF Min
<1> QED BY Zenon, <1>1, <1>3 DEF FirstOf

-----------------------------------------------------------------------------
(* Calls *)

\* A call moves on.
LEMMA Moved ==
    ASSUME NEW r \in Calls, NEW pc \in Places
    PROVE  LET s == [r EXCEPT !.pc = pc] IN
           /\ s \in Calls /\ s.pc = pc /\ s.routed = r.routed /\ s.external = r.external
           /\ s.net = r.net /\ s.member = r.member /\ s.updated = r.updated
BY SMT DEF Calls

\* A call that has nothing.
LEMMA IdleCall ==
    /\ Idle \in Calls /\ Idle.pc = "idle" /\ Idle.updated = FALSE /\ Idle.routed = FALSE
    /\ Idle.net = 1 /\ Idle.at = 1
BY SMT, Lists DEF Calls, Idle, Places

\* A dial through the group begins.
DialOf(n, m, x) == [Idle EXCEPT !.pc = "dial", !.external = x, !.net = n, !.member = m]

\* It is a call.
LEMMA NewDial ==
    ASSUME NEW n \in DOMAIN Networks, NEW m \in Picks, NEW x \in BOOLEAN
    PROVE  /\ DialOf(n, m, x) \in Calls /\ DialOf(n, m, x).pc = "dial"
           /\ DialOf(n, m, x).member = m /\ DialOf(n, m, x).updated = FALSE
<1> DEFINE s == [Idle EXCEPT !.pc = "dial", !.external = x, !.net = n, !.member = m]
<1>1. m \in Picks \cup {nil} /\ "dial" \in Places
  BY Zenon DEF Places
<1>2. s \in Calls
  BY Zenon, <1>1, IdleCall DEF Calls
<1>3. s.pc = "dial" /\ s.member = m /\ s.updated = FALSE
  BY Zenon DEF Idle
<1> QED BY Zenon, <1>2, <1>3 DEF DialOf

\* A routed connection begins.
LEMMA NewRouted ==
    ASSUME NEW n \in DOMAIN Networks, NEW m \in Picks
    PROVE  LET s == [Idle EXCEPT !.pc = "attach", !.routed = TRUE, !.external = TRUE,
                                 !.net = n, !.member = m] IN
           s \in Calls /\ s.pc = "attach" /\ s.routed = TRUE /\ s.member = m /\ s.updated = FALSE
<1> DEFINE s == [Idle EXCEPT !.pc = "attach", !.routed = TRUE, !.external = TRUE, !.net = n, !.member = m]
<1>1. m \in Picks \cup {nil} /\ "attach" \in Places /\ TRUE \in BOOLEAN
  BY Zenon DEF Places
<1>2. s \in Calls
  BY Zenon, <1>1, IdleCall DEF Calls
<1>3. s.pc = "attach" /\ s.routed = TRUE /\ s.member = m /\ s.updated = FALSE
  BY Zenon DEF Idle
<1> QED BY Zenon, <1>2, <1>3

USE NilIsNobody, CheckIsNoDial

-----------------------------------------------------------------------------
(* Steps outside performUpdateCheck *)

\* The history changes only with quiet, while updateAccess is held.
Hushed == quiet' /\ updateAccess # nil => quiet /\ history' = history

\* SetHistory is such a change.
LEMMA HistorySet == ASSUME NEW to, SetHistory(to) PROVE Hushed /\ quiet' \in BOOLEAN
<1>1. quiet' <=> (updateAccess = nil \/ (quiet /\ to = history))
  BY Zenon DEF SetHistory
<1>2. quiet' \in BOOLEAN
  BY Zenon DEF SetHistory
<1> QED BY Zenon, <1>1, <1>2 DEF SetHistory, Hushed

\* A caller in performUpdateCheck that stays where it is.
LEMMA DecidedSame ==
    ASSUME GroupInv, Hushed, selected' = selected, NEW p \in Callers,
           quiet', caller'[p] = caller[p]
    PROVE  Decided(p)'
<1>1. CASE caller[p].pc \notin Updating
  BY Zenon, <1>1 DEF Decided, Updating
<1>2. CASE caller[p].pc \in Updating
  <2>1. updateAccess = p /\ updateAccess # nil
    BY Zenon, <1>2 DEF GroupInv, LockInv
  <2>2. quiet /\ history' = history /\ Decided(p)
    BY Zenon, <2>1 DEF Hushed, GroupInv, SelectInv
  <2>3. \A n \in Nets : Good(n) => Good(n)'
    BY Zenon, <2>2 DEF Good, Supporting
  <2>4. caller[p].pc = "select" => \A i \in 1 .. caller[p].net - 1 : Networks[i] \in Nets
    <3>1. caller[p].net \in DOMAIN Networks
      BY Zenon DEF GroupInv, GroupType, Calls
    <3> QED BY SMT, <3>1, Lists
  <2>5. NetOf(p)' = NetOf(p)
    BY Zenon DEF NetOf
  <2> QED BY Zenon, <2>2, <2>3, <2>4, <2>5 DEF Decided, Supporting
<1> QED BY Zenon, <1>1, <1>2

\* What a step of d outside performUpdateCheck does to its entry in the
\* interrupt group: it leaves, or is added, or stays.
Leaves(d) == listed' = listed \ {d} /\ current' = current \ {d}
Enters(d) ==
    /\ d \in Dials \ listed /\ listed' = listed \cup {d}
    /\ current' = IF selected[Networks[caller'[d].net]] = caller'[d].member THEN current \cup {d} ELSE current
    /\ caller'[d].pc = "open" \/ (caller'[d].pc = "dial" /\ caller'[d].routed)
Stays(d) ==
    /\ UNCHANGED <<listed, current>>
    /\ d \in listed => /\ caller'[d].pc = "open" \/ (caller'[d].pc = "dial" /\ caller'[d].routed)
                       /\ caller'[d].external = caller[d].external /\ caller'[d].net = caller[d].net
                       /\ caller'[d].member = caller[d].member

\* A step of a caller outside performUpdateCheck preserves the invariant.
LEMMA CallerStep ==
    ASSUME GroupInv, Hushed, quiet' \in BOOLEAN, UNCHANGED <<selected, updateAccess>>,
           NEW d \in Callers, NEW r \in Calls, caller' = [caller EXCEPT ![d] = r],
           caller[d].pc \notin Updating, r.pc \notin Updating, ~r.updated,
           r.pc \in Dialling => r.member # nil, r.pc = "attach" => r.routed,
           Leaves(d) \/ Enters(d) \/ Stays(d)
    PROVE  GroupInv'
<1>1. /\ caller'[d] = r /\ \A p \in Callers \ {d} : caller'[p] = caller[p]
      /\ \A p \in Callers : caller'[p] \in Calls
  BY Zenon DEF GroupInv, GroupType
<1>2. GroupType'
  <2>1. caller' \in [Callers -> Calls]
    BY Zenon DEF GroupInv, GroupType
  <2>2. (current \subseteq listed /\ listed \subseteq Dials)'
    BY SMT DEF GroupInv, GroupType, Leaves, Enters, Stays
  <2> QED BY Zenon, <2>1, <2>2 DEF GroupInv, GroupType
<1>3. LockInv'
  BY ZenonT(40), <1>1 DEF GroupInv, LockInv
<1>4. ListInv'
  <2>1. /\ \A p \in Callers : caller'[p].pc \in Dialling => caller'[p].member # nil
        /\ \A p \in Callers : caller'[p].pc = "attach" => caller'[p].routed
    BY Zenon, <1>1 DEF GroupInv, ListInv
  <2>2. ASSUME NEW e \in listed' PROVE caller'[e].pc = "open" \/ (caller'[e].pc = "dial" /\ caller'[e].routed)
    <3>1. e \in Callers
      BY Zenon, <1>2 DEF GroupType, Callers
    <3>2. CASE e = d
      BY Zenon, <3>2, <2>2 DEF Leaves, Enters, Stays
    <3>3. CASE e # d
      <4>1. e \in listed /\ caller'[e] = caller[e]
        BY Zenon, <3>1, <3>3, <1>1, <2>2 DEF Leaves, Enters, Stays
      <4> QED BY Zenon, <4>1 DEF GroupInv, ListInv
    <3> QED BY Zenon, <3>2, <3>3
  <2> QED BY Zenon, <2>1, <2>2 DEF ListInv
<1>5. OnSelected'
  <2> SUFFICES ASSUME NEW e \in current', e \in Interruptible', \A p \in Callers : ~caller'[p].updated
               PROVE  selected'[NetOf(e)'] = caller'[e].member
    BY Zenon DEF OnSelected
  <2>1. \A p \in Callers : ~caller[p].updated
    BY Zenon, <1>1 DEF GroupInv, LockInv
  <2>2. e \in Callers /\ e \in listed'
    BY Zenon, <1>2 DEF GroupType, Callers
  <2>3. ASSUME e \in current, caller'[e].external = caller[e].external, caller'[e].net = caller[e].net,
               caller'[e].member = caller[e].member
        PROVE  selected'[NetOf(e)'] = caller'[e].member
    <3>1. e \in Interruptible
      BY Zenon, <2>3 DEF Interruptible, GroupInv, GroupType
    <3> QED BY Zenon, <2>1, <2>3, <3>1 DEF GroupInv, OnSelected, NetOf
  <2>4. CASE e # d
    <3>1. e \in current /\ caller'[e] = caller[e]
      BY ZenonT(40), <2>2, <2>4, <1>1 DEF Leaves, Enters, Stays
    <3> QED BY Zenon, <2>3, <3>1
  <2>5. CASE e = d
    <3>1. CASE Enters(d)
      BY Zenon, <2>5, <3>1 DEF Enters, NetOf, GroupInv, GroupType
    <3>2. CASE Stays(d)
      BY Zenon, <2>2, <2>3, <2>5, <3>2 DEF Stays
    <3>3. CASE Leaves(d)
      BY Zenon, <2>5, <3>3 DEF Leaves
    <3> QED BY Zenon, <3>1, <3>2, <3>3
  <2> QED BY Zenon, <2>4, <2>5
<1>6. SelectInv'
  <2> SUFFICES ASSUME quiet', NEW p \in Callers PROVE Decided(p)'
    BY Zenon DEF SelectInv
  <2>1. CASE p = d
    BY Zenon, <2>1, <1>1 DEF Decided, Updating
  <2>2. CASE p # d
    BY Zenon, <2>2, <1>1, DecidedSame
  <2> QED BY Zenon, <2>1, <2>2
<1> QED BY Zenon, <1>2, <1>3, <1>4, <1>5, <1>6 DEF GroupInv

\* A step that concerns no caller preserves the invariant.
LEMMA NoCallerStep ==
    ASSUME GroupInv, Hushed, quiet' \in BOOLEAN,
           UNCHANGED <<selected, updateAccess, caller, listed, current>>
    PROVE  GroupInv'
<1>1. GroupType' /\ LockInv' /\ ListInv'
  BY Zenon DEF GroupInv, GroupType, LockInv, ListInv
<1>2. OnSelected'
  BY Zenon DEF GroupInv, OnSelected, Interruptible, NetOf
<1>3. SelectInv'
  BY Zenon, DecidedSame DEF SelectInv
<1> QED BY Zenon, <1>1, <1>2, <1>3 DEF GroupInv

\* Checks, the loop and the environment.
LEMMA CheckSteps ==
    ASSUME GroupInv,
           \/ CheckStep \/ LoopStep \/ CheckOutbounds
           \/ \E m \in Members : HealthChange(m)
           \/ TimePasses \/ UNCHANGED vars
    PROVE  GroupInv'
<1>1. CASE urlTestUpdate
  <2> DEFINE r == [caller[Check] EXCEPT !.pc = "update"]
  <2>1. Check \in Callers /\ caller[Check] \in Calls /\ Check \notin listed
    BY Zenon DEF Callers, GroupInv, GroupType
  <2>2. /\ r \in Calls /\ r.pc = "update" /\ r.updated = caller[Check].updated
    BY Zenon, <2>1, Moved DEF Places
  <2>3. ~r.updated /\ caller[Check].pc \notin Updating
    BY Zenon, <1>1, <2>1, <2>2 DEF urlTestUpdate, GroupInv, LockInv, Updating
  <2>4. caller' = [caller EXCEPT ![Check] = r] /\ UNCHANGED <<selected, updateAccess, quiet, listed, current, history>>
    BY Zenon, <1>1 DEF urlTestUpdate
  <2>5. Hushed /\ quiet' \in BOOLEAN /\ Stays(Check)
    BY Zenon, <2>1, <2>4 DEF Hushed, Stays, GroupInv, GroupType
  <2> HIDE DEF r
  <2> QED BY Zenon, <2>1, <2>2, <2>3, <2>4, <2>5, CallerStep DEF Updating, Dialling
<1>2. ASSUME NEW m \in Members, storeResult(m) PROVE GroupInv'
  <2>1. Hushed /\ quiet' \in BOOLEAN
    BY Zenon, <1>2, HistorySet DEF storeResult
  <2> QED BY Zenon, <1>2, <2>1, NoCallerStep DEF storeResult
<1>3. ASSUME UNCHANGED <<history, selected, updateAccess, caller, listed, quiet, current>> PROVE GroupInv'
  BY Zenon, <1>3, NoCallerStep DEF Hushed, GroupInv, GroupType
<1>4. ASSUME NEW m \in Members, testOutbound(m) \/ skipOutbound(m) \/ dropResult(m) \/ HealthChange(m) PROVE GroupInv'
  BY Zenon, <1>3, <1>4 DEF testOutbound, skipOutbound, dropResult, HealthChange
<1>5. CASE LoopStep \/ CheckOutbounds \/ TimePasses
  BY Zenon, <1>3, <1>5 DEF LoopStep, loopTick, loopStop, CheckOutbounds, TimePasses
<1>6. CASE UNCHANGED vars
  BY Zenon, <1>3, <1>6 DEF vars
<1> QED BY Zenon, <1>1, <1>2, <1>4, <1>5, <1>6 DEF CheckStep

\* Where a dial that is not listed stands.
LEMMA Unlisted ==
    ASSUME GroupInv, NEW d \in Dials, caller[d].pc \notin {"open", "dial"} PROVE d \notin listed
BY Zenon DEF GroupInv, ListInv

\* Dials and routed connections.
LEMMA DialSteps ==
    ASSUME GroupInv, NEW d \in Dials,
           \/ DialStep(d) \/ DialCancelled(d) \/ Close(d)
           \/ \E n \in DOMAIN Networks : DialContext(d, n) \/ resolveOutbound(d, n)
    PROVE  GroupInv'
<1> DEFINE Unmoved == UNCHANGED <<history, selected, updateAccess, quiet>>
<1>0. /\ d \in Callers /\ caller[d] \in Calls /\ Idle \in Calls /\ Idle.pc = "idle" /\ ~Idle.updated
      /\ caller[d].updated => caller[d].pc \in Updating
      /\ caller[d].pc \in Dialling => caller[d].member # nil
  <2>1. d \in Callers /\ caller[d] \in Calls
    BY Zenon DEF Callers, GroupInv, GroupType
  <2>2. Idle \in Calls /\ Idle.pc = "idle" /\ ~Idle.updated
    BY Zenon, IdleCall
  <2> QED BY Zenon, <2>1, <2>2 DEF GroupInv, LockInv, ListInv
<1>1. ASSUME Unmoved PROVE Hushed /\ quiet' \in BOOLEAN
  BY Zenon, <1>1 DEF Hushed, GroupInv, GroupType
<1>2. ASSUME NEW n \in DOMAIN Networks, DialContext(d, n) \/ resolveOutbound(d, n) PROVE GroupInv'
  <2>1. Pick(Networks[n]) \ {nil} \subseteq Picks
    <3>1. Networks[n] \in Nets
      BY Zenon, Lists
    <3> QED BY Zenon, <3>1 DEF Pick, Picks, Supporting, GroupInv, GroupType
  <2>2. PICK r \in Calls :
          /\ caller' = [caller EXCEPT ![d] = r]
          /\ r.pc \in {"dial", "attach"} /\ ~r.updated /\ r.member # nil /\ (r.pc = "attach" => r.routed)
    <3>1. CASE DialContext(d, n)
      <4>1. PICK m \in Pick(Networks[n]) \ {nil}, x \in BOOLEAN :
              caller' = [caller EXCEPT ![d] = DialOf(n, m, x)]
        BY Zenon, <3>1 DEF DialContext, DialOf
      <4> DEFINE r == DialOf(n, m, x)
      <4>2. x \in BOOLEAN /\ m \in Picks /\ m # nil
        BY Zenon, <2>1, <4>1
      <4>3. r \in Calls /\ r.pc = "dial" /\ r.member = m /\ r.updated = FALSE
        BY ZenonT(40), <4>2, NewDial
      <4>4. caller' = [caller EXCEPT ![d] = r]
        BY Zenon, <4>1
      <4> HIDE DEF r
      <4> QED BY Zenon, <4>2, <4>3, <4>4
    <3>2. CASE resolveOutbound(d, n)
      <4>1. PICK m \in Pick(Networks[n]) \ {nil} :
              caller' = [caller EXCEPT ![d] = [Idle EXCEPT !.pc = "attach", !.routed = TRUE,
                                                             !.external = TRUE, !.net = n, !.member = m]]
        BY Zenon, <3>2 DEF resolveOutbound
      <4> DEFINE r == [Idle EXCEPT !.pc = "attach", !.routed = TRUE, !.external = TRUE, !.net = n, !.member = m]
      <4>2. m \in Picks /\ m # nil
        BY Zenon, <2>1, <4>1
      <4>3. r \in Calls /\ r.pc = "attach" /\ r.member = m /\ r.updated = FALSE /\ r.routed = TRUE
        BY Zenon, <4>2, NewRouted
      <4>4. caller' = [caller EXCEPT ![d] = r]
        BY Zenon, <4>1
      <4> HIDE DEF r
      <4> QED BY Zenon, <4>2, <4>3, <4>4
    <3> QED BY Zenon, <1>2, <3>1, <3>2
  <2>4. caller[d].pc = "idle" /\ Unmoved /\ UNCHANGED <<listed, current>>
    BY Zenon, <1>2 DEF DialContext, resolveOutbound
  <2>5. Stays(d)
    BY Zenon, <2>4, Unlisted DEF Stays
  <2> QED BY Zenon, <1>0, <1>1, <2>2, <2>4, <2>5, CallerStep DEF Updating
<1>3. CASE AttachConnection(d) \/ NewConn(d)
  <2>1. PICK pc \in {"dial", "open"} :
          /\ caller' = [caller EXCEPT ![d].pc = pc]
          /\ pc = "open" \/ (pc = "dial" /\ caller[d].pc = "attach")
    BY Zenon, <1>3 DEF AttachConnection, NewConn
  <2> DEFINE r == [caller[d] EXCEPT !.pc = pc]
  <2>2. /\ r \in Calls /\ r.pc = pc /\ r.updated = caller[d].updated /\ r.member = caller[d].member
        /\ r.net = caller[d].net /\ r.routed = caller[d].routed
    <3>1. pc \in Places
      BY Zenon, <2>1 DEF Places
    <3> QED BY ZenonT(40), <1>0, <3>1, Moved
  <2>3. caller[d].pc \in {"attach", "wrap"} /\ Unmoved /\ Add(d)
    BY Zenon, <1>3 DEF AttachConnection, NewConn
  <2>4. caller' = [caller EXCEPT ![d] = r] /\ caller'[d] = r
    BY Zenon, <1>0, <2>1 DEF GroupInv, GroupType
  <2> HIDE DEF r
  <2>5. r.pc = "open" \/ (r.pc = "dial" /\ r.routed)
    BY Zenon, <1>0, <2>1, <2>2, <2>3 DEF GroupInv, ListInv
  <2>6. Enters(d)
    BY Zenon, <2>2, <2>3, <2>4, <2>5, Unlisted DEF Enters, Add, NetOf
  <2> QED BY Zenon, <1>0, <1>1, <2>1, <2>2, <2>3, <2>4, <2>6, CallerStep DEF Updating, Dialling
<1>4. ASSUME Dialled(d), ~caller[d].routed PROVE GroupInv'
  <2> DEFINE r == [caller[d] EXCEPT !.pc = "wrap"]
  <2>1. r \in Calls /\ r.pc = "wrap" /\ r.updated = caller[d].updated /\ r.member = caller[d].member
    BY ZenonT(40), <1>0, Moved DEF Places
  <2>2. caller' = [caller EXCEPT ![d] = r] /\ caller[d].pc = "dial" /\ Unmoved /\ UNCHANGED <<listed, current>>
    BY Zenon, <1>4 DEF Dialled
  <2> HIDE DEF r
  <2>3. Stays(d)
    BY Zenon, <1>4, <2>2 DEF Stays, GroupInv, ListInv
  <2> QED BY Zenon, <1>0, <1>1, <2>1, <2>2, <2>3, CallerStep DEF Updating, Dialling
<1>5. ASSUME Dialled(d), caller[d].routed, d \in listed PROVE GroupInv'
  <2> DEFINE r == [caller[d] EXCEPT !.pc = "open"]
  <2>1. /\ r \in Calls /\ r.pc = "open" /\ r.updated = caller[d].updated /\ r.member = caller[d].member
        /\ r.net = caller[d].net /\ r.external = caller[d].external
    BY ZenonT(40), <1>0, Moved DEF Places
  <2>2. /\ caller' = [caller EXCEPT ![d] = r] /\ caller'[d] = r /\ caller[d].pc = "dial"
        /\ Unmoved /\ UNCHANGED <<listed, current>>
    BY Zenon, <1>0, <1>5 DEF Dialled, GroupInv, GroupType
  <2> HIDE DEF r
  <2>3. Stays(d)
    BY Zenon, <2>1, <2>2 DEF Stays
  <2> QED BY Zenon, <1>0, <1>1, <2>1, <2>2, <2>3, CallerStep DEF Updating, Dialling
<1>6. ASSUME NEW r \in {Idle, [Idle EXCEPT !.pc = "update"]}, caller' = [caller EXCEPT ![d] = r],
             Hushed, quiet' \in BOOLEAN, UNCHANGED <<selected, updateAccess>>,
             caller[d].pc \in {"dial", "open"},
             Leaves(d) \/ (UNCHANGED <<listed, current>> /\ d \notin listed)
      PROVE  GroupInv'
  <2>1. r \in Calls /\ r.pc \in {"idle", "update"} /\ ~r.updated
    <3>1. "update" \in Places
      BY Zenon DEF Places
    <3>2. CASE r = Idle
      BY Zenon, <3>2, IdleCall
    <3>3. CASE r = [Idle EXCEPT !.pc = "update"]
      BY Zenon, <3>1, <3>3, IdleCall, Moved
    <3> QED BY Zenon, <1>6, <3>2, <3>3
  <2>2. Leaves(d) \/ Stays(d)
    BY Zenon, <1>6 DEF Stays
  <2> QED BY Zenon, <1>0, <1>6, <2>1, <2>2, CallerStep DEF Updating, Dialling
<1>7. ASSUME Dialled(d), caller[d].routed, d \notin listed PROVE GroupInv'
  <2>1. caller' = [caller EXCEPT ![d] = Idle]
    BY Zenon, <1>7 DEF Dialled
  <2> QED BY Zenon, <1>1, <1>6, <1>7, <2>1 DEF Dialled
<1>8. CASE DialFails(d)
  <2>1. Hushed /\ quiet' \in BOOLEAN
    BY Zenon, <1>8, HistorySet DEF DialFails
  <2>2. PICK r \in {Idle, [Idle EXCEPT !.pc = "update"]} : caller' = [caller EXCEPT ![d] = r]
    BY Zenon, <1>8 DEF DialFails
  <2> QED BY Zenon, <1>6, <1>8, <2>1, <2>2 DEF DialFails, Leave, Leaves
<1>9. CASE DialCancelled(d)
  <2>1. d \notin listed
    BY Zenon, <1>9 DEF DialCancelled, GroupInv, ListInv
  <2> QED BY Zenon, <1>1, <1>6, <1>9, <2>1 DEF DialCancelled
<1>10. CASE Close(d)
  BY Zenon, <1>1, <1>6, <1>10 DEF Close, Leave, Leaves, SetHistory
<1> QED BY Zenon, <1>2, <1>3, <1>4, <1>5, <1>7, <1>8, <1>9, <1>10 DEF DialStep

-----------------------------------------------------------------------------
(* performUpdateCheck *)

\* What the invariant says of a caller in performUpdateCheck.
LEMMA Holder ==
    ASSUME GroupInv, NEW p \in Callers, caller[p].pc \in Updating
    PROVE  /\ updateAccess = p /\ updateAccess # nil /\ p \notin listed
           /\ \A q \in Callers \ {p} : caller[q].pc \notin Updating /\ ~caller[q].updated
<1>1. p \notin listed
  BY Zenon DEF GroupInv, ListInv, Updating
<1>2. updateAccess = p
  BY Zenon DEF GroupInv, LockInv
<1> QED BY Zenon, <1>1, <1>2 DEF GroupInv, LockInv

\* A connection entered while its member was selected is a listed dial's.
LEMMA Entered == ASSUME GroupInv, NEW e \in current PROVE e \in Callers /\ e \in listed
BY Zenon DEF GroupInv, GroupType, Callers

\* The listed connections, when somebody who is not listed moves.
LEMMA ListSame ==
    ASSUME GroupInv, NEW p \in Callers, p \notin listed, UNCHANGED listed,
           \A q \in Callers \ {p} : caller'[q] = caller[q], caller'[p].pc \notin Dialling
    PROVE  ListInv'
<1>1. \A e \in listed : e \in Callers \ {p} /\ caller'[e] = caller[e]
  BY Zenon DEF GroupInv, GroupType, Callers
<1>2. \A e \in listed' : caller'[e].pc = "open" \/ (caller'[e].pc = "dial" /\ caller'[e].routed)
  BY Zenon, <1>1 DEF GroupInv, ListInv
<1>3. \A q \in Callers : caller'[q].pc \in Dialling => caller'[q].member # nil
  BY Zenon DEF GroupInv, ListInv
<1>4. \A q \in Callers : caller'[q].pc = "attach" => caller'[q].routed
  BY Zenon DEF GroupInv, ListInv, Dialling
<1> QED BY Zenon, <1>2, <1>3, <1>4 DEF ListInv

\* The update begins.
LEMMA LockStep ==
    ASSUME GroupInv, NEW p \in Callers, updateLock(p)
    PROVE  GroupInv'
<1> DEFINE r == [Idle EXCEPT !.pc = "select"]
<1>1. r \in Calls /\ r.pc = "select" /\ r.updated = FALSE
  BY Zenon, IdleCall, Moved DEF Places
<1>2. r.net = 1 /\ r.at = 1
  BY Zenon DEF Idle
<1>3. /\ caller' = [caller EXCEPT ![p] = r] /\ caller[p].pc = "update" /\ updateAccess = nil /\ updateAccess' = p
      /\ UNCHANGED <<history, selected, listed, quiet, current>>
  BY Zenon DEF updateLock
<1> HIDE DEF r
<1>4. caller'[p] = r /\ \A q \in Callers \ {p} : caller'[q] = caller[q]
  BY Zenon, <1>3 DEF GroupInv, GroupType
<1>5. p \notin listed
  BY Zenon, <1>3 DEF GroupInv, ListInv
<1>6. GroupType'
  BY Zenon, <1>1, <1>3 DEF GroupInv, GroupType
<1>7. LockInv'
  BY Zenon, <1>1, <1>3, <1>4 DEF GroupInv, LockInv, Updating
<1>8. ListInv'
  BY Zenon, <1>1, <1>3, <1>4, <1>5, ListSame DEF Dialling
<1>9. OnSelected'
  <2> SUFFICES ASSUME NEW e \in current', e \in Interruptible', \A q \in Callers : ~caller'[q].updated
               PROVE  selected'[NetOf(e)'] = caller'[e].member
    BY Zenon DEF OnSelected
  <2>1. e \in Callers \ {p} /\ e \in current /\ caller'[e] = caller[e]
    BY Zenon, <1>3, <1>4, <1>5, Entered
  <2>2. \A q \in Callers : ~caller[q].updated
    BY Zenon, <1>3 DEF GroupInv, LockInv
  <2> QED BY Zenon, <1>3, <2>1, <2>2 DEF GroupInv, OnSelected, Interruptible, NetOf
<1>10. SelectInv'
  <2> SUFFICES ASSUME NEW q \in Callers PROVE Decided(q)'
    BY Zenon DEF SelectInv
  <2>1. CASE q = p
    <3>1. 1 .. 1 - 1 = {}
      BY SMT
    <3> QED BY Zenon, <1>1, <1>2, <1>4, <2>1, <3>1 DEF Decided
  <2>2. CASE q # p
    BY Zenon, <1>3, <1>4, <2>2 DEF GroupInv, LockInv, Decided, Updating
  <2> QED BY Zenon, <2>1, <2>2
<1> QED BY Zenon, <1>6, <1>7, <1>8, <1>9, <1>10 DEF GroupInv

\* An update that ends has decided every network.
EndsWell ==
    updateAccess # nil /\ updateAccess' = nil /\ quiet =>
        \A n \in Nets : Supporting(n) \cap history # {} => selected'[n] = FirstOf(Supporting(n) \cap history)

\* A network is decided: for the first tested member, if there is one.
LEMMA DecideStep ==
    ASSUME GroupInv, NEW p \in Callers, caller[p].pc = "select",
           NEW m \in Members \cup {nil}, NEW exists \in BOOLEAN, Decide(p, m, exists),
           exists => m # nil, UNCHANGED <<history, listed, current>>,
           quiet /\ Supporting(NetOf(p)) \cap history # {} =>
               exists /\ m = FirstOf(Supporting(NetOf(p)) \cap history)
    PROVE  GroupInv' /\ EndsWell
<1> DEFINE n == NetOf(p)
           old == selected[n]
           change == m # nil /\ (old = nil \/ (exists /\ m # old))
           u == caller[p].updated \/ (change /\ old # nil)
           last == caller[p].net = Len(Networks)
           next == [Idle EXCEPT !.updated = u, !.pc = IF last THEN "interrupt" ELSE "select",
                                !.net = IF last THEN 1 ELSE caller[p].net + 1]
           r == IF last /\ ~u THEN Idle ELSE next
<1>1. /\ caller[p] \in Calls /\ caller[p].net \in DOMAIN Networks /\ n \in Nets
      /\ updateAccess = p /\ updateAccess # nil /\ p \notin listed
      /\ \A q \in Callers \ {p} : caller[q].pc \notin Updating /\ ~caller[q].updated
  <2>1. caller[p] \in Calls /\ caller[p].net \in DOMAIN Networks
    BY Zenon DEF GroupInv, GroupType, Calls
  <2>2. n \in Nets
    BY Zenon, <2>1, Lists DEF NetOf
  <2> QED BY Zenon, <2>1, <2>2, Holder DEF Updating
<1>2. /\ selected' = IF change THEN [selected EXCEPT ![n] = m] ELSE selected
      /\ caller' = [caller EXCEPT ![p] = r]
      /\ IF last /\ ~u THEN Unlock(p) ELSE UNCHANGED <<updateAccess, quiet, checking, loop>>
  BY Zenon DEF Decide, Updated
<1>3. /\ selected' \in [Nets -> Members \cup {nil}] /\ \A k \in Nets \ {n} : selected'[k] = selected[k]
      /\ selected'[n] = IF change THEN m ELSE old
  <2>1. CASE change
    BY Zenon, <1>1, <1>2, <2>1 DEF GroupInv, GroupType
  <2>2. CASE ~change
    BY Zenon, <1>1, <1>2, <2>2 DEF GroupInv, GroupType
  <2> QED BY Zenon, <2>1, <2>2
<1>4. exists => selected'[n] = m
  BY Zenon, <1>3
<1>5. caller'[p] = r /\ \A q \in Callers \ {p} : caller'[q] = caller[q]
  BY Zenon, <1>2 DEF GroupInv, GroupType
<1>6. IF last /\ ~u THEN updateAccess' = nil /\ quiet' = TRUE ELSE updateAccess' = updateAccess /\ quiet' = quiet
  BY Zenon, <1>2 DEF Unlock
<1>7. /\ ~last => caller[p].net + 1 \in DOMAIN Networks
      /\ 1 \in DOMAIN Networks
  BY SMT, <1>1, Lists
<1>8. /\ next \in Calls /\ next.updated = u /\ next.pc = IF last THEN "interrupt" ELSE "select"
      /\ next.net = (IF last THEN 1 ELSE caller[p].net + 1) /\ next.at = 1
  <2>1. u \in BOOLEAN /\ (IF last THEN "interrupt" ELSE "select") \in Places
    BY Zenon, <1>1 DEF Calls, Places
  <2>2. (IF last THEN 1 ELSE caller[p].net + 1) \in DOMAIN Networks
    BY Zenon, <1>7
  <2> HIDE DEF u, last
  <2>3. next \in Calls
    BY Zenon, <2>1, <2>2, IdleCall DEF Calls
  <2>4. /\ next.updated = u /\ next.pc = IF last THEN "interrupt" ELSE "select"
        /\ next.net = (IF last THEN 1 ELSE caller[p].net + 1) /\ next.at = 1
    BY Zenon DEF Idle
  <2> QED BY Zenon, <2>3, <2>4
<1> HIDE DEF next
<1>9. r \in Calls /\ r.updated = u /\ r.pc \in {"idle", "select", "interrupt"} /\ (r.pc = "idle" <=> last /\ ~u)
  BY Zenon, <1>8, IdleCall
\* The networks up to this one.
<1>10. ASSUME quiet, NEW i \in 1 .. caller[p].net PROVE Good(Networks[i])'
  <2>1. CASE Networks[i] = n
    BY Zenon, <1>4, <1>10, <2>1 DEF Good, Supporting
  <2>2. CASE Networks[i] # n
    <3>1. i \in 1 .. caller[p].net - 1 /\ i \in DOMAIN Networks
      BY SMT, <1>1, <2>2, Lists DEF NetOf
    <3>2. Good(Networks[i]) /\ Networks[i] \in Nets
      BY Zenon, <1>10, <3>1, Lists DEF GroupInv, SelectInv, Decided
    <3> QED BY Zenon, <1>3, <2>2, <3>2 DEF Good, Supporting
  <2> QED BY Zenon, <2>1, <2>2
<1>11. ASSUME quiet, last, NEW k \in Nets PROVE Good(k)'
  BY Zenon, <1>10, <1>11, Lists
<1>12. GroupType'
  BY Zenon, <1>2, <1>3, <1>6, <1>9 DEF GroupInv, GroupType
<1>13. LockInv'
  <2>1. r.pc \in Updating <=> ~(last /\ ~u)
    BY Zenon, <1>9 DEF Updating
  <2>2. updateAccess' = p <=> ~(last /\ ~u)
    BY Zenon, <1>1, <1>6
  <2>3. r.updated => r.pc \in Updating
    BY Zenon, <1>9, <2>1
  <2> HIDE DEF r
  <2>4. \A q \in Callers \ {p} : updateAccess' # q
    BY Zenon, <1>1, <1>6
  <2> QED BY Zenon, <1>1, <1>5, <2>1, <2>2, <2>3, <2>4 DEF LockInv
<1>14. ListInv'
  BY Zenon, <1>1, <1>5, <1>9, ListSame DEF Dialling
<1>15. OnSelected'
  <2> SUFFICES ASSUME NEW e \in current', e \in Interruptible', \A q \in Callers : ~caller'[q].updated
               PROVE  selected'[NetOf(e)'] = caller'[e].member
    BY Zenon DEF OnSelected
  <2>1. e \in Callers \ {p} /\ e \in current /\ caller'[e] = caller[e] /\ e \in listed
    BY Zenon, <1>1, <1>5, Entered
  <2>2. ~u
    BY Zenon, <1>5, <1>9
  <2>3. \A q \in Callers : ~caller[q].updated
    BY Zenon, <1>1, <2>2
  <2>4. selected[NetOf(e)] = caller[e].member /\ NetOf(e)' = NetOf(e)
    BY Zenon, <2>1, <2>3 DEF GroupInv, OnSelected, Interruptible, NetOf
  <2>5. caller[e].member # nil /\ NetOf(e) \in Nets
    BY Zenon, <2>1, Lists DEF GroupInv, GroupType, ListInv, Dialling, NetOf, Calls
  <2>6. CASE NetOf(e) = n
    BY Zenon, <1>3, <2>1, <2>2, <2>4, <2>5, <2>6
  <2>7. CASE NetOf(e) # n
    BY Zenon, <1>3, <2>1, <2>4, <2>5, <2>7
  <2> QED BY Zenon, <2>6, <2>7
<1>16. SelectInv'
  <2> SUFFICES ASSUME quiet', NEW q \in Callers PROVE Decided(q)'
    BY Zenon DEF SelectInv
  <2>1. CASE q # p
    BY Zenon, <1>1, <1>5, <2>1 DEF Decided, Updating
  <2>2. CASE q = p /\ last /\ ~u
    BY Zenon, <1>5, <1>9, <2>2 DEF Decided
  <2>3. CASE q = p /\ last /\ u
    <3>1. quiet /\ caller'[q].pc = "interrupt"
      BY Zenon, <1>5, <1>6, <1>8, <2>3
    <3> QED BY Zenon, <1>11, <2>3, <3>1 DEF Decided
  <2>4. CASE q = p /\ ~last
    <3>1. quiet /\ caller'[q].pc = "select" /\ caller'[q].net = caller[p].net + 1 /\ caller'[q].at = 1
      BY Zenon, <1>5, <1>6, <1>8, <2>4
    <3>2. caller'[q].net - 1 = caller[p].net /\ 1 .. caller'[q].at - 1 = {}
      BY SMT, <1>1, <3>1, Lists
    <3> QED BY Zenon, <1>10, <3>1, <3>2 DEF Decided
  <2> QED BY Zenon, <2>1, <2>2, <2>3, <2>4
<1>17. EndsWell
  <2>1. updateAccess' = nil => last
    BY Zenon, <1>1, <1>6
  <2> QED BY Zenon, <1>11, <2>1 DEF EndsWell, Good, Supporting
<1> QED BY Zenon, <1>12, <1>13, <1>14, <1>15, <1>16, <1>17 DEF GroupInv

\* Select looks at one member.
LEMMA SelectStep ==
    ASSUME GroupInv, NEW p \in Callers, Select(p)
    PROVE  GroupInv' /\ EndsWell
<1> DEFINE n == NetOf(p)
           m == outbounds[caller[p].at]
           supported == n \in Supports(m)
           first == IF supported /\ caller[p].first = nil THEN m ELSE caller[p].first
<1>1. /\ caller[p].pc = "select" /\ UNCHANGED <<history, listed, current>>
      /\ \/ supported /\ m \in history /\ Decide(p, m, TRUE)
         \/ ~(supported /\ m \in history) /\ caller[p].at = Len(outbounds) /\ Decide(p, first, FALSE)
         \/ /\ ~(supported /\ m \in history) /\ caller[p].at < Len(outbounds)
            /\ caller' = [caller EXCEPT ![p].at = @ + 1, ![p].first = first]
            /\ UNCHANGED <<selected, updateAccess, quiet>>
  BY Zenon DEF Select
<1>2. /\ caller[p] \in Calls /\ caller[p].at \in DOMAIN outbounds /\ m \in Members
      /\ first \in Members \cup {nil} /\ m # nil
  <2>1. caller[p] \in Calls /\ caller[p].at \in DOMAIN outbounds /\ caller[p].first \in Members \cup {nil}
    BY Zenon DEF GroupInv, GroupType, Calls
  <2>2. m \in Members
    BY Zenon, <2>1, Lists
  <2> QED BY Zenon, <2>1, <2>2
<1>3. /\ updateAccess = p /\ updateAccess # nil /\ p \notin listed
      /\ \A q \in Callers \ {p} : caller[q].pc \notin Updating /\ ~caller[q].updated
  BY Zenon, <1>1, Holder DEF Updating
<1>4. supported <=> m \in Supporting(n)
  BY Zenon, <1>2 DEF Supporting
<1>5. quiet => \A j \in 1 .. caller[p].at - 1 : outbounds[j] \notin Supporting(n) \cap history
  BY Zenon, <1>1 DEF GroupInv, SelectInv, Decided
<1>6. CASE supported /\ m \in history /\ Decide(p, m, TRUE)
  <2>1. ASSUME quiet PROVE m = FirstOf(Supporting(n) \cap history)
    <3> DEFINE S == Supporting(n) \cap history
    <3>1. m \in S /\ \A j \in 1 .. caller[p].at - 1 : outbounds[j] \notin S
      BY Zenon, <1>4, <1>5, <1>6, <2>1
    <3> HIDE DEF S
    <3>2. FirstOf(S) = m
      BY Zenon, <1>2, <3>1, FirstFound
    <3> QED BY Zenon, <3>2 DEF S
  <2> QED BY Zenon, <1>1, <1>2, <1>6, <2>1, DecideStep
\* Nobody up to the last is tested.
<1>7. CASE ~(supported /\ m \in history) /\ caller[p].at = Len(outbounds) /\ Decide(p, first, FALSE)
  <2>1. ASSUME quiet, NEW x \in Supporting(n) \cap history PROVE FALSE
    <3>1. PICK j \in DOMAIN outbounds : x = outbounds[j]
      BY Zenon, <2>1 DEF Supporting, Members, Range
    <3>2. j # caller[p].at
      BY Zenon, <1>4, <1>7, <2>1, <3>1
    <3>3. j \in 1 .. caller[p].at - 1
      BY SMT, <1>2, <1>7, <3>2, Lists
    <3> QED BY Zenon, <1>5, <2>1, <3>1, <3>3
  <2>2. quiet => Supporting(n) \cap history = {}
    BY Zenon, <2>1
  <2> QED BY Zenon, <1>1, <1>2, <1>7, <2>2, DecideStep
<1>8. CASE /\ ~(supported /\ m \in history) /\ caller[p].at < Len(outbounds)
           /\ caller' = [caller EXCEPT ![p].at = @ + 1, ![p].first = first]
           /\ UNCHANGED <<selected, updateAccess, quiet>>
  <2> DEFINE r == [caller[p] EXCEPT !.at = caller[p].at + 1, !.first = first]
  <2>1. caller[p].at + 1 \in DOMAIN outbounds
    BY SMT, <1>2, <1>8, Lists
  <2>2. /\ r \in Calls /\ r.at = caller[p].at + 1 /\ r.pc = caller[p].pc /\ r.net = caller[p].net
        /\ r.updated = caller[p].updated
    <3> HIDE DEF first
    <3>1. r \in Calls
      BY Zenon, <1>2, <2>1 DEF Calls
    <3>2. /\ r.at = caller[p].at + 1 /\ r.pc = caller[p].pc /\ r.net = caller[p].net
          /\ r.updated = caller[p].updated
      BY Zenon, <1>2 DEF Calls
    <3> QED BY Zenon, <3>1, <3>2
  <2>3. caller' = [caller EXCEPT ![p] = r] /\ caller'[p] = r /\ \A q \in Callers \ {p} : caller'[q] = caller[q]
    BY Zenon, <1>2, <1>8 DEF GroupInv, GroupType
  <2> HIDE DEF r
  <2>4. GroupType'
    BY Zenon, <1>1, <1>8, <2>2, <2>3 DEF GroupInv, GroupType
  <2>5. LockInv'
    BY ZenonT(40), <1>8, <2>2, <2>3 DEF GroupInv, LockInv
  <2>6. ListInv'
    BY Zenon, <1>1, <1>3, <2>2, <2>3, ListSame DEF Dialling
  <2>7. OnSelected'
    <3> SUFFICES ASSUME NEW e \in current', e \in Interruptible', \A q \in Callers : ~caller'[q].updated
                 PROVE  selected'[NetOf(e)'] = caller'[e].member
      BY Zenon DEF OnSelected
    <3>1. e \in Callers \ {p} /\ e \in current /\ caller'[e] = caller[e] /\ e \in listed
      BY Zenon, <1>1, <1>3, <2>3, Entered
    <3>2. \A q \in Callers : ~caller[q].updated
      BY Zenon, <2>2, <2>3
    <3> QED BY Zenon, <1>8, <3>1, <3>2 DEF GroupInv, OnSelected, Interruptible, NetOf
  <2>8. SelectInv'
    <3> SUFFICES ASSUME quiet', NEW q \in Callers PROVE Decided(q)'
      BY Zenon DEF SelectInv
    <3>1. CASE q # p
      BY Zenon, <1>3, <2>3, <3>1 DEF Decided, Updating
    <3>2. CASE q = p
      <4>1. \A j \in 1 .. r.at - 1 : j = caller[p].at \/ j \in 1 .. caller[p].at - 1
        BY SMT, <1>2, <2>2, Lists
      <4>2. quiet /\ NetOf(p)' = n
        BY Zenon, <1>8, <2>2, <2>3 DEF NetOf
      <4>3. \A j \in 1 .. r.at - 1 : outbounds[j] \notin Supporting(n) \cap history
        BY Zenon, <1>4, <1>5, <1>8, <4>1, <4>2
      <4>4. \A i \in 1 .. caller[p].net - 1 : Good(Networks[i])
        BY Zenon, <1>1, <4>2 DEF GroupInv, SelectInv, Decided
      <4>5. \A i \in 1 .. caller[p].net - 1 : Good(Networks[i])'
        BY Zenon, <1>1, <1>8, <4>4 DEF Good, Supporting
      <4> QED BY Zenon, <1>1, <2>2, <2>3, <3>2, <4>2, <4>3, <4>5 DEF Decided, Supporting
    <3> QED BY Zenon, <3>1, <3>2
  <2>9. EndsWell
    BY Zenon, <1>8 DEF EndsWell
  <2> QED BY Zenon, <2>4, <2>5, <2>6, <2>7, <2>8, <2>9 DEF GroupInv
<1> QED BY Zenon, <1>1, <1>6, <1>7, <1>8

\* The connections are interrupted, and the update ends.
LEMMA InterruptStep ==
    ASSUME GroupInv, NEW p \in Callers, Interrupt(p)
    PROVE  GroupInv' /\ EndsWell
<1>1. /\ updateAccess = p /\ updateAccess # nil /\ p \notin listed
      /\ \A q \in Callers \ {p} : caller[q].pc \notin Updating /\ ~caller[q].updated
  BY Zenon, Holder DEF Interrupt, Updating
<1>2. /\ listed' = listed \ Interruptible /\ current' = current \ Interruptible
      /\ updateAccess' = nil /\ quiet' = TRUE /\ UNCHANGED <<history, selected>>
      /\ caller[p].pc = "interrupt"
  BY Zenon DEF Interrupt, Unlock
<1>3. \A q \in Callers : /\ caller'[q] \in {Idle, caller[q]}
                         /\ q = p => caller'[q] = Idle
                         /\ q \notin Interruptible /\ q # p => caller'[q] = caller[q]
  BY Zenon DEF Interrupt
<1>4. caller' \in [Callers -> Calls]
  <2>1. \A q \in Callers : caller[q] \in Calls
    BY Zenon DEF GroupInv, GroupType
  <2>2. \A q \in Callers : (IF q = p \/ (q \in Interruptible /\ caller[q].pc = "open") THEN Idle ELSE caller[q]) \in Calls
    BY Zenon, <2>1, IdleCall
  <2> QED BY Zenon, <2>2 DEF Interrupt
<1>5. \A q \in Callers : caller'[q].pc \notin Updating /\ ~caller'[q].updated
  BY Zenon, <1>1, <1>3, IdleCall DEF Updating
<1>6. GroupType'
  BY Zenon, <1>2, <1>4 DEF GroupInv, GroupType
<1>7. LockInv'
  BY Zenon, <1>2, <1>5 DEF LockInv
<1>8. \A e \in listed' : e \in listed /\ e \notin Interruptible /\ e \in Callers \ {p} /\ caller'[e] = caller[e]
  BY Zenon, <1>1, <1>2, <1>3, <1>6 DEF GroupType, Callers
<1>9. ListInv'
  <2>1. \A e \in listed' : caller'[e].pc = "open" \/ (caller'[e].pc = "dial" /\ caller'[e].routed)
    BY Zenon, <1>8 DEF GroupInv, ListInv
  <2>2. Idle.pc \notin Dialling /\ Idle.pc # "attach"
    BY Zenon, IdleCall DEF Dialling
  <2>3. \A q \in Callers : caller'[q].pc \in Dialling => caller'[q].member # nil
    BY Zenon, <1>3, <2>2 DEF GroupInv, ListInv
  <2>4. \A q \in Callers : caller'[q].pc = "attach" => caller'[q].routed
    BY Zenon, <1>3, <2>2 DEF GroupInv, ListInv
  <2> QED BY Zenon, <2>1, <2>3, <2>4 DEF ListInv
<1>10. OnSelected'
  <2>1. \A e \in current' : e \notin Interruptible'
    BY Zenon, <1>6, <1>8 DEF Interruptible, GroupType
  <2> QED BY Zenon, <2>1 DEF OnSelected
<1>11. SelectInv'
  BY Zenon, <1>5 DEF SelectInv, Decided, Updating
<1>12. EndsWell
  BY Zenon, <1>2 DEF EndsWell, GroupInv, SelectInv, Decided, Good
<1> QED BY Zenon, <1>6, <1>7, <1>9, <1>10, <1>11, <1>12 DEF GroupInv

-----------------------------------------------------------------------------
(* Theorems *)

\* The invariant holds initially.
LEMMA GroupInit == Init => GroupInv
<1> SUFFICES ASSUME Init PROVE GroupInv
  OBVIOUS
<1>1. \A p \in Callers : caller[p] = Idle
  BY Zenon DEF Init
<1>2. GroupType
  BY Zenon, IdleCall DEF Init, GroupType
<1>3. LockInv
  BY Zenon, <1>1, IdleCall DEF Init, LockInv, Updating
<1>4. ListInv
  BY Zenon, <1>1, IdleCall DEF Init, ListInv, Dialling
<1>5. OnSelected
  BY Zenon DEF Init, OnSelected
<1>6. SelectInv
  BY Zenon, <1>1, IdleCall DEF SelectInv, Decided
<1> QED BY Zenon, <1>2, <1>3, <1>4, <1>5, <1>6 DEF GroupInv

\* A step outside performUpdateCheck keeps updateAccess, so that no update ends.
LEMMA AccessKept ==
    ASSUME [Next]_vars PROVE updateAccess' = updateAccess \/ \E p \in Callers : UpdateStep(p)
BY Zenon DEF Next, vars, CheckStep, LoopStep, DialStep, urlTestUpdate, testOutbound, skipOutbound, storeResult,
   dropResult, loopTick, loopStop, CheckOutbounds, AttachConnection, Dialled, NewConn, DialFails, DialCancelled,
   Close, DialContext, resolveOutbound, HealthChange, TimePasses

\* Every step preserves the invariant, and an update that ends has decided.
LEMMA GroupNext == GroupInv /\ [Next]_vars => GroupInv' /\ EndsWell
<1> SUFFICES ASSUME GroupInv, [Next]_vars PROVE GroupInv' /\ EndsWell
  OBVIOUS
<1>1. ASSUME NEW p \in Callers, UpdateStep(p) PROVE GroupInv' /\ EndsWell
  <2>1. CASE updateLock(p)
    <3>1. EndsWell
      BY Zenon, <2>1 DEF updateLock, EndsWell
    <3> QED BY Zenon, <2>1, <3>1, LockStep
  <2> QED BY Zenon, <1>1, <2>1, SelectStep, InterruptStep DEF UpdateStep
<1>2. CASE ~\E p \in Callers : UpdateStep(p)
  <2>1. EndsWell
    BY Zenon, <1>2, AccessKept DEF EndsWell
  <2>2. GroupInv'
    BY Zenon, <1>2, CheckSteps, DialSteps DEF Next
  <2> QED BY Zenon, <2>1, <2>2
<1> QED BY Zenon, <1>1, <1>2

\* GroupInv is an inductive invariant of the group.
THEOREM GroupInvariance == Spec => []GroupInv
<1>1. GroupInv /\ [Next]_vars => GroupInv'
  BY GroupNext
<1> QED BY <1>1, GroupInit, PTL DEF Spec

\* A connection entered in the interrupt group while its member was selected
\* does not outlive the selection: performUpdateCheck interrupts before it
\* releases updateAccess, whatever dials, tests and updates interleave.
THEOREM ConnectionsFollowSelection == Spec => []OnSelected
<1>1. GroupInv => OnSelected
  BY Zenon DEF GroupInv
<1> QED BY <1>1, GroupInvariance, PTL

\* An undisturbed performUpdateCheck selects, on every network, the first
\* supporting member that has test history.
THEOREM UpdateSelectsFirst == Spec => SelectsFirstTested
<1>1. GroupInv /\ [Next]_vars =>
        [updateAccess # nil /\ updateAccess' = nil /\ quiet =>
            \A n \in Nets : Supporting(n) \cap history # {} =>
                selected'[n] = FirstOf(Supporting(n) \cap history)]_vars
  BY Zenon, GroupNext DEF EndsWell
<1> QED BY <1>1, GroupInvariance, PTL DEF Spec, SelectsFirstTested

=============================================================================
