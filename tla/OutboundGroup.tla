---------------------------- MODULE OutboundGroup ----------------------------
(***************************************************************************)
(* The fallback outbound group (protocol/group/fallback.go) with its tests   *)
(* (urltest.go), the history they write (common/urltest), the interrupt      *)
(* group (common/interrupt) and the two ways into it: dials through the      *)
(* group, and routed connections, for which the router resolves the group    *)
(* and the connection manager dials the member (route/route.go, conn.go).    *)
(*                                                                         *)
(* Members are plain outbounds, the group has been started, and its Close is *)
(* left out.  Times are abstracted to their place among the interval and the *)
(* idle timeout.  Deletions of history by the API are left out.              *)
(***************************************************************************)
EXTENDS Naturals, Sequences, FiniteSetsExt

CONSTANTS
    outbounds,         \* the members, in the order of their definition
    Networks,          \* the networks in the order performUpdateCheck takes them
    Supports(_),       \* the networks of a member
    Dials,             \* who dials through the group or routes connections to it
    interruptExternalConnections,
    nil,
    MaxTroubles        \* bound: changes of health, and dials that fail on a healthy member

Members == Range(outbounds)
Nets == Range(Networks)
Check == "check"       \* the caller of performUpdateCheck in urlTest
Callers == Dials \cup {Check}

ASSUME GroupHasMembers == outbounds \in Seq(Members) /\ outbounds # <<>>
ASSUME NetworksListed == Networks \in Seq(Nets) /\ Networks # <<>>
ASSUME NilIsNobody == nil \notin Members \cup Callers
ASSUME CheckIsNoDial == Check \notin Dials

VARIABLES
    alive, troubles,   \* the members' health
    history,           \* the members with URL test history
    selected,          \* selectedOutboundTCP and selectedOutboundUDP
    checking,          \* the running urlTest: who called it, force, and how far each test is
    loop, lastActive,  \* where loopCheck is ("none" for a nil ticker); time since lastActive
    updateAccess,      \* who holds it
    caller,            \* the calls: a dial, or the performUpdateCheck of one
    listed,            \* the dials in the interrupt group
    quiet,             \* history: no test history has come or gone while updateAccess has been held
    current            \* history: dials listed while their member was the selected one

envVars == <<alive, troubles>>
loopVars == <<loop, lastActive>>
vars == <<envVars, history, selected, checking, loopVars, updateAccess, caller, listed, quiet, current>>

Idle == [pc |-> "idle", routed |-> FALSE, external |-> FALSE, net |-> 1, member |-> nil, at |-> 1, first |-> nil, updated |-> FALSE]
NoCheck == [by |-> "none", force |-> FALSE, test |-> [m \in Members |-> "done"]]
NewCheck(by, force) == [by |-> by, force |-> force, test |-> [m \in Members |-> "todo"]]

\* PostStart begins a check, unless a forced one has come before it.
PostStart == {NewCheck("other", force) : force \in BOOLEAN}

Init ==
    /\ alive \in [Members -> BOOLEAN] /\ troubles = 0
    /\ history = {}
    /\ selected = [n \in Nets |-> nil]
    /\ checking \in PostStart
    /\ loop = "none" /\ lastActive = "now"
    /\ updateAccess = nil
    /\ caller = [p \in Callers |-> Idle]
    /\ listed = {} /\ quiet = TRUE /\ current = {}

Supporting(n) == {m \in Members : n \in Supports(m)}
FirstOf(S) ==
    LET I == {i \in DOMAIN outbounds : outbounds[i] \in S} IN IF I = {} THEN nil ELSE outbounds[Min(I)]

NetOf(p) == Networks[caller[p].net]
SetHistory(to) ==
    /\ history' = to
    /\ quiet' = (updateAccess = nil \/ (quiet /\ to = history))

-----------------------------------------------------------------------------
(* Touch and loopCheck *)

\* urlTest up to the tests; a call while another one is running returns at once.
urlTest(by, force) ==
    checking' = IF checking.by = "none"
                THEN NewCheck(by, force) ELSE checking

loopCheck ==
    /\ loop' = IF checking.by = "none" THEN "check" ELSE "wait"
    /\ urlTest("loop", FALSE)

\* Without a ticker one is started, and its loop begins with a check if the last
\* use is longer ago than the interval.
Touch ==
    /\ lastActive' = "now"
    /\ IF loop = "none" /\ lastActive # "now" THEN loopCheck
       ELSE loop' = (IF loop = "none" THEN "wait" ELSE loop) /\ UNCHANGED checking

loopTick ==
    /\ loop = "wait"
    /\ IF lastActive = "idle"
       THEN loop' = "stop" /\ UNCHANGED checking
       ELSE loopCheck
    /\ UNCHANGED <<lastActive, envVars, history, selected, updateAccess, caller, listed, quiet, current>>

\* The idle loop has the lock, and stops even if there was a Touch in between.
loopStop ==
    /\ loop = "stop"
    /\ loop' = "none"
    /\ UNCHANGED <<lastActive, envVars, history, selected, checking, updateAccess, caller, listed, quiet, current>>

-----------------------------------------------------------------------------
(* urlTest *)

\* A check on behalf of a change of interface or of the API.
CheckOutbounds ==
    /\ checking.by = "none"
    /\ urlTest("other", TRUE)
    /\ UNCHANGED <<envVars, history, selected, loopVars, updateAccess, caller, listed, quiet, current>>

\* A test of m, and what it finds: a member that does not answer is given up
\* after a timeout.
testOutbound(m) ==
    /\ checking.test[m] = "todo"
    /\ checking' = [checking EXCEPT !.test[m] = IF alive[m] THEN "available" ELSE "unavailable"]
    /\ UNCHANGED <<envVars, history, selected, loopVars, updateAccess, caller, listed, quiet, current>>

\* A result that is not older than the interval is enough, unless forced.
skipOutbound(m) ==
    /\ checking.test[m] = "todo"
    /\ ~checking.force /\ m \in history
    /\ checking' = [checking EXCEPT !.test[m] = "done"]
    /\ UNCHANGED <<envVars, history, selected, loopVars, updateAccess, caller, listed, quiet, current>>

\* What it stores.
storeResult(m) ==
    /\ checking.test[m] \in {"available", "unavailable"}
    /\ checking' = [checking EXCEPT !.test[m] = "done"]
    /\ SetHistory(IF checking.test[m] = "available" THEN history \cup {m} ELSE history \ {m})
    /\ UNCHANGED <<envVars, selected, loopVars, updateAccess, caller, listed, current>>

\* The next change of interface has cancelled the check: the test has failed,
\* and that says nothing.
dropResult(m) ==
    /\ checking.test[m] \in {"available", "unavailable"}
    /\ checking.force
    /\ checking' = [checking EXCEPT !.test[m] = "done"]
    /\ UNCHANGED <<envVars, history, selected, loopVars, updateAccess, caller, listed, quiet, current>>

\* Fault: the selection is left alone.
urlTestEnds ==
    /\ checking.by # "none"
    /\ \A m \in Members : checking.test[m] = "done"
    /\ checking' = NoCheck
    /\ loop' = IF checking.by = "loop" THEN "wait" ELSE loop
    /\ UNCHANGED <<envVars, history, selected, lastActive, updateAccess, caller, listed, quiet, current>>

\* All tests are done: the selection is updated.
urlTestUpdate ==
    /\ checking.by # "none"
    /\ \A m \in Members : checking.test[m] = "done"
    /\ caller[Check].pc = "idle"
    /\ caller' = [caller EXCEPT ![Check].pc = "update"]
    /\ UNCHANGED <<envVars, history, selected, checking, loopVars, updateAccess, listed, quiet, current>>

-----------------------------------------------------------------------------
(* performUpdateCheck *)

\* Fault: updates are not serialised.
updateUnlocked(p) ==
    /\ caller[p].pc = "update"
    /\ updateAccess' = p
    /\ caller' = [caller EXCEPT ![p] = [Idle EXCEPT !.pc = "select"]]
    /\ UNCHANGED <<envVars, history, selected, checking, loopVars, listed, quiet, current>>

updateLock(p) ==
    /\ caller[p].pc = "update"
    /\ updateAccess = nil
    /\ updateAccess' = p
    /\ caller' = [caller EXCEPT ![p] = [Idle EXCEPT !.pc = "select"]]
    /\ UNCHANGED <<envVars, history, selected, checking, loopVars, listed, quiet, current>>

\* performUpdateCheck returns; for a check, urlTest does too.
Unlock(p) ==
    /\ updateAccess' = nil /\ quiet' = TRUE
    /\ checking' = IF p = Check THEN NoCheck ELSE checking
    /\ loop' = IF p = Check /\ checking.by = "loop" THEN "wait" ELSE loop

\* Fault: the last network alone decides.
UpdatedLast(before, change) == change

\* Whether connections are to be interrupted, after the networks so far and this one.
Updated(before, change) == before \/ change

\* The network at hand has been decided: m, which has test history or not.
Decide(p, m, exists) ==
    LET old == selected[NetOf(p)]
        change == m # nil /\ (old = nil \/ (exists /\ m # old))
        updated == Updated(caller[p].updated, change /\ old # nil)
        last == caller[p].net = Len(Networks) IN
    /\ selected' = IF change THEN [selected EXCEPT ![NetOf(p)] = m] ELSE selected
    /\ caller' = [caller EXCEPT ![p] =
            IF last /\ ~updated THEN Idle
            ELSE [Idle EXCEPT !.updated = updated, !.pc = IF last THEN "interrupt" ELSE "select",
                              !.net = IF last THEN 1 ELSE caller[p].net + 1]]
    /\ IF last /\ ~updated THEN Unlock(p) ELSE UNCHANGED <<updateAccess, quiet, checking, loop>>

\* Select, one member after the other: the history may change in between.
Select(p) ==
    LET m == outbounds[caller[p].at]
        supported == NetOf(p) \in Supports(m)
        first == IF supported /\ caller[p].first = nil THEN m ELSE caller[p].first IN
    /\ caller[p].pc = "select"
    /\ \/ /\ supported /\ m \in history
          /\ Decide(p, m, TRUE)
       \/ /\ ~(supported /\ m \in history)
          /\ caller[p].at = Len(outbounds)
          /\ Decide(p, first, FALSE)
       \/ /\ ~(supported /\ m \in history)
          /\ caller[p].at < Len(outbounds)
          /\ caller' = [caller EXCEPT ![p].at = @ + 1, ![p].first = first]
          /\ UNCHANGED <<selected, updateAccess, quiet, checking, loop>>
    /\ UNCHANGED <<envVars, history, lastActive, listed, current>>

Interruptible == {d \in listed : ~caller[d].external \/ interruptExternalConnections}

\* The connections are taken out of the group and closed: who has one is told
\* by its next use, and a routed connection that is still being dialled is
\* closed when it is.
Interrupt(p) ==
    /\ caller[p].pc = "interrupt"
    /\ caller' = [q \in Callers |-> IF q = p \/ (q \in Interruptible /\ caller[q].pc = "open")
                                    THEN Idle ELSE caller[q]]
    /\ listed' = listed \ Interruptible
    /\ current' = current \ Interruptible
    /\ Unlock(p)
    /\ UNCHANGED <<envVars, history, selected, lastActive>>

-----------------------------------------------------------------------------
(* Dials and routed connections *)

\* The member for a dial.  Before the first update it is picked by Select, which
\* may find the tests under way at any point.
Pick(n) ==
    IF selected[n] # nil THEN {selected[n]}
    ELSE {FirstOf(Supporting(n))} \cup (Supporting(n) \cap history)

\* DialContext and ListenPacket up to the dial.  The context says whether it is
\* on behalf of a routed connection, whose outbound has the group for a detour.
DialContext(d, n) ==
    /\ caller[d].pc = "idle"
    /\ Touch
    /\ \E m \in Pick(Networks[n]) \ {nil}, external \in BOOLEAN :
        caller' = [caller EXCEPT ![d] = [Idle EXCEPT !.pc = "dial", !.external = external,
                                                     !.net = n, !.member = m]]
    /\ UNCHANGED <<envVars, history, selected, updateAccess, listed, quiet, current>>

\* resolveOutbound: the group is only asked for its selection.
resolveOutbound(d, n) ==
    /\ caller[d].pc = "idle"
    /\ \E m \in Pick(Networks[n]) \ {nil} :
        caller' = [caller EXCEPT ![d] = [Idle EXCEPT !.pc = "attach", !.routed = TRUE, !.external = TRUE,
                                                     !.net = n, !.member = m]]
    /\ UNCHANGED <<envVars, history, selected, checking, loopVars, updateAccess, listed, quiet, current>>

Add(d) ==
    /\ listed' = listed \cup {d}
    /\ current' = IF selected[NetOf(d)] = caller[d].member THEN current \cup {d} ELSE current

AttachConnection(d) ==
    /\ caller[d].pc = "attach"
    /\ Touch
    /\ Add(d)
    /\ caller' = [caller EXCEPT ![d].pc = "dial"]
    /\ UNCHANGED <<envVars, history, selected, updateAccess, quiet>>

Leave(d) == listed' = listed \ {d} /\ current' = current \ {d}

\* The member's dial returns a connection.
Dialled(d) ==
    /\ caller[d].pc = "dial"
    /\ alive[caller[d].member]
    /\ caller' = [caller EXCEPT ![d] =
            CASE ~@.routed -> [@ EXCEPT !.pc = "wrap"]
              [] @.routed /\ d \in listed -> [@ EXCEPT !.pc = "open"]
              [] OTHER -> Idle]
    /\ UNCHANGED <<envVars, history, selected, checking, loopVars, updateAccess, listed, quiet, current>>

\* NewConn and NewPacketConn of the interrupt group.
NewConn(d) ==
    /\ caller[d].pc = "wrap"
    /\ Add(d)
    /\ caller' = [caller EXCEPT ![d].pc = "open"]
    /\ UNCHANGED <<envVars, history, selected, checking, loopVars, updateAccess, quiet>>

\* The dial fails: the member is dead, or the destination is.
DialFails(d) ==
    /\ caller[d].pc = "dial"
    /\ alive[caller[d].member] => troubles < MaxTroubles
    /\ troubles' = IF alive[caller[d].member] THEN troubles + 1 ELSE troubles
    /\ SetHistory(history \ {caller[d].member})
    /\ Leave(d)
    /\ caller' = [caller EXCEPT ![d] = IF @.routed THEN Idle ELSE [Idle EXCEPT !.pc = "update"]]
    /\ UNCHANGED <<alive, selected, checking, loopVars, updateAccess>>

\* The caller gave up; only the connection manager does not tell the difference.
DialCancelled(d) ==
    /\ caller[d].pc = "dial" /\ ~caller[d].routed
    /\ caller' = [caller EXCEPT ![d] = Idle]
    /\ UNCHANGED <<envVars, history, selected, checking, loopVars, updateAccess, listed, quiet, current>>

Close(d) ==
    /\ caller[d].pc = "open"
    /\ caller' = [caller EXCEPT ![d] = Idle]
    /\ Leave(d)
    /\ UNCHANGED <<envVars, history, selected, checking, loopVars, updateAccess, quiet>>

-----------------------------------------------------------------------------
(* The environment *)

HealthChange(m) ==
    /\ troubles < MaxTroubles
    /\ troubles' = troubles + 1
    /\ alive' = [alive EXCEPT ![m] = ~@]
    /\ UNCHANGED <<history, selected, checking, loopVars, updateAccess, caller, listed, quiet, current>>

\* The idle timeout passes since the last use.
TimePasses ==
    /\ lastActive = "now"
    /\ lastActive' = "idle"
    /\ UNCHANGED <<loop, envVars, history, selected, checking, updateAccess, caller, listed, quiet, current>>

-----------------------------------------------------------------------------

CheckStep ==
    \/ urlTestUpdate
    \/ \E m \in Members : testOutbound(m) \/ skipOutbound(m) \/ storeResult(m) \/ dropResult(m)
LoopStep == loopTick \/ loopStop
UpdateStep(p) == updateLock(p) \/ Select(p) \/ Interrupt(p)
DialStep(d) == AttachConnection(d) \/ Dialled(d) \/ NewConn(d) \/ DialFails(d)

Next ==
    \/ CheckStep \/ LoopStep \/ CheckOutbounds
    \/ \E p \in Callers : UpdateStep(p)
    \/ \E d \in Dials : DialStep(d) \/ DialCancelled(d) \/ Close(d)
    \/ \E d \in Dials, n \in DOMAIN Networks : DialContext(d, n) \/ resolveOutbound(d, n)
    \/ \E m \in Members : HealthChange(m)
    \/ TimePasses

Spec == Init /\ [][Next]_vars

\* The check, the loop and whoever holds updateAccess get on, the mutex does not
\* starve the check (sync.Mutex hands itself over) and the ticker ticks; callers
\* need not come, nor a dial return.  A result that makes checks skip a member
\* gets older than the interval, and forced checks do not meet every tick.
FairSpec ==
    /\ Spec
    /\ WF_vars(CheckStep) /\ WF_vars(loopStop)
    /\ SF_vars(loopTick /\ checking.by = "none")
    /\ WF_vars(\E p \in Callers : Select(p) \/ Interrupt(p))
    /\ SF_vars(updateLock(Check))
    /\ \A m \in Members : SF_vars(testOutbound(m) /\ ~checking.force)

-----------------------------------------------------------------------------
(* Properties *)

\* A connection that was entered in the interrupt group while its member was
\* the selected one does not outlive the selection: when the selection has
\* changed, it is closed before performUpdateCheck returns.  Only a dial that
\* a change overtakes may leave a connection on another member.
OnSelected ==
    \A d \in current \cap Interruptible :
        (\A p \in Callers : ~caller[p].updated) => selected[NetOf(d)] = caller[d].member

\* When performUpdateCheck returns and no test history came or went while it
\* ran, the selection is the first supporting member with history on every
\* network that has one, whatever other updates were waiting.
SelectsFirstTested ==
    [][updateAccess # nil /\ updateAccess' = nil /\ quiet =>
        \A n \in Nets : Supporting(n) \cap history # {} =>
            selected'[n] = FirstOf(Supporting(n) \cap history)]_vars

Alive == {m \in Members : alive[m]}

\* While the group is in use, so that its loop keeps running, it ends up on
\* the first healthy member and stays there once the troubles are over, from
\* whatever mixture of tests, failed dials and cancelled checks.
Converges ==
    <>[](loop # "none") =>
        <>[](\A n \in Nets : Supporting(n) \cap Alive # {} =>
                selected[n] = FirstOf(Supporting(n) \cap Alive))
=============================================================================
