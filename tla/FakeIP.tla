------------------------------- MODULE FakeIP -------------------------------
(***************************************************************************)
(* Fake addresses for domains: the allocator (dns/transport/fakeip/store.go)*)
(* over the cache file's write buffer (experimental/cachefile), with         *)
(* crashes, restarts, failed writes and the reset of the Clash API.          *)
(*                                                                         *)
(* One address family.  An address is its offset in the range: inet4Last is  *)
(* the broadcast address, 2 .. inet4Last - 1 are handed out, 1 is where a    *)
(* new store starts.  The flush loop may flush at any moment (timer or full  *)
(* buffer).  DNS cache entries, which share the buffer, and the reopening of *)
(* a corrupted database are left out.                                        *)
(***************************************************************************)
EXTENDS Integers, Sequences, FiniteSets, SequencesExt

CONSTANTS
    Domains, Creators,
    inet4Last,
    reservedAddressCount,
    MaxRestarts, MaxFaults   \* bounds on the environment; a fault is a reset or a failed write

ASSUME RangeHoldsAddresses == inet4Last \in Nat /\ inet4Last >= 4
ASSUME ReservationFits == reservedAddressCount \in 1 .. inet4Last - 3

VARIABLES
    db,                 \* the fakeip buckets on disk
    pending, writing,   \* pendingWrites; an empty record for a nil writing
    count,              \* pending.count
    flushAccess,        \* who holds it
    inet4Current, reservedCount, addressAccess,
    creator,            \* the calls of Create
    closing, metadata,  \* how far the shutdown has got; what Store.Close saves
    restarts, resets, failures,
    unreserved,         \* history: the saved metadata may be behind the addresses in use
    owner, rest,        \* history: who an address was last given to, the allocations to come
                        \* before it may go to another domain,
    live                \* and the addresses whose mapping must still be there

cacheVars == <<db, pending, writing, count, flushAccess>>
storeVars == <<inet4Current, reservedCount, addressAccess>>
envVars == <<closing, metadata, restarts, resets, failures>>
history == <<unreserved, owner, rest, live>>
vars == <<cacheVars, storeVars, creator, envVars, history>>

Addrs == 2 .. inet4Last - 1
NoAddr == 0       \* the invalid address: in pending, the domain has none
Absent == -1      \* no entry in the map
NoDomain == "none"
NotCached == "absent"
Free == "free"

NoWrites == [domain |-> [a \in Addrs |-> NotCached],    \* fakeIPDomain
             address |-> [d \in Domains |-> Absent],    \* fakeIPAddress4
             metadata |-> Absent]                       \* its Inet4Current
NoBuckets == [domain |-> [a \in Addrs |-> NoDomain],
              address |-> [d \in Domains |-> NoAddr],
              metadata |-> Absent]
Idle == [pc |-> "idle", domain |-> NoDomain, address |-> NoAddr, old |-> NoDomain]

firstCurrent == 1

Queued(p) == {a \in Addrs : p.domain[a] # NotCached}

Init ==
    /\ db = NoBuckets /\ pending = NoWrites /\ writing = NoWrites /\ count = 0
    /\ flushAccess = Free /\ addressAccess = Free
    /\ inet4Current = firstCurrent /\ reservedCount = 0
    /\ creator = [c \in Creators |-> Idle]
    /\ closing = "no" /\ metadata = Absent /\ restarts = 0 /\ resets = 0 /\ failures = 0
    /\ unreserved = FALSE
    /\ owner = [a \in Addrs |-> NoDomain] /\ rest = [a \in Addrs |-> 0] /\ live = {}

-----------------------------------------------------------------------------
(* Reading through the buffer *)

CachedAddress(d) == IF pending.address[d] # Absent THEN pending.address[d] ELSE writing.address[d]
CachedDomain(a) == IF pending.domain[a] # NotCached THEN pending.domain[a] ELSE writing.domain[a]

\* What FakeIPLoadDomain and FakeIPLoad return when nothing comes in between.
FakeIPLoadDomain(d) == IF CachedAddress(d) # Absent THEN CachedAddress(d) ELSE db.address[d]
FakeIPLoad(a) == IF CachedDomain(a) # NotCached THEN CachedDomain(a) ELSE db.domain[a]

-----------------------------------------------------------------------------
(* Flush, called by Create, by the flush loop and twice by the shutdown *)

\* Fault: the domain that had the address before keeps its entry.
putFakeIPKeeps(buckets, a, d) ==
    [buckets EXCEPT !.domain[a] = d, !.address[d] = a]

putFakeIP(buckets, a, d) ==
    LET old == buckets.domain[a]
        address == IF old # NoDomain /\ buckets.address[old] = a
                   THEN [buckets.address EXCEPT ![old] = NoAddr] ELSE buckets.address
    IN  [buckets EXCEPT !.domain[a] = d, !.address = [address EXCEPT ![d] = a]]

\* The buckets after writePending, which takes the addresses in any order.
writePending(p) ==
    LET put(buckets, a) == putFakeIP(buckets, a, p.domain[a]) IN
    {[FoldLeft(put, db, order) EXCEPT !.metadata = IF p.metadata = Absent THEN @ ELSE p.metadata] :
        order \in SetToSeqs(Queued(p))}

\* Up to the update of the database; nothing to do if the buffer is empty.
FlushBegin(who) ==
    /\ flushAccess = Free
    /\ count # 0
    /\ flushAccess' = who
    /\ writing' = pending /\ pending' = NoWrites /\ count' = 0
    /\ UNCHANGED db

\* The transaction commits, or fails and is only logged.
FlushEnd(who) ==
    /\ flushAccess = who
    /\ flushAccess' = Free
    /\ writing' = NoWrites
    /\ \/ /\ db' \in writePending(writing)
          /\ unreserved' = (unreserved /\ writing.metadata = Absent)
          /\ UNCHANGED <<failures, live>>
       \/ /\ resets + failures < MaxFaults
          /\ failures' = failures + 1
          /\ unreserved' = (unreserved \/ writing.metadata # Absent)
          /\ live' = live \ (Queued(writing) \ Queued(pending))
          /\ UNCHANGED db
    /\ UNCHANGED <<pending, count, owner, rest>>

LoopFlush ==
    /\ closing # "stopped"
    /\ FlushBegin("loop")
    /\ UNCHANGED <<storeVars, creator, envVars, history>>

LoopFlushed ==
    /\ FlushEnd("loop")
    /\ UNCHANGED <<storeVars, creator, closing, metadata, restarts, resets>>

-----------------------------------------------------------------------------
(* Create *)

Goto(c, where) == creator' = [creator EXCEPT ![c].pc = where]
Return(c) == creator' = [creator EXCEPT ![c] = Idle]

\* The first look, without addressAccess; an address that is found is returned
\* at once.  A call that finds none looks again, so that it does not matter what
\* comes between the two halves of this look.
Create(c, d) ==
    /\ closing # "stopped"
    /\ creator[c].pc = "idle"
    /\ FakeIPLoadDomain(d) = NoAddr
    /\ creator' = [creator EXCEPT ![c] = [Idle EXCEPT !.domain = d, !.pc = "lock"]]
    /\ UNCHANGED <<cacheVars, storeVars, envVars, history>>

\* addressAccess is taken and the domain looked up again.  Here and below the
\* two halves of a lookup are one step: only the holder of addressAccess adds
\* entries, so what the buffer did not have it does not have when the database
\* is read.
CreateLock(c) ==
    /\ creator[c].pc = "lock"
    /\ addressAccess = Free
    /\ IF FakeIPLoadDomain(creator[c].domain) # NoAddr
       THEN Return(c) /\ UNCHANGED addressAccess
       ELSE Goto(c, "reserve") /\ addressAccess' = c
    /\ UNCHANGED <<cacheVars, inet4Current, reservedCount, envVars, history>>

nextAddress(current) == IF current + 1 >= inet4Last THEN 2 ELSE current + 1

\* Fault: the metadata saved is where the store is, not where it may get.
reserveNothing == inet4Current

\* Where the store may get before it saves its metadata again.
reserveAhead == FoldLeft(LAMBDA current, i : nextAddress(current), inet4Current,
                         [i \in 1 .. reservedAddressCount |-> i])

SaveMetadata(current) ==
    /\ pending' = [pending EXCEPT !.metadata = current]
    /\ count' = IF pending.metadata = Absent THEN count + 1 ELSE count
    /\ UNCHANGED <<db, writing, flushAccess>>

CreateReserve(c) ==
    /\ creator[c].pc = "reserve"
    /\ reservedCount = 0
    /\ SaveMetadata(reserveAhead)
    /\ Goto(c, "save")
    /\ UNCHANGED <<storeVars, envVars, history>>

CreateFlush(c) ==
    /\ creator[c].pc = "save"
    /\ FlushBegin(c)
    /\ Goto(c, "flush")
    /\ UNCHANGED <<storeVars, envVars, history>>

\* Somebody else has flushed the metadata.
CreateFlushNothing(c) ==
    /\ creator[c].pc = "save"
    /\ flushAccess = Free /\ count = 0
    /\ reservedCount' = reservedAddressCount
    /\ Goto(c, "reserve")
    /\ UNCHANGED <<cacheVars, inet4Current, addressAccess, envVars, history>>

CreateFlushed(c) ==
    /\ creator[c].pc = "flush"
    /\ FlushEnd(c)
    /\ reservedCount' = reservedAddressCount
    /\ Goto(c, "reserve")
    /\ UNCHANGED <<inet4Current, addressAccess, closing, metadata, restarts, resets>>

\* The next address, and the domain that had it.
CreateAllocate(c) ==
    LET a == nextAddress(inet4Current) IN
    /\ creator[c].pc = "reserve"
    /\ reservedCount # 0
    /\ reservedCount' = reservedCount - 1
    /\ inet4Current' = a
    /\ creator' = [creator EXCEPT ![c].pc = "queue", ![c].address = a, ![c].old = FakeIPLoad(a)]
    /\ UNCHANGED <<cacheVars, addressAccess, envVars, history>>

Rested(a, n) == IF rest[a] <= n THEN 0 ELSE rest[a] - n

\* queueFakeIP: the mapping is in the buffer, and the address is the caller's.
\* A mapping made once the last flush has begun may not be saved, and an address
\* given out during the shutdown may be given out again at once.
queueFakeIP(c) ==
    LET a == creator[c].address
        d == creator[c].domain
        old == creator[c].old
        address == IF old = NoDomain THEN pending.address ELSE [pending.address EXCEPT ![old] = NoAddr] IN
    /\ creator[c].pc = "queue"
    /\ pending' = [pending EXCEPT !.domain[a] = d, !.address = [address EXCEPT ![d] = a]]
    /\ count' = IF a \in Queued(pending) THEN count ELSE count + 1
    /\ addressAccess' = Free
    /\ Return(c)
    /\ owner' = [owner EXCEPT ![a] = d]
    /\ rest' = [b \in Addrs |-> CASE b # a -> Rested(b, 1)
                                  [] b = a /\ closing = "no" -> Cardinality(Addrs) - 1
                                  [] OTHER -> 0]
    /\ live' = IF closing = "stopped" \/ (closing = "saved" /\ flushAccess = "close")
               THEN live \ {a} ELSE live \cup {a}
    /\ UNCHANGED <<db, writing, flushAccess, inet4Current, reservedCount, envVars, unreserved>>

-----------------------------------------------------------------------------
(* FakeIPReset, called by the Clash API *)

entries == Cardinality(Queued(pending)) + (IF pending.metadata = Absent THEN 0 ELSE 1)

\* Fault: the metadata is dropped but still counted.
dropMappings == count - Cardinality(Queued(pending))

\* pending.count without the entries the reset clears.
dropEntries == count - entries

ResetBegin ==
    /\ flushAccess = Free
    /\ resets + failures < MaxFaults
    /\ resets' = resets + 1
    /\ flushAccess' = "reset"
    /\ count' = dropEntries
    /\ pending' = NoWrites
    /\ unreserved' = TRUE /\ live' = {}
    /\ UNCHANGED <<db, writing, storeVars, creator, closing, metadata, restarts, failures, owner, rest>>

\* The error of a failed deletion goes to the caller.
ResetEnd ==
    /\ flushAccess = "reset"
    /\ flushAccess' = Free
    /\ \/ db' = NoBuckets /\ UNCHANGED failures
       \/ resets + failures < MaxFaults /\ failures' = failures + 1 /\ UNCHANGED db
    /\ UNCHANGED <<pending, writing, count, storeVars, creator, closing, metadata, restarts, resets, history>>

-----------------------------------------------------------------------------
(* Shutdown: the store saves its metadata, later the cache file flushes *)

Close ==
    /\ closing = "no"
    /\ addressAccess = Free
    /\ metadata' = inet4Current
    /\ closing' = "closing"
    /\ UNCHANGED <<cacheVars, storeVars, creator, restarts, resets, failures, history>>

\* addressAccess has been released: a Create may have come in between.
CloseSave ==
    /\ closing = "closing"
    /\ SaveMetadata(metadata)
    /\ metadata' = Absent
    /\ closing' = "saving"
    /\ UNCHANGED <<storeVars, creator, restarts, resets, failures, history>>

Stage == [saving |-> "saved", saved |-> "stopped"]

\* Fault: the cache file is closed with what has been queued since.
closeFlushOnce ==
    \/ /\ closing = "saving"
       /\ FlushBegin("close")
       /\ UNCHANGED <<storeVars, creator, envVars, history>>
    \/ /\ closing = "saved"
       /\ closing' = "stopped"
       /\ UNCHANGED <<cacheVars, storeVars, creator, metadata, restarts, resets, failures, history>>

\* The Flush of FakeIPSaveMetadata, and the last one of the cache file.
closeFlush ==
    /\ closing \in DOMAIN Stage
    /\ FlushBegin("close")
    /\ UNCHANGED <<storeVars, creator, envVars, history>>

closeFlushNothing ==
    /\ closing \in DOMAIN Stage
    /\ flushAccess = Free /\ count = 0
    /\ closing' = Stage[closing]
    /\ UNCHANGED <<cacheVars, storeVars, creator, metadata, restarts, resets, failures, history>>

closeFlushed ==
    /\ FlushEnd("close")
    /\ closing' = Stage[closing]
    /\ UNCHANGED <<storeVars, creator, metadata, restarts, resets>>

\* A new process; Store.Start takes the metadata over, which skips at most what
\* was reserved, or starts afresh.
Start ==
    /\ restarts < MaxRestarts
    /\ restarts' = restarts + 1
    /\ pending' = NoWrites /\ writing' = NoWrites /\ count' = 0
    /\ flushAccess' = Free /\ addressAccess' = Free
    /\ creator' = [c \in Creators |-> Idle]
    /\ reservedCount' = 0
    /\ inet4Current' = IF db.metadata # Absent THEN db.metadata ELSE firstCurrent
    /\ db' = IF db.metadata # Absent THEN db ELSE NoBuckets
    /\ closing' = "no" /\ metadata' = Absent
    /\ rest' = [a \in Addrs |-> IF unreserved THEN 0 ELSE Rested(a, reservedAddressCount)]
    /\ unreserved' = FALSE
    /\ UNCHANGED <<resets, failures, owner>>

Restart ==
    /\ closing = "stopped"
    /\ Start
    /\ live' = IF db.metadata = Absent THEN {} ELSE live

\* What was only in the buffer is gone.
Crash ==
    /\ Start
    /\ live' = IF db.metadata = Absent THEN {} ELSE {a \in live : db.domain[a] = owner[a]}

-----------------------------------------------------------------------------

CreateStep(c) ==
    \/ \E d \in Domains : Create(c, d)
    \/ CreateLock(c) \/ CreateReserve(c)
    \/ CreateFlush(c) \/ CreateFlushNothing(c) \/ CreateFlushed(c)
    \/ CreateAllocate(c) \/ queueFakeIP(c)

Next ==
    \/ \E c \in Creators : CreateStep(c)
    \/ LoopFlush \/ LoopFlushed
    \/ ResetBegin \/ ResetEnd
    \/ Close \/ CloseSave \/ closeFlush \/ closeFlushNothing \/ closeFlushed
    \/ Restart \/ Crash

Spec == Init /\ [][Next]_vars

-----------------------------------------------------------------------------
(* Properties *)

\* pending.count is the number of queued entries, through resets and repeated
\* entries: Flush trusts a zero and would leave entries unwritten.
CountExact == count = entries

\* The two directions agree, whatever is in the buffer, being written or on
\* disk: the address answered for a domain leads back to that domain, and no
\* address leads to a domain that is answered with another one.  The exceptions
\* are a failed write and the middle of a reset, when the buffer lies over
\* buckets that are older than the one before it.
Bijective ==
    failures = 0 /\ flushAccess # "reset" =>
        \A a \in Addrs, d \in Domains : FakeIPLoadDomain(d) = a <=> FakeIPLoad(a) = d

\* An address that Create gave out leads to its domain until it is given to
\* another one, through every flush and through a shutdown and restart, also
\* when it was given out during the shutdown and before the last flush.  What
\* a crash, a reset or a failed write loses is excepted, and nothing more.
GivenResolves == \A a \in live : FakeIPLoad(a) = owner[a]

\* An address goes to another domain only after the rest of the range has been
\* gone through, less what a restart skips, also across crashes: clients keep
\* the old answer for a while.  Excepted are addresses given out during the
\* shutdown, and those before a reset or a failed save of the metadata and a
\* restart after it.
FreshAddress ==
    [][\A a \in Addrs : owner'[a] # owner[a] => rest[a] = 0]_vars
=============================================================================
