# A TLA+ model of amnezia-box

amnezia-box is a fork of sing-box, a proxy platform written in Go. Inbounds hand
connections to a router, the router asks the DNS side for addresses and picks an
outbound, possibly through a group that chooses among several, and a connection
manager dials and copies. This project models the parts in which several
goroutines share state. Source paths below are relative to the repository.

## Inventory

| Part | State | What makes it hard | Module |
|---|---|---|---|
| Connection pool, `dns/transport/conn_pool.go` | current state, its connections, users, the shared dial | dials outlive `Reset` and `Close`; counters changed on many paths | ConnPool, SharedConn |
| Query multiplexer, `dns/transport/multiplexer.go` | queries in flight by ID, keep-idle flag, reuse state | response, failed write, context and connection death race to complete one query; IDs wrap | Multiplexer, QueryService, ReuseProbe |
| DNS router, `dns/router.go` | state of one rule walk, futures | race rules judged out of order, speculative queries, one wake token | DNSWalk |
| DNS client, `dns/client.go` | cache, lock for each question, refreshes | one query for many callers, optimistic answers, a network that changes under a query | DNSClient |
| FakeIP store and cache file | last address, mappings, pending writes | wrap-round, failed flush, restart | FakeIP |
| Fallback group, `protocol/group/fallback.go` | selection, test history, interrupt group | health checks, failed dials and cancelled checks update one selection | OutboundGroup |
| Connection manager, `route/conn.go`, `route/splice.go` | tracked sockets, splice, two copies | nine ways to end; `CloseAll` at any moment | ConnManager |

`PROJECT.json` lists every part with its status, the source lines of every
definition, and the hazards with the properties that cover them.

## Modules

**ConnPool** models the pool in single mode: `AcquireShared`, `connectSingle`,
`Release`, `Invalidate`, `CloseIdle`, `Reset` and `Close`, one action per stretch
of code under the mutex. A pool state is a generation; `Reset` and `Close`
start the next. The ordered mode, which nothing in the repository selects, is
left out. **SharedConn** is what the pool promises: one current connection,
handed out only while it is current and open, closed by the pool only when it no
longer is. ConnPool implements it under the mapping `Phase`.

**Multiplexer** extends ConnPool. The clients of the pool are the runs of
`exchangeAsync`, at most two for each query, because a read error on a reused connection
leads to one retry. It adds registration, write, read loop, context and the sweep for
idle connections. A request that was written may be answered, answered several times or
not at all (`written`, `Lost`); the read loop first reads a response (`received`) and
then looks its ID up, and in between its query may be abandoned and the connection
closed. `register` takes the first free ID after the last one, and looks for it in the
map only: a write that blocks while all IDs are gone through finds the entry of another
query under its ID, and takes it when it fails. It implements two specifications:
ConnPool's own (`PoolSpec`: it drives the pool only as the pool allows) and
**QueryService** (`ServiceSpec`: each query is called back once, with its own response
or an error).

**ReuseProbe** models the reuse state machine apart from the queries: probes,
their epochs, recorded connection deaths and demotion.

**DNSWalk** models `exchangeWithRules` for one query: `walkDNSRules`, the armed
rules and their sweep, suspension and resumption, and the completion of futures
between any two steps. A response is a hit or a miss for the rules bound to it;
inverted rules are left out. `Valid` states which lists the configuration accepts.

**DNSClient** models `Lookup`, `Exchange` and `ExchangeAsync` for one question, from
`beginExchange` to the release of the lock, with the refresh of answers served stale,
the store of rejected responses and nested requests that a transport makes.
Cache keys differ in the network environment only. An entry is fresh, stale or
old; it may be evicted at any time. The history variable `calm` says that nothing was
lost and the network did not change since a request took or found its lock. Left
out: the persistent cache, disabled caching, and how the answers of a dual-stack lookup
are put together.

**FakeIP** models `Store.Create` and the FakeIP part of the cache file, for one
address family. A mapping is in the pending buffer, in the one being written or in
the buckets, and a lookup reads them in that order. Flushes of the loop, of
`Create` and of the shutdown exclude each other, and each may fail. `FakeIPReset`
takes two steps, since the buffer is emptied before the buckets are deleted. A crash
loses the buffers. The history variables say which address was last given to which
domain and which mappings no crash, reset or failed write has lost. Left out: the
store in memory, the cached DNS responses that share the buffer, and the
reopening of a corrupted database.

**OutboundGroup** models the fallback group: `Touch` and `loopCheck`, `urlTest` with its
tests, `performUpdateCheck`, `Select`, `DialContext` and `ListenPacket`, routed
connections attached to the group, and the interrupt group. A connection of the
interrupt group is external when the context of its dial says so, whether or not it was
routed to the group. `Select` takes one step for each member it looks at, since the
history may change in between. Members are plain outbounds; the group's `Close` and
deletions of history by the API are left out.

**ConnManager** models `NewConnection` and `NewPacketConnection` from the dial to
the end, with the tracked socket, the splice that may take it over (the stack is a
library and marked external), both copies and `CloseAll`.
What is copied is left out: a copy ends at the end of its source, with an error or
because the source has been closed.

## Runs

| Run | Question |
|---|---|
| `conn_pool` | one connection at a time, none leaked, counters exact, no closed connection handed out, idle close spares users; the pool implements SharedConn |
| `conn_pool_live` | waiters return; connections of replaced states are closed |
| `mux` | every tracked connection has a reader; the multiplexer implements QueryService |
| `mux_limits` | the ID space at its limit; without keep-idle, connections close after the last answer; the pool is driven lawfully, through a Reset |
| `mux_live` | every query is called back |
| `reuse_probe` | reuse is claimed only when a probe of the same epoch has shown it; a failure count at its limit is acted on; probing ends |
| `dns_walk` | the deciding rule and its options are those that listed order and race promise; held queries stay held; no wake-up is lost |
| `dns_walk_judged` | expected violation, see Findings |
| `dns_client` | the lock of a key has one owner; who waited is served from the cache; entries belong to the network they are stored for; every request returns |
| `fakeip` | domains and addresses stay inverse to each other; an address leads to its domain until it is reused, and is not reused before the range has been gone through, with crashes, resets and failed writes; the buffer's count is exact |
| `outbound_group` | connections do not outlive the selection they were made under; an undisturbed update selects the first tested member; the group converges to the first healthy one |
| `conn_manager` | `onClose` is called once, nothing stays open or listed, a close is never lost to a splice, a connection that lost an end comes to its end |

**Bounds.** Two connections and two generations are enough for a dial to outlive its
state and for a new connection to coexist with an old one. Two queries are enough for
one to take the ID or answer of another. `mux` has two connections in one generation and
two IDs, which the runs reuse; `FreshId` as an action constraint keeps `register` from
an ID that is still in use, since ServiceSpec does not hold otherwise. `mux_limits` has
one connection in two generations and one ID. The liveness runs use one connection. The
instance of `mux_live` with two, which a retry needs in order to dial, takes half an
hour and is not among the runs; `Answered` holds in it with IDs restricted by `FreshId`
and fails, as `ServiceSpec` does, without. `dns_walk` takes the 283 lists of
`MCDNSWalk`, of three and four rules over two tags, one of each pair that differs only
in the names of the tags: enough for two pending responses, an armed rule and a rule
that is held. `dns_client` has a lookup that takes no stale answers, an asynchronous
request with a response checker and a request nested in the first; the unknown network,
a known one and two changes, enough for an answer to arrive in another network and for a
query to be overtaken twice. `fakeip` has two callers, three domains and three
addresses, and reserves one address at a time, so that every allocation meets a save of
the metadata; one restart and one fault. `ReservationFits` asks that a reservation leave
at least one address unreserved: with a range smaller than the 1024 addresses the code
reserves, the skip wraps round and promises nothing. `outbound_group` has two members,
two networks, one dial at a time besides the checks, and one change of health or failed
dial: enough for a failed dial, a running check and the loop to compete for the
selection. `conn_manager` has two connections of any kind; they share only the list and
`CloseAll`.

Symmetry is used in runs without liveness only. In `mux`, `mux_limits`, `mux_live`
and `fakeip` the system may stop (all queries answered, bounds on restarts
reached), so deadlock is not checked there.

**Fairness.** Go runs every goroutine that can run, hence weak fairness of each
client's and of the walk's own steps; in `mux_live` it is enough that some goroutine that
can run does, since each query's runs are finitely many steps. A dial ends, because it runs under the
context of the query that started it, which `dns/client.go` gives a timeout, and the
goroutine that closes a replaced state runs. The DNS client is assumed to call back
every query it was given (`dns_walk`). The context of a query is assumed to end
(`mux_live`): a query to a silent peer is called back only for that reason. Nothing is
assumed of the peer. In `dns_client` transports answer or fail by their deadline; of
requests that wait for a lock only nested ones rely on their deadline, because the lock
may be their own parent's. In `outbound_group` a `sync.Mutex` starves nobody (it is
handed over after a millisecond), hence strong fairness of `updateLock` for the check;
whoever holds the mutex gets on, callers need not come and dials need not return; the ticker
ticks, sometimes while no check is running, and a test result gets older than the
interval. In `conn_manager` dials, handshakes and writes end, and so does a read from a
closed socket; a read from an open one need not.

## Proofs

TLAPS proves the following for every value of the constants that satisfies the named
assumptions; `PROJECT.json` lists the theorems.

- **ConnPool**: what `conn_pool` checks, for any finite set of clients, any set of
  connections and any number of generations. `CoreInv` in `ConnPoolCore_proofs` is inductive
  by itself: which generations are current, being closed or cancelled, that `connecting` names
  exactly the attempt that is dialing, where a connection can be open, how often one was
  handed out as created, and what each place in `acquireShared` implies for the client. It
  types `sharedWaiters` as an integer only; that it is a natural number follows from what it
  counts. `IInv` adds that: for each counter there is a bijection (`Counts`) between the
  numbers up to it and the clients it stands for. This is kept by a client that comes or goes
  without any fact about cardinalities; `ConnPool_proofs` then restates it as `UsersCounted`
  and `WaitersCounted`.
- **SharedConn**: `PoolImplementsSharedConn` (`ConnPool_proofs`) shows
  `Spec => SharedSpec`: each step of the pool is a step of the abstract pool or a stutter. It
  rests on `CoreInv` and on one more fact, that a connection whose dial succeeded exists.
- **Multiplexer**: three results without further assumption (`Multiplexer_proofs`). `PoolSpec`:
  every step is one of the pool, so that all of the above holds for the pool inside the
  multiplexer. `PendingIsUser` and `TrackedIsRead`. Their invariant is `CoreInv` with `RunInv`,
  which relates where a run of `exchangeAsync` is to what it holds in the pool and to its
  entry in the map: a run has at most one entry, under the ID it registered, and holds a
  connection as long as it has one.
- **QueryService**: `MuxService_proofs` shows that the multiplexer implements QueryService,
  assuming `FreshIds`: no run registers the ID of another run inside `write`, or of a
  request to which a response has been read and not looked up or may still come. The IDs of
  answered and of lost requests are free again, so that a connection may serve any number of
  queries. Without it the theorem does not hold (see Findings), and the code does not ensure
  it other than by having 65536 IDs. `OwnInv` says what fresh IDs buy: an ID a run or a
  request carries leads to its own query or to none. `ServiceInv` says that at every moment
  exactly one run is responsible for a query that has been asked and not called back. Each
  action is shown to keep the responsibility, to hand it to the second run, or to end it
  with the one callback.
- **Idle connections**: `IdleClosed`, in `MuxService_proofs` as well, under the same
  assumption. `IdleInv` joins four facts: a run inside the pool is responsible for a query
  (`BusyInv`), so that a failure shows as an error; a sweep is due after every response
  (`SweepInv`); as long as nobody has failed, the client that started a dial waits for it
  (`StarterInv`); and a shared connection is held or about to be collected, unless a sweep
  is due (`InUseInv`). The exactness of the counters enters where `CloseIdle` spares a
  connection.
- **ReuseProbe**: the invariants of `reuse_probe` for any number of probes, connections and
  Resets. `IInv` adds that no probe is of a later epoch than the current one, without
  which a Reset could make an old probe current.
- **DNSClient**: `LockHeld`, `WaitersServed` and `EnvMatches` for any requests of any kind,
  any networks and any number of changes. `IInv` adds that a request that found a lock
  stops waiting only when the owner has returned (`CondInv`), that the key of a calm request is the present
  one and its stored answer still fresh (`CalmInv`), and for queries and refreshes under
  way what is known of the network they were asked and answered in as long as it changed
  at most once (`EnvInv`); the last is what a change of the network shifts by one.
- **ConnManager**: `OnCloseOnce`, `NothingLeft` and `ClosedForGood` for any number of
  connections. The invariant speaks of one connection at a time (before, during and
  after the copies); a connection in the list has a socket and is not over.
- **OutboundGroup**: `OnSelected` and `SelectsFirstTested` for any non-empty lists of members
  and networks, any support of networks by members and any number of dials. `GroupInv` joins
  `OnSelected` with three facts: only the holder of `updateAccess` is between its decision and the
  interruption (`LockInv`); what the interrupt group lists is open, or routed and being
  dialled (`ListInv`); and as long as no history has come or gone, the networks
  an update has passed are decided as they should be and the members it has passed on the
  present one are untested (`SelectInv`), which is what a `Select` of several steps needs.

Only model-checked:

- liveness, which needs fairness and `ENABLED`;
- DNSWalk: what a walk must find is defined by recursion over the rule list, and the
  induction over lists of any length is out of the prover's reach;
- FakeIP: the buffers are folds over queued entries. What they leave in the buckets, on which
  `Bijective`, `GivenResolves` and `FreshAddress` rest, needs induction over the queue;
  `CountExact` does not depend on it and has no proof yet.

## Findings

`dns_walk_judged`: a tagged response that arrives after `settleDNSFutures` and
before the check that its future is resolved (`dns/router.go:778` and `812`, `584`
and `629`) is not in the map the rule is matched with. The rule counts as not
matching and is not judged again, where
`docs/configuration/dns/rule_action.md:52` says "Each race rule is judged once its
referenced responses are available". `LawfulResult` and `OptionsInOrder` exclude
walks in which this happened.

Some behaviours that nothing in the repository rules out are excepted by name in the
properties and listed as hazards:

- Multiplexer: a write that blocks while all IDs are gone through takes, when it fails, the
  entry of another query. A response that comes as late leads to the wrong query. `mux` is
  constrained to stay short of this (`FreshId`), which takes 65536 registrations in the
  program while one write blocks or one response is under way, and the theorems on callbacks
  and on idle connections assume `FreshIds`.
- FakeIP: an address given out during the shutdown is given out again after it; after a
  reset and a crash the range starts afresh; after a failed write the two directions
  of the mapping may disagree, also because `queueFakeIP` clears the former domain of
  an address without comparing, as `putFakeIP` does. In the middle of `FakeIPReset` they
  disagree as well, for as long as the deletion takes.
- DNSClient: when the network changes twice during a query, back to where it was, the
  answer of the network in between is stored for the first one.
- OutboundGroup: a dial that a change of the selection overtakes leaves its connection
  on the former member.
- ConnManager: an end that has come to its own end before it is closed is noticed only
  when the other direction has something to write there.

## Not modelled

- The network manager (`route/network.go`) and the strategies for asking several servers
  (`dns/transport/exchange_strategy.go`) are the next candidates. What the former does to the modelled
  parts (`CloseAll`, changes of the environment, cancelled checks) may happen at any time in the models.
- Lifecycle and managers (`adapter`, `box.go`): stages are started by one goroutine, in
  the order of the dependencies, and nothing is removed while the program runs.
- Rule sets and the reference manager: one goroutine each, under a lock; the rest is HTTP,
  parsing and a closure over the configuration.
- Routing of one connection, protocols, transports, TLS, sniffing, services, API front ends and
  option parsing: sequential code, byte formats, cryptography and operating system calls.
