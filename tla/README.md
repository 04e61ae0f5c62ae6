# A TLA+ verification of sish

sish is an SSH server that gives its clients public HTTP(S), TCP, TLS (SNI) and
alias endpoints: a client asks for a *remote forward* (`ssh -R`), the server
allocates a name or a port for it and sends the traffic it receives there back
through the SSH connection. This directory holds TLA+ models of its stateful
parts, the TLC configurations that check them on small instances, and theorems
with proofs that TLAPS checks.

    tlc -workers 2 -config MCTakeover.cfg MCForwardLifecycle    # one run
    tlapm ForwardLifecycleProofs.tla                            # one proof module

`PROJECT.json` lists components, runs, mutants, hazards, findings and theorems,
and maps every definition to the lines of `src/` it stands for.

## 1. Inventory

| Component | State | Operations | Hard part |
|---|---|---|---|
| Remote forward lifecycle (`sshmuxer/requests.go`, `forward_lifecycle.go`, `handle.go`) | `state.Listeners`, the listeners and cleanups of each connection, `cleanupOnce` and `done` of each forward | `tcpip-forward`, `cancel-tcpip-forward`, cleanup, watcher, accept loop | five callers race for one cleanup; set-up races the end of the connection |
| Route allocation (`httphandler.go`, `aliashandler.go`, `GetOpenHost`, `GetOpenAlias` in `utils/utils.go`) | `state.HTTPListeners`, `state.AliasListeners`, holders with balancers | allocate, share, refuse, purge stale holders, remove | allocation and teardown meet in a table keyed by name |
| Force-connect takeover (`requests.go`) | registry of locks per target | lock, evict, wait at most 2 s | mutual eviction, time-outs, reference counts |
| Connection teardown (`utils/conn.go`) | `ForwardCleanups`, the `Close` channel | `CleanUp` | a snapshot of callbacks against late registration |
| TCP and SNI forwards (`tcphandler.go`, `GetOpenPort`, `GetOpenSNIHost`) | `state.TCPListeners`, holders, balancers by name, open listeners | choose a port and a name, listen, share, refuse, tear down | port 0, flags reloaded at run time, late teardown |
| TCP data path (`utils/state.go`, `utils/conn.go`, `handleAlias`) | two copy goroutines, counters, idle deadline | accept, pick a balancer by SNI name, dial, copy, close | half-closed copies, a limiter or an idle time-out against live traffic |
| SSH server (`sshmuxer/sshmuxer.go`) | `state.SSHConnections`, login timer, ping state | handshake, ping loop, deadlines, auto-close | late ping replies, a timer against a login, a blocking message before a clean-up |
| Session channel (`channels.go`) | options, message queue | options, messages | who drains the queue; options set while a request is being handled |
| Census and enforcement (`utils/census.go`, `strict_census.go`) | IDs per source, refresh times | refresh, check, enforce | partial failure, stale decisions |
| SSH multiplexing listener (`utils/sshmux_listener.go`, `httpmuxer/https.go`) | slots of two stages, unbuffered hand-over channels, a wait group | sniff, hand over, route by SNI name, close | close while a connection is sniffed; silent clients hold slots |
| Bandwidth limits (`bandwidth_hot_reload.go`, `conn.go`) | profiles with limiters and counters | exchange a profile | exchange under running transfers |
| Users, keys and header files (`utils/utils.go`, `headers_settings.go`, editors and insert API of `console.go`) | published snapshots, the files | watch, load, save, insert | loads that overlap, bad files, read-modify-write of a file |
| Header settings (`headers_settings.go`) | none | validate, merge, apply | what an override leaves out |
| Admin console (`console.go`, `console_requests.go`, `internal_status.go`) | pages per route, histories of requests | broadcast, connect a page, disconnect, report | a page that connects during broadcasts; full queues; a route that goes away |
| Logs and audit (`audit.go`, `forwarder_logs.go`) | shared writers, entries per IP | write, evict | eviction of what is in use |
| HTTP(S) front end (`httpmuxer/`) | none between requests but the tables above | look up a route, proxy | a route that vanishes under a request |
| WebSocket inspection (`wsinspect/`) | parser state | feed bytes | frames cut at any byte |
| Start-up (`cmd/sish.go`) | flags, reloaded by `viper.WatchConfig` | reload | flags that change between two steps |

How they meet: each SSH connection has one goroutine that handles its requests
one after the other, one that handles channels, and a ping loop; a forward adds
a watcher and an accept loop. They share the tables of `utils.State`
(concurrent maps: each access is atomic, no two are) and one mutex,
`bindAllocationLock`, held from the look-up of a free name or port to the
registration of the holder and, in `onCleanup`, during the removal. Anybody may
call `SSHConnection.CleanUp` of any connection: its own goroutines, a timer, an
administrator, the census enforcer, or a handler that takes a target over.

What makes the core correct: a forward that has been cleaned up is nowhere any
more; no route points at nothing and no serving forward is without its route; a
takeover leaves one holder of the target; a closed connection leaves nothing
behind; every request is answered; ports are bound as the policy allows and
given back.

## 2. Plan

1. `ForwardLifecycle` with `TargetLock` (done): requests, cleanup, routes,
   takeover, closing. Safety proved, liveness model-checked.
2. `TCPForwards` (done): ports, SNI names, holders, hot reload. Safety proved.
3. `Census` (done): refreshes, failing sources, admission, the enforcer. Safety
   proved.
4. The services around the forwards (done): `Session`, `KeepAlive`, `SSHMux`,
   `Transfer`, `ConsoleFeed`, `FrameParser`, `Logs`, `ConfigReload`,
   `HeaderSettings`. All of them share the instance `MCServices`, but `Session`,
   which has one of its own; `TCPForwards` and `Census` share `MCTables`.
5. Proofs for step 4 (done): every invariant that a passing run checks is a
   theorem. Next: the refinement of an abstract route table by
   `ForwardLifecycle`, and invariants of `Session` behind its liveness.
6. Left to model: the reload of flags in `ForwardLifecycle`, `GetOpenPort`
   without a range, the rate snapshots of the status page.

## 3. The modules

### ForwardLifecycle

One module for the handler of every connection, the forwards they set up and the
closing of connections, because its properties are about their interplay. A
forward `f` is one `tcpip-forward` request; a connection `c` has a program
counter `hpc[c]`. The actions follow `handleRemoteForward` from top to bottom:
`Request`; `RefuseClosed`, `RefuseMalformed`, `Deny` (census, duplicate ID,
forbidden forward) or `Admit`; `AcquireTarget`, `Evict`, `Evicted`,
`TargetReleased` or `TargetReleaseTimeout` for force-connect; `Listen`; then
under the bind lock `BindNew`, `BindJoin` or `BindRefused`; `Register`;
`ReplyTrue` or `ReplyFails`; `HandlerCleanup`, `HandlerCleaned`, `Return`.
`Cancel` and `CancelRun` are `handleCancelRemoteForward`. The cleanup of a
forward is `OnceDo` (by whoever comes first), `Unlist` and `OnCleanup`; the
callers are the handler, the watcher, the accept loop, a cancel request and
`RunAllForwardCleanups`. `SSHConnection.CleanUp` is `BeginCleanUp`,
`RunCleanup`, `RanCleanup`, `CloseChannel`, `CloseConn`.

HTTP hosts and aliases have the same allocation code; `Name` stands for both.
`SchemeOf` keeps one difference that matters: an HTTP holder is found by its
host but stored and deleted under a key that begins with the scheme of the
forward that created it.

Abstractions, and why they are sound for what is stated:

- A `Range` over a concurrent map is one step; so is the stale check of a
  holder. The bind lock excludes every other writer of the route tables. The
  listener tables may change during a `Range`, but each of them decides on
  single entries, and the model has the steps before and after it.
- `Unlist` merges the three table deletions of `cleanup`; no code reads two of
  these tables together.
- `OnceDo` ends the watcher and the accept loop with it. In the code they end a
  little later, and their own calls of `cleanupOnce.Do` then have no effect.
- `AcquireTarget` merges the lock with the collection of the connections to
  evict. The target lock is a mutex here; `TargetLock` shows that the code's
  registry of locks is one.
- Reasons of a denial other than the duplicate ID are a set `Deniable` of
  connections that may be denied; failures of a socket, a payload or a reply are
  possible for the forwards in `Faulty`; `Manual` forwards may be cancelled or
  disconnected. This only bounds the state space: the theorems hold for any
  sets.
- Random names are a finite set, so that a name may be drawn twice. Path, user
  and password of an HTTP forward are part of `Name`.
- Flags are constants here; `TCPForwards` has the reload.

### TargetMutex and TargetLock

`TargetMutex` is the promise: at most one handler inside the critical section of
a target. `TargetLock` is `acquireForceConnectTargetLock`, with lock objects in a
heap, the registry, reference counts, and the two critical sections of the
registry's mutex as actions; `Obj` may be reused once nobody refers to it. The
refinement maps a handler that holds the mutex to one inside.

### TCPForwards

A port has a holder (a listener and balancers by name), and forwards share
holders when load balancing is on. A set-up (`GetOpenPort`, `Listen`,
`GetOpenSNIHost`, the balancer) is one step because it runs under the bind lock
from beginning to end; the handler around it is the one of `ForwardLifecycle`.
`GetOpenPort(f)` is the set of answers the allocator can give, random choices
included. `Unlist` and `OnCleanup` are apart, since other set-ups may come
between them. `Reload` exchanges the flags. All forwards use one bind address
and a range is configured; the HTTPS holder exists in the run `https_port`. The
branch of `GetOpenSNIHost` for a name in use is left out: a holder is shared
only with SNI load balancing on, and then the name is shared too.

### Census

The cache keeps, for each source (`census-url` or a file of
`census-directory`), the version of the contents it came from and the IDs in
it; versions exist in the model only. `RefreshCensusCache` may be called by the
ticker, by a manual refresh and by the census editor, each a `Refresher`: it is
`called` until it gets `censusRefreshLock`, then `loading`, first the URL, then
file by file, and commits in one step under the cache's lock. The URL or the
directory fails as a whole (`LoadUrlFail`, `LoadDirFail`), and `Merged` keeps
its last good IDs; a single file that cannot be read or parsed (`Flaky`) is
skipped: nothing of it is loaded, its IDs are lost, and the refresh does not
count as failed (`SkipFile`), as in the code. `RefreshDisabled` and
`RefreshNoSource` are the two early returns. `ReloadFlags` exchanges the flags at any
time, except that what the legacy flag switched on at start-up (`forced`) stays
on: `viper.Set` overrides the file. The first refresh ends before the server
accepts connections, and both loops are started only if the census is enabled
at that moment.

`LastRefresh` is compared with `lastSeenRefresh` only, so three values suffice:
zero, newer, not newer. A pass of the enforcer is `EnforcerTick`, an
`EnforcerVisit` per connection, which asks the cache of that moment and not the
snapshot, an `EnforcerClose` per offender, and `EnforcerDone`. A connection is
admitted in one step and listed in a later one; both refreshes and passes may
come between. `id=` may change its ID at any time, and `local-forward=` may be
set and cleared (`local`): it makes `ListenerCount` -1, whatever is listed, and
the enforcer then makes no comparison at all. `check` and `everOff` are history
variables: the last comparison of a connection's ID that was positive, whether
a refresh has overtaken it before the forward was listed or the enforcer has
skipped the connection since, and the sources that have been off. A save is
remembered with its contents (`saved`), so that `SaveTakesEffect` is about IDs
in the cache and not only about versions.

Abstractions: the flags that a refresh reads one after the other are read in one
step; both `census-url` and `census-directory` are configured; refusal, its
message and the cleanup are one step (`ForwardLifecycle` takes it apart); a
connection's first forward is followed, further ones count when they are
refused; notes and error texts are left out. `Kept` and `May` are the IDs a
source always lists and may list, so that a property can speak of an ID that
never left the census.

### Session

One connection from `AcceptConn` to the end of `CleanUp`. Its goroutines are
variables that say where each of them is: the login (`login`, with the timer of
`cleanup-unauthed`), the reader that writes messages to the session, the
goroutine that serves the session's requests, the loop over ticks that enforces
deadline, auto-close and cleanup-unbound (`keeper`), the handler of a forward,
`checkSession`, and `CleanUp` with its steps. The queue of messages is its
length. `SendMessage(.., true)` is the operator `Say`: it waits for room or for
the `Close` channel; a goroutine in it is at a point whose name begins with
`say`. `TrySendMessage` stands for every send that gives up. The forward itself
is `setup`, `bound` or `gone`; `ForwardLifecycle` takes it apart.

### KeepAlive

The ping loop with a discrete clock. A goroutine that can run does so before
time passes (`SomethingDue`), and what falls due at one instant comes in any
order. At most one request is unanswered: a reply that comes after its time-out
is read by a later tick (`TickLateAnswer`), which counts it and sends the next.
Failure windows, counters and the row of the ping page are kept as in the code.
`unheard` is a history variable: an answer had come when the deadline cut the
connection off, and the loop had not taken it yet.

### SSHMux

The two stages of the port that SSH and HTTPS share: `dispatch` and `classify`
of the multiplexer, then `acceptLoop` and `route` of the SNI proxy. `at[p]` is
the place of a connection; slots, the wait group, the channel `ready` and the
steps of `Close` are as in the code, and the hand-over on an unbuffered channel
is one step of both sides. When `ready` is closed, `ServeTLS` returns and
`log.Fatal` ends the process.

### Transfer

A stream from its accept to the end of both copies, with the exchange of the
bandwidth profile under it. `countingReader` resolves the counter and adds to it
in two steps, `SetBandwidthProfile` publishes the new profile and adds the old
totals in steps of their own, so that every interleaving of the two is there.
Chunks are counted, not bytes. The idle deadline has a clock: since it was
refreshed, and since the last operation. The reader of a forward and of an alias
is an SSH channel, whose `Close` only sends a message: a Read or Write on it that
is under way returns when the client closes the channel too or its connection
ends (`ClientCloses`), and a Read may still deliver what the client has sent.

### ConsoleFeed

The live feed of one route: broadcasts of requests and WebSocket events in the
steps of the code (take an ID, record, copy the list of pages, queue without
waiting, count what did not fit), the bounded history, pages that connect,
take messages and leave, and `RemoveRoute`. A message is its request, its
number and its length.

### FrameParser

The parser of `wsinspect` fed with chunks of any size, against `Whole`, which
reads the same frames with all bytes at hand (`ReadFrame`, one frame after the
other). A stream is a sequence of `FrameHeader`s: opcode, flags and payload
length of each frame. A payload byte is its frame and offset, and one that is
unmasked at the wrong place is `Garbled`.

### Logs

Writers of log files under the read and write lock of their table, with the
clean-up of idle ones; and the audit table, whose rows are taken by the oldest
address at the limit.

### ConfigReload

The three kinds of files the server reads again at run time. A load reads file
by file without a lock and publishes at the end; the watcher, the editors and
the insert API start loads, and files are also changed by hand (`External`). A
file is a set of entries, valid, parsed but refused by the validator, or not
parsed. Files are numbered in the order of the walk: what a file says of a
password replaces what an earlier one said of the same user, and public keys add
up (`Displaces`, `Merge`; `View` is what a set of files says together). A file
that does not load ends the load of users and headers and the old snapshot
stays; a key file is taken line by line. Reads may fail: `SkipUnread` is
`loadKeys`, which goes on without the file, and the header settings, which are
empty when no candidate is found; `AbortUnread` ends the load of users and
headers, which nobody repeats. The insert API is its four steps under its lock:
look for the entry in every file (by name for users, and without validation),
read `fromapi`, write it, load.

### HeaderSettings

A pure algorithm: one header, an entry in the defaults and one in the scope of
a subdomain, all combinations of given and omitted fields, against the rules of
`README_HEADERS.md`. A scope has one entry per header; a file that spells one
header in two ways in one scope is outside the model (the code takes them in
the random order of a Go map).

### MCServices

The services share no state at this level: what one does to another is an
environment action of the other's module (a queue that is full, a socket that
closes, a route that is removed). Their behaviours are therefore explored one
service at a time: `focus` chooses the service of a behaviour, and the others
stay at their start, where no action under fairness is enabled. `session` has
its own run because its fairness is much finer. `MCTables` does the same for
`TCPForwards` and `Census`.

## 4. Runs

| Run | Instance | Shows |
|---|---|---|
| `takeover` | 2 connections, 2 forwards, load balancing, force-connect | routes have backends when holders are shared; takeovers exclude each other; handlers return although connections evict each other |
| `forwards_liveness` | 2 connections of one ID, 2 forwards, forced names, strict unique IDs, faults, cancel, disconnect | teardown leaves nothing; a serving forward is routed but for a late teardown; handlers return, closed connections leave nothing, disconnected routes are cleaned up |
| `session` | 1 connection, a queue of 1 message, 2 requests of the session out of 4 lists of options | deadlines and denials close a connection whatever fills its queue; a broken socket leaves the tables |
| `services` | see below | 15 invariants of ten services |
| `services_liveness` | target locks, multiplexer, data path, console feed | no starvation and refinement of `TargetMutex`; arrivals are served or closed; one end closes both; pages leave no goroutine |
| `tables`, forwards | 4 SNI forwards (2 of one host, one banned name with force-connect) and a plain one, 2 ports, 3 configurations | listed ports are open, the policy holds, ports are given back, forwards are reachable but for two exceptions, no refusal while everything is free |
| `tables`, census | 1 connection, 2 IDs, `census-url` and one flaky file, the ticker and one console request, 2 settings of the flags, 2 contents of each source | no refresh brings older data back; a save is in effect when it is answered, unless its refresh could not read the file; failing sources cut nobody; after a pass only overtaken and skipped connections offend |
| `serving_is_routed`, `unique_id`, `port_zero`, `https_port`, `local_forward`, `ping_timeout` | small | a counterexample each, see below |

Why the bounds suffice: every property about forwards speaks of at most two of
them and of their holder. `RoutesHaveBackends` and `TakeoverExclusive` were also
checked with three forwards, an old one, its replacement and one more that
shares or purges (1.7 million states), and are theorems. Two connections suffice for mutual eviction and
for a cleanup by somebody else. Five TCP forwards let a holder have two
balancers, one of them with two servers, while a plain forward uses the port
next to it or shares it. Names and ports: one more than is asked for, so that a
fallback exists. Of the census, connections do not meet except in the lists of
the enforcer, two refreshers are enough for one to overtake another, and two
contents for old and new data; the proofs cover any number. The two settings are
the legacy flag alone, which switches both sources on if the server starts with
it and leaves none on after a reload, and no census; a third one with both
sources on from the file was checked once (3 million states).

`services`: three handlers, two targets and three lock objects; two connections
and one slot per stage, so that a silent one blocks the other; an interval of 2
with time-outs below, at, just above and at more than twice the interval, until
the clock has seen a client answer and fall silent; two chunks per direction and
an exchange of the profile between any two steps of either copy, an idle
time-out of 8 so that its quarter is more than one tick; two broadcasts, one
page with a queue of one, histories that both limits cut; streams of two frames
of every kind and of three around a control frame, in chunks of up to 4 bytes;
two goroutines and two files, with idle time and interval of 1; three addresses
for two audit rows; two files, the second of them the insert API's, two
passwords of one user and a key of another, two handlers, the watcher, and two
changes of files, with read errors anywhere. Streams are opened by `tcp` and
`alias`: a forward opens as the one and copies as the other.
`services_liveness` has the same shape with one chunk, one broadcast and
no accept errors, since its properties follow one stream, one page and one
connection each. Each service was also checked once on its own with the next
larger bound (two exchanges, three connections on the port, three broadcasts,
three changes of files, an interval of 3 with a clock to 24): no invariant
fails there either.

`CHECK_DEADLOCK FALSE` wherever a behaviour ends: forwards are requested once,
clocks and counters of the environment stop at their bounds, and connections
end.

Fairness. `ForwardLifecycle` assumes weak fairness of the server's steps as a
whole: some goroutine that can run is run. That is weaker than what the Go
scheduler gives, and suffices because the server's steps alone always come to an
end: forwards are requested by the environment, which owes nothing. The waits
of the handler for the release of a target and for the session have timers in
the code. Its blocking messages do not; that they cannot hold it for ever is a
property of `Session` (`DeniedIsClosed`), with the exception it names.
`TargetLock` assumes that a handler leaves its critical section and strong
fairness of `Lock`, since `sync.Mutex` serves a waiter after at most a
millisecond of starvation.

`Session` assumes that each goroutine of the server runs and that its timers
fire, and nothing of the client, which may never log in, open a session, read or
answer. `Say` has strong fairness: blocked senders of a Go channel are served in
turn, so they do not lose to log lines for ever. `DeadlineCloses` and
`DeniedIsClosed` have one exception, a client that keeps its session open and
does not read it (`NotReading`): the write of the session has no deadline, the
queue fills and the goroutine that should close the connection stays in
`SendMessage`. `SSHMux` assumes that every goroutine runs, deadlines fire, and
accept queues are first in, first out. `Transfer` assumes that goroutines run,
that limiters grant tokens, and that an operation on a closed socket returns;
one on an SSH channel returns once the client has closed it (`Returns`), and
that nobody owes: `OneEndEndsBoth` therefore has the exception `AwaitsClient`.
The call of `Close` itself is a message that the transport takes, or the ping
deadline ends the connection; but a client that answers pings and never closes
the channel keeps the goroutine for as long as it is connected. `ConsoleFeed` that goroutines run and a write to a page
ends by its deadline.

Each property of a passing run has a mutant in `PROJECT.json`: an operator that
changes a definition as a plausible bug would, under which the property fails.

### Where the code does not do what it says

- `serving_is_routed`: the teardown of a forward deletes its route by key after
  it has left `state.Listeners`. A new forward that purges the old holder in
  between loses its own route. `UnroutedOnlyByLateTeardown` says that this is
  the only way.
- `unique_id`: two connections with one ID pass the check of
  `--strict-unique-ip` before either has a listener.
- `port_zero`: the default port range contains 0, which `handleTCPListener`
  takes for "no port left"; forwards are refused while all ports are free.
- `https_port`: the holder of the HTTPS port has no forward behind it and is
  purged as stale, and its listener closed, when a forward asks for that port.
- `local_forward`: `README_CENSUS.md:130` says that a client whose ID is removed
  from the census during its session is disconnected. The enforcer skips
  connections whose `ListenerCount()` is not positive, and it is -1 for a
  connection that has set `local-forward=true`, also when it has remote forwards
  (`strict_census.go:50`, `conn.go:947`). `UncensedOnlyIfOvertaken` names the
  exception.
- `ping_timeout`: the text of `--ping-client-timeout` and the comment at
  `sshmuxer.go:504` grant the full time-out after a ping. With a time-out longer
  than the interval a late answer is taken at a tick only, and the deadline may
  pass before that tick: ping at 2, answer at 4 just after the tick, cut at 5.
  `CutIffSilent` says that nothing else cuts a client off early, and how early
  that can be.

`UnreachableOnlyIfDisplaced` and `PortsAreReturned` name three more weak spots
as exceptions: an SNI forward that shares the port of a plain one cannot be
reached; an SNI forward can be displaced by the late teardown of another; and a
forward whose name is refused leaves its new holder behind.

`Census` has two more, visible in its actions. `README_DEV_09032026.md` says that
enforcement is triggered by a successful refresh only; the code sets
`LastRefresh` after a failed one too, so a pass follows. It is harmless where
`CensedNotCut` holds. And a single file that is unreadable for a moment loses
its IDs, unlike a source that fails as a whole: `CensedNotCut` excludes such
files (`Permanent`), and `SaveTakesEffect` a save whose own refresh skipped the
file, which is answered like any other.

The services have more of the kind, none of which contradicts what the
repository says of itself:

- `Transfer`: one chunk per direction and exchange may be added to a profile
  that is no longer installed, and is missing from the totals (`stray`).
- `Transfer`: before it dials, an alias connection tells the owner of the alias
  with a blocking message; an owner that does not read holds its visitors.
- `FrameParser`: the size reported of a compressed message that was not decoded
  is what had been kept of it, which depends on the chunks.
- `ConsoleFeed`: the count of dropped messages is sent with the next message; a
  page whose queue is drained before the count is raised learns of it with the
  next broadcast only.
- `ConfigReload`: of two loads that overlap, the one that read first may publish
  last, and a load of users or headers that meets a read error gives up; either
  way the stale snapshot stays until the next change. A key file that cannot be
  read is skipped, and its keys are refused until then. `StaleOnlyIfOvertaken`
  says that nothing else makes the snapshot stale. A user named in two files has
  the password of the last one, silently. An editor's save and the insert API do
  not share a lock: one can undo the other, which is why `InsertsKept` excludes
  files somebody else edited.
- `Transfer`: see the fairness above for a client that never closes a channel.
- `TCPHolder.Handle` leaves the backend's connection open when the buffered
  ClientHello cannot be written to it (`state.go:363`).

## 5. Proofs

All theorems hold for every value of the constants that satisfies the named
`ASSUME`s: nil values are not values, names and ports are taken from their sets,
flags are Booleans, and where something is counted (handlers of a lock,
connections of the wait group) the set counted is finite.

**ForwardLifecycleProofs.** `TypeCorrect` is inductive with `Working` (a handler
that is not idle works on a forward of its connection). The safety of teardown
and routes needs `SInv`: until it is registered a forward is known to its own
handler only (`Quiet`), so its cleanup cannot begin before `onCleanup` is set;
the holder it got at bind is the one its backend is in (`HolderAtBind`,
`HolderRoot`, `Backends`); once unlisted it stays so (`Unlisted`, `NoBackend`);
and a bound forward stands: listed, a backend of its holder, and routed or
displaced (`Standing`). `Standing` is the heart: a holder with a listed backend
is not stale, so no allocation replaces it; only a teardown for the same key can
take its route. From it follow `CleanedSafe`, `RoutesSafe` and
`RoutedUnlessDisplaced`.

The second part of the module proves `TakeoverSafe` from `KInv`: who is about to list a forced
forward holds the lock of the target (`Locking`, `Holding`), and an open
connection that had listed one before is among the victims the holder of the
lock has still to close (`Doomed`). When the wait for the release ends, by
release or time-out, no victim is left, so whoever is still listed is being
closed.

**TargetLockProofs.** `IInv`: the registry leads every handler between `Lookup`
and `Drop` to its object (`Captured`), an object serves one target
(`Injective`), the count is the number of users (`Counted`), and the mutex is
locked by the one inside (`Owned`). `MutexSafe`, `RegistrySafe` and `Refinement`
(every step is a step or a stutter of `TargetMutex`) follow.

**TCPForwardsProofs.** `IInv` adds to the properties: a forward that is not set
up is unknown to all tables (`Fresh`); who has a holder has a balancer
(`Captured`), which belongs to one holder under one name (`OneHome`) and, while
it is listed there, has servers (`Backed`); a forward that is up stands in its
holder or has been displaced (`Standing`); plain forwards on plain holders are
nameless (`PlainName`). The last forward of a holder is the last server of its
balancer by `OneHome`, and no other balancer is left by `Backed`, so its
teardown closes the listener: `PortsReturnedSafe`. A forward that is up keeps
its holder from being stale and its balancer active, so neither purge hits it:
`ReachableUnlessDisplaced`. `RefusedOnlyIfBusySafe` assumes what the run
`port_zero` shows to be necessary: a range without 0 (and not empty).

**CensusProofs.** `CInv` follows three things at once. A refresh: only the holder
of the lock loads (`Locked`), so what it has read is no older than the cache
(`Ordered`: without the lock another commit could come between), and includes
the contents of the save it was started for unless it skipped the file
(`Written`). IDs: listings are contents of their
source but for skipped files (`Faithful`), and a source that a refresh leaves
out has been switched off (`Switched`), so an ID that is always listed survives
every commit. The enforcer: its two lists belong to a pass (`Passing`), a check
that was not overtaken is still true and during a pass every uncensed connection
with such a check is ahead of the enforcer or in its list (`Pending`; a visit
that skips one for its local-forward option ends the check), and a connection
that the census has always named is in no list (`Spared`). `NoOlderDataSafe` and
`SaveTakesEffectSafe` follow from the first part, `CensedNotCutSafe` and
`UncensedOnlyIfOvertakenSafe` from the others.

**DataPathProofs, Transfer.** `TrInv` keeps the books of both directions: every
chunk read is counted by the installed profile, still owed by the migration,
astray, or in hand (`Balanced`); a chunk is in hand between the two steps of a
Read only (`InHand`), and profiles to come have counted nothing (`Installed`).
The bound on strays needs `Strayed`: a counter in hand becomes late when its
total is migrated and not when the profile is published, so strays, the late
chunk and the migration under way together never exceed the number of
exchanges. The clocks need `Timed`: the deadline was set less than a quarter of
the time-out before the last operation. `BytesSafe` and `IdleSafe` follow.

**DataPathProofs, FrameParser.** `StreamIsParsed` says what the parser reports of
every stream, and needs to know where it is at every byte of it: `FpInv`. Until
an error stops it (`Stopped`), the parser agrees with the reference that has
read the frames before the present one (`Following`), and it is between frames
with some bytes of a header read (`Between`) or has read the first `k` bytes of
a payload (`Within`). What it has kept of a message, with its limit, its size
and its flags for overflow and damage, is then a function of the frames so far
(`Gathered`), however the bytes were cut into chunks. The lemmas come in the
order of the parser: sizes and positions, what `Feed` takes of a chunk, a
header, a payload, the end of a frame. Nothing is assumed of a stream but that
its frames have opcodes, flags and lengths; frames that violate the protocol
are among them.

**ConnectionProofs, SSHMux.** `MuxInv`: the wait group is the number of
connections a route goroutine works on, the accept loop of the SNI stage leaves
its loop only after `Close` is complete, and `ready` is closed when the loop has
stopped and nothing is in flight. Only that loop starts route goroutines, so
none comes later: `ReadySafe`.

**ConnectionProofs, KeepAlive.** `DeadlineCutsTheSilent` from `PingInv`, for any
interval and time-out. While the connection is open, ticks are an interval
apart (`Ticker`) and requests are sent at ticks, so that the wait of a request
ends when the next tick comes (`Sending`); a request in flight was sent whole
intervals before the next tick and has a deadline no earlier than its own
time-out (`InFlight`), and without one the deadline leaves room for the next
(`Granted`). The part that is easy to get wrong is an answer that came and was
not counted yet (`Uncounted`): it waits for one tick at most, and the client
took at least as long as the ticks that passed without it. The first half of
the property follows at the cut, where the deadline lies between two ticks: if
no answer is waiting the client has taken the full time-out, and otherwise at
least until the last tick before the deadline (`LastTick`). The second from `Deadlines`, which bounds the deadline by the last answer.

**FilesProofs, ConfigReload.** `ReloadInv`. An insert holds its lock from the
listing to the end of its load (`Serialised`), so what it is about to write
keeps what the file holds (`Appended`): `ConfirmedInsertsKept`. It has looked
for the user in every file it passed (`Looked`), so what it adds takes no
password of an untouched file away (`Innocents`); and a load that has passed a
file nobody edited has its entries, but for those of a user a later file names,
or has skipped it (`Carried`, `Access`): `UntouchedAccepted`. A load that began
at the last change has exactly what the files it has read say together (`Exact`).
That rests on `MergeView`: reading files in order and merging each into what was
found gives the `View` of all of them, in which the last namer decides. The last
change is still to be noticed, being loaded, given up or published (`Followed`,
`Accurate`): `SnapshotFollows`.

**FilesProofs, Logs and HeaderSettings.** `LogInv`: a goroutine that is about to
write has its writer under the read lock, so no clean-up evicts it
(`LockedWriters`); `LogFilesHaveOneWriter`. `AuditRowsAreLatest` is inductive
with its types: the address evicted is the one whose last arrival is oldest, and
no other address arrives in the same step. `HeadersFollowTheRules` is a case
analysis of the merge against the rules, for any values.

**ConsoleFeedProofs.** `FeedInv`. The histories first (`Books`): what `trim`,
`TrimEvents` and `KeepLast` leave of a history of any length, and what
`WithEvent` adds to it, are lemmas about sequences; with them, every record
comes from a broadcast whose length is what it measures beyond its events
(`Traced`), and the limits hold (`Limited`). Then the pages (`Reached`): a
broadcast past its record has, for each page that was given the history, either
that page still ahead of it or has shown it the message. A page is listed before
it is given its history, so a broadcast that copied the list too early has
recorded before that history was read: `PagesSeeTheHistory` and
`HistoryStaysBounded`.

The library's induction theorems take an operator as a parameter and cannot be
used here. Where a fact is about sequences of any length (the sum of the sizes of
a history, the bytes and the reference reading of a stream), it is proved by
contradiction from the least counterexample: a set of numbers that is not empty
has a least member (`MinMember`, from the well-foundedness of `<`), and the
defining equation of the recursive function carries the fact from its
predecessor to it.

The runs of the services are those of `MCServices` with the focus on one of
them; `TrSpec`, `FpSpec`, `MuxSpec`, `PingSpec`, `ReloadSpec`, `LogSpec`,
`HeaderSpec` and `FeedSpec` are the same initial states and actions on their
own.

The inductive invariants were checked with TLC before they were proved: `TInv`,
`SInv`, `KInv`, `CInv` and the two `IInv` on the instances above, `ReloadInv`,
`PingInv` (an interval of 2 and of 3, time-outs from 1 to 7), `FeedInv` (three
broadcasts) and `FpInv` on instances of their own.

Only model-checked: the liveness properties, those of `Session` and `LockGranted`
among them (fairness and `ENABLED` are out of the prover's reach), and the six
counterexamples. Every invariant that a passing run checks is proved.

## 6. Not modelled

- Rendering, paging and sorting of the console's pages, the rates and health of
  the status page (`internal_status.go`), and the text of messages and logs:
  they read state and format it.
- The reverse proxy of `httpmuxer`: rewriting of requests, path stripping, basic
  authentication, bodies captured for the console. It keeps no state between
  requests but the tables and feeds modelled above; TLS, ACME and certificates
  are library code, and the watcher of certificates is that of `ConfigReload`
  with a library's loader.
- Parsing of flags, options and YAML: options and entries are told apart by what
  they do. Decompression and rotation of log files are library code.
- `GetOpenPort` without a port range, and the reload of flags in
  `ForwardLifecycle`.
