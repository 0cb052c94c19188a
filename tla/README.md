# DobbyVPN: a TLA+ model of the VPN core

DobbyVPN is a VPN client: a Go core under `src/core` owns the one VPN session of
a device, and native front ends (Android, Apple, Windows, a command line) send
it requests and show its snapshots. This project models the core, checks it
with TLC on small instances and proves its main properties with TLAPS.

## The system and its parts

| Part | State it keeps | Operations | Module |
|---|---|---|---|
| Session manager, `sessionapi/api.go`, `shutdown.go`, `restore.go` | the session: state, generation, fences, two ledgers of closers, selection, recovery | Configure, Start (start, retry, replace), Stop, StopAndWait, Resume, Restore; one attempt worker; health watcher | `Session` |
| Runtime lifecycle, `sessionapi/runtime/lifecycle.go` | the network owner, whether a lease is active, the undo list of a lease | PrepareNetwork, Start, lease.Stop, health monitor | `RuntimeOwner` (promise), `RuntimeLifecycle` |
| Desktop native runtime, `runtime/native_runtime_desktop.go`, `runtime/internal` | state, done channel, cleanup entries, routing plan | Connect, Disconnect, the run goroutine | `NativeDesktop` |
| Packet stack, `tunnel/` | the attached attempt, the router's target, a flow owner per attempt | Attach, Detach, Stop, dials, UDP admission, idle timeout | `TunnelFlows` |
| Mobile native runtime and binding, `runtime/native_runtime_mobile.go`, `sessionapi/mobilebinding` | the descriptor, platform callbacks, the channel of state changes | Connect, CancelConnect, Disconnect, acquire and release of the tunnel, PublishState | `NativeMobile`, `StatePublisher` |
| Outline, `outline` | listener, workers, pending dials, associations, tracked handles | dial, associate, Close | `OutlineDevice` |
| Xray, `xray` | the owner of the process-wide dialer, its sockets | Open, dial, Close | `XrayDevice` |
| TrustTunnel, `trusttunnel` | the owner of the native client, its readiness; a forwarder's listeners and sockets | Open, WaitReady, Close; relay of streams and datagrams | `TrustTunnelDevice`, `EndpointForwarder` |
| Protected dialer, `tunnel/protected_dialer`, and the Windows network guard, `routing/windows_guard_windows.go` | a scope per attempt, the physical interfaces; filters and which attempt they are for | dial, protect, authorize, close, retire | `SocketScopes` |
| Windows packet engine, `tunnel/platform_engine` | what was changed on the adapter, device, stack, guard, phases of the teardown | start, stop | `WindowsEngine` |
| Physical resolver, `dnscache`, `runtime/internal`, `mobilebinding/resolver.go`, `UpdateBootstrap` of both guards | resolver and revision, bound interfaces, DNS exceptions; the queries of a lookup | capture, resolve, query | `PhysicalDns`, `CapturedDns` |
| Other routing, `routing` | leases of native rules and routes | acquire, repair, recover, close | one resource per lease in `NativeDesktop` |
| Source store, `sessionapi/source_store.go` with its callers | the URL on disk | save, load, clear, attach | `SourceStore`; the activation in `Session` |
| Configuration, `sessionapi/config*.go` | none | load, parse | any of a set of inventories in `Session` |
| Control plane, command line, logs, diagnostics, FFI, probe | connections, files | | not modelled; see `PROJECT.json` |

How they interact. A client request takes `session.mu` and either returns at
once or starts the attempt worker. The worker calls, without the lock, the
platform (PrepareTunnel), the runtime's PrepareNetwork (the interface, the
packet stack and the routing policy: the *protection*), then for each candidate
profile the runtime's Start (a protocol device, its readiness, Attach to the
packet stack). Whatever a call returned is pushed on a ledger before its error
is looked at. Cleanup pops the ledgers in reverse order and stops at the first
error; the rest stays for a retry by Stop. A failed or unhealthy attempt is
replaced (next candidate, recovery, switch) without taking the protection down.

What is hard:

* **Interleaving.** Stop, switch, health failure and shutdown meet the worker
  between any two of its native calls, and each other. Connect, the run
  goroutine, a cancellation and Disconnect share one state and one channel.
  Dials race the fence that Detach puts up.
* **Partial failure.** Any native call can fail, also half-way, also in cleanup.
* **Stale data.** Configure and Restore load outside the lock.
  Lookups share one resolver while the physical network switches.
* **Racing queries.** A lookup asks every server for both families at once; the
  first answer ends the others, which must neither get lost nor be waited for in vain.
* **Late arrivals.** A dial or an accept completes after Close took its snapshot;
  Windows removes an adapter after Stop gave up waiting for it; a phase of a
  teardown outlives the call that began it.
* **Process-wide hooks.** Xray's dialer and the native TrustTunnel client belong
  to one device at a time, and to none while anything of the last one is left.
* **Liveness.** A Stop must be carried out; Detach waits for dials that somebody
  has to cancel; a Close waits for workers that only it can wake.

`PROJECT.json` lists these hazards one by one, at their lines, with the
properties that would catch each.

## Modules

### Session

One action per critical section of `session.mu`, or per call that a worker makes
outside it. `pc` is the place of a goroutine in `runStart` or `finish`; `held` is
what exists natively (the truth), the ledgers are the books. The sequence number
is only compared for equality, so `current`, the set of callers whose number is
still the session's, replaces it. `configureRequest` is the last caller that
incremented it. A refused request changes nothing and is a stuttering step.

Properties: `SingleOwner` (one worker owns the attempt), `NothingLeaks` (what
exists is in a ledger), `CleanupIsComplete`, `ConnectedIsBacked`,
`ConnectedTarget` (a connection is one the selection asked for),
`StopReachesAttempt` (a Stop with a generation the client was told of is
accepted), `PrimaryActionWorks` (the button a snapshot offers does something);
the step properties `ProtectionStays`, `StopIsFinal`, `FailedCleanupBlocks`,
`ReleaseOrder`, `RestoreExact`, `StartsWhatItLoaded`; and the liveness property
`AttemptsEnd` (a Stop is carried out, and every attempt settles). `SessionInv` holds the inductive invariant
`Inv` with its part `Ownership`; `SessionProofs` and `SessionClientProofs` the proofs.

### RuntimeOwner and its implementations

`RuntimeOwner` states the promise that Session relies on in whatever the runtime
returns, the network owner of PrepareNetwork and the lease of Start: an owner
returned without an error holds everything until it is stopped; a call that
returns no owner, and a Stop that succeeds, leave nothing and nothing comes back;
a Stop that fails can be repeated. Three modules are shown to implement it
(`phase` from the caller's view, `holds` from what exists).

`RuntimeLifecycle` is `lifecycle.go` itself: `runtime.mu`, `active` and `network`;
Start with its steps (inputs, socket scope, device, open, readiness attempts,
attach) and the rollback of each; the lease with its undo list, its callback
and its repeatable Stop; the health monitor. The network is one resource there.
`LeaseKeepsPromise` is the refinement. `ActiveIsOwed` and `OneAttempt` (parts of
`LifecycleInv`) are the two sides of the `active` flag: it never blocks the
runtime without an owner who can clear it, and never admits a second attempt.
That the callback is set only when Start returns matters: it locks `mu`, and
`LeaseCallsReturn` fails otherwise.

`NativeDesktop` is the detailed network owner on desktop: Connect with its
three-way select, the run goroutine that acquires in the order of the platform
(`Linux`, `MacOS`, `Windows`) and cleans up in its order, Disconnect,
`connectContext`, and the cancellation that is linked to the acquisition only.
`KeepsPromise` is the refinement.

`NativeMobile` is the network owner on phones: the tunnel comes from the
platform's shell, which may report that it still owns something after an error
and may be replaced before the release; Connect duplicates the descriptor into
the engine, and a canceled PrepareNetwork leaves it behind. The delicate case is
a Connect that gets its lock after Stop has released everything: only the
request that CancelConnect left behind keeps it from starting an engine. A panic in
the start of the engine may leave the process-wide reservation behind (`abandoned`):
nobody has a handle to stop it with, and every later start is refused.
`MobileKeepsPromise` is the refinement. `StatePublisher` is the channel of one
place through which the shell learns of state changes.

A native call may fail at any time and an acquisition that fails may leave
something behind. A cleanup deadline is a cleanup call that fails, or a wait
that ends early.

### TunnelFlows

`Engine.mu` is held over a whole Attach, Detach or Stop, so `op` is the one
call in progress and its place. A flow is a dialing goroutine with at most one
socket, in one of three kinds: TCP dial, UDP dial, UDP origin (an input endpoint
that `HandleUDP` admits and hands to the attempt's relay). `pending` and
`connections` are the books of the flow owner; `open` is the truth. `FlowInv` is
inductive; `TunnelFlowsProofs` proves it. `FlowsEnd` says that Detach and Stop
succeed when closes do.

### Host and its parts

Ten modules model parts that share no state with each other; `Host` puts them
side by side. `part` is the part that moves in a behaviour, one of `Parts`: a product
of all ten would only multiply their states, since no step of one reads what another
writes. So one run explores every part completely, with its own failures, and the properties that say the same of
several parts are stated once.
The system calls of a part may fail at any time until a step named `...FailuresEnd`
(the field `failures` of `outline`); from then on they work, and `ClosesEnd` asks
that closes come to an end.

* `SocketScopes`: a dial tries one address after the other: protect under
  `SocketScope.mu`, authorize in the guard, connect. A scope is closed while dials
  are under way; retiring its filters is a transaction that may fail. `permits` is
  what the kernel lets pass, `attempts` what the guard has recorded.
* `WindowsEngine`: `startPlatformEngine` and `stopPlatformEngine` native call by
  native call. `wintun`, `settings`, `blocked` are the truth in Windows; `adapter`,
  `ownedDevice`, `ownedStack`, `stopPhases` the books. A phase runs in a goroutine
  that outlives its deadline.
* `PhysicalDns`: lookups and the ticker capture the network (bind sockets, replace
  the guard's DNS exceptions, install a resolver), ask the resolver that is
  installed then, and check the network and the revision afterwards. A caller
  records in `since` which networks, and in `seen` which resolvers, there were since
  it asked.
* `CapturedDns`: the lookup that such a resolver makes. A goroutine per family starts a
  query per server; a query exchanges messages (UDP, TCP after a truncated answer, the
  next name after an alias) and sends its reply; the family takes replies until one
  settles it, cancels and joins the others, and sends its own; the lookup takes both.
* `OutlineDevice`: accept, CONNECT and ASSOCIATE with their dials, the handoff of
  a pending socket and its abort, and Close with its snapshot, wait and late pass.
  Where DNS has to use TCP, the upstream of an association answers every query itself:
  `dns` is its pending answer and error, on which a writer and a reader wait.
  `handles` are open sockets, `connections` the tracked ones.
* `XrayDevice`: `instanceOwner`, the installed dialer, and dials, with the socket that
  checks the route of datagrams first, which may end at any time, after their device
  was closed too.
* `TrustTunnelDevice`: Open and Close around `lifecycleMu` and the channel of one
  place, the state callback and who waits for it. `EndpointForwarder`: the pair of
  listeners, one stream and one peer, and Close.
* `SourceStore`: AttachSourceStore loads outside of the lock while a Configure saves:
  temporary file, rename, chmod, commit; each may fail and the process may end
  between any two. `storable` is a history: what may be on the disk.
* `StatePublisher`: three selects on a channel of one place.

Properties. `GuardExact`: a closed scope has no permission in the kernel, and an
adapter that applications can reach exists only behind the guard.
`ClosedIsDrained`: a Close without an error leaves no worker and no open socket.
`HooksOwned`: one owner at a time for the process-wide hooks, until nothing of it is
left. `AnswersExact`: while a resolver is asked no other one comes in, its network was
there at some time since (not on Linux), a lookup fails only when no server makes it
succeed, and leaves no query behind. `SourceExact`: an accepted source is replaced by an
accepted one only, and the disk holds a whole URL that may be there. `ResolverFollows`: once
the network stays as it is, bindings and DNS exceptions on Windows become and
remain those of that network; and a lookup returns. `ClosesEnd`: repeated closes end once calls work.
`LatestTaken`: the last state change is never the one that is dropped.

## Runs

| Run | Shows | Bounds |
|---|---|---|
| `session_lifecycle` | the safety properties of Session; Stop is carried out, attempts settle | 2 goroutine slots, 1 configuring client, inventories of 2 and 1 profiles, 1 recovery, 4 generations |
| `session_restore` | clients that load, start and restore at once | 2 clients, two inventories that an index does not tell apart, 2 generations |
| `session_restart` | violated: see Findings | 1 client |
| `lifecycle_lease` | overlap, books, order of release, promise, returns | 2 attempts, 2 networks, 2 readiness attempts, health threshold 3 |
| `desktop_owner` | promise, books, order of release, returns | one owner, all three platforms, all failures |
| `desktop_retry` | violated: see Findings | the same |
| `mobile_owner` | promise, books, order of release; a cancellation returns; repeated Stops release | 2 networks, 2 shells, 2 descriptor numbers, 2 failing cleanup calls |
| `mobile_retry` | violated: see Findings | 1 network, 1 failing cleanup call |
| `flows_owner` | books and disjoint attempts, with failing closes and deadlines | 1 TCP, 1 UDP, 1 origin flow, 2 attempts |
| `flows_liveness` | Detach and Stop succeed | the same, no failures |
| `host_parts` | the ten parts of `Host`, each on its own | 2 attempts, 1 dialer, 1 host in 2 families; 2 networks, 1 switch, 2 lookups and the ticker; 2 name servers, 2 families, 1 alias; 1 Outline connection; 2 Xray devices and 2 dials; 2 TrustTunnel devices; 2 listener pairs; 2 URLs; 8 state changes |
| `linux_bootstrap` | violated: see Findings | 2 networks, 2 switches, 1 lookup |

Why the bounds are enough. Session: four generations hold a first candidate, a
fallback, a switch or recovery and a Stop against each; the code keeps at most
one older generation of each origin. Two slots are needed because `finish` hands
over to a second goroutine before the first one ends. One recovery reaches both
sides of the limit. TunnelFlows: flows share only the sets of the owner, so one
flow of each kind reaches every pair (flow, engine call); the flow can be used
again in the second attempt. The proofs remove these bounds. RuntimeLifecycle and
NativeMobile: two attempts or networks in turn are what an overlap, a stale
reservation or a late Connect needs, since a new one starts only after its
predecessor was released; two descriptor numbers let the system reuse one or not.
Host: a second generation shows whether a filter outlives its attempt, and the
same dialer can be late for the first while the second runs; two lookups and the
ticker are what it takes to replace a resolver that is in use by somebody else;
with two servers one can settle a family while the other is at any place;
the switch leads to the other network or to none, and every caller may have read
the network before it; two devices are a holder of the hooks and its
successor; a second Outline connection would share with the first only the sets
of the device. The code tries 16 listener pairs; 2 reach both sides of the limit.

Where deadlock is not checked, the system may rest: a session that has used up
`MaxGeneration`, an owner that was released, an engine that was stopped.

Fairness. Weak fairness of every goroutine that can go on (Go's scheduler), and
of native calls, which the code bounds with deadlines. Requests, failures and
cancellations are never fair. A TCP dial need only return once its context was
canceled (`DialEnds`): nothing else bounds it. NativeMobile assumes nothing of the start
of the engine, a native call without a deadline: `CancelReturns` holds although it
may hang; `RetriesRelease` assumes that it returns and that the manager repeats
its Stop. In `Host` nothing is expected of
peers or users: a read or a handshake is sure to return only once its socket was
closed. The callback of a mobile shell returns. The engine and the devices are stopped again
after an error, because the ledger of the session manager keeps them. The ticker
is fair: it ticks every two seconds and its calls have deadlines. So is a lookup: an
exchange has a timeout of its own; that of the caller's context is not relied on. In `flows_liveness`
closes succeed and no deadline passes; with `MayFail` Detach legitimately reports
an error.

## What is proved

Every invariant, step property and refinement that a passing run checks is also a
theorem, for every value of the constants: any number of goroutine slots,
clients, inventories, recoveries, generations, flows, attempts, networks, devices,
dials and failures. None of the properties is inductive by itself; what follows
is the strengthening that each proof needs, and why. TLC checked each
strengthening on the instance of the run before it was proved.

* **`SessionProofs`**: `Inv = TypeOK /\ SingleOwner /\ Ownership`, and from it
  `OneOwner`, `NoLeak`, `CleanupComplete`, `StopFinal`, `FailedBlocks`,
  `ProtectionHolds`. That a ledger is empty when Start replaces it depends on what
  every place of the worker owns (`AcquirePlaces`, `FinishPlaces`), on what is owned
  at rest (`AtRest`), and on there being one worker.
* **`SessionClientProofs`**: what clients see, from `Inv` and a second invariant
  `ClientInv`: `ConnectedHasItsResources`, `ConnectedIsSelected`, `StopReaches`,
  `MainButtonWorks`, `ReleasesInOrder`, `RestoresExactly`, `StartsOwnInventory`.
  `Place`: the worker of a connected session waits, a canceled one belongs to a
  session that stops. `SelectionInForce` and `Choice`: until cleanup is done the
  selection has a valid inventory and the worker attempts its target. `Plans`: a
  replacement waits only in a session that stops for it. `KnownReaches`: the
  generation a client knows is one of those that stay accepted when the next one
  begins, which is where the three origins of a generation are needed. `CallsKnow`:
  between Configure and Start a caller whose sequence is current has its own
  inventory loaded.
* **`TunnelFlowsProofs`**: `FlowInv`, and from it `NoFlowLeft`, `ExactBooks`,
  `AttemptsDisjoint`. Detach may succeed only because every dial in flight is
  pending (`FlowPlaces`), and nothing is admitted after the owner was sealed because
  the router was fenced before (`EnginePlaces`).
* **`RuntimeLifecycleProofs`**: `LeaseInv`, and from it `RuntimeKeepsItsBooks`,
  `MonitorEndsFirst` and the refinement `LeaseImplementsOwner`. Its clauses: only the
  lease of the last Start can be live; `mu` is held by a Start exactly while it is at
  a place; the undo list is determined by that place (`StartPlaces`); a lease
  that was returned has its callback; undoing begins only after the monitor has
  ended (`MonitorBooks`).
* **`NativeMobileProofs`**: `OwnerInv`, and from it `NothingIsUnowned`,
  `TunnelGoesLast` and the refinement `MobileImplementsOwner`. All earlier networks are
  gone; a Connect that works has its core on the undo list; a Connect that was left
  while it waits for the lock has been told to cancel, which is why it cannot start
  an engine after the release; an engine exists exactly when the runtime knows it;
  a number is reserved only for an owner whose list is not empty, so a new
  descriptor is never refused.
* **`NativeDesktopProofs`**: `OwnerInv`, and from it `NothingIsForgotten`,
  `UsersAreReleasedFirst` and the refinement `DesktopImplementsOwner`. `Books` relates
  leases, cleanup list and native resources on each platform, and each release
  keeps it. `StageOf` says what the run has after `n` acquisitions, so that
  *ready* means everything. The races are in the places: a result *ok* means that
  the run maintains the connection unless somebody canceled it; before PrepareNetwork
  returns, only the attempt's own cancellation or Connect's own failure cancels;
  the lock over Close is taken only when the run is over; PrepareNetwork and Stop
  are never in Disconnect together; IDLE after a run means that nothing is left.
  This model has no constants, so the run is exhaustive too.
* **`HostProofs`**, with the lemmas about devices in **`DeviceProofs`**: `HostInv`, one
  conjunct per part, and from it `ClosedScopesAndAdaptersAreGuarded`,
  `OneOwnerOfHooks`, `CloseDrainsDevices`, `LookupsAnswerForTheNetwork`,
  `SourceFollowsFile`. Scopes: a filter in the kernel is one the guard has recorded.
  Windows engine: an adapter that exists is owned, so the wait for its removal is a real
  one, and no close of an earlier device is still under way while an adapter is
  configured, because a Stop that succeeds forgot its phases. Resolver: while a
  lookup waits for its fence, the network there is now is one of those since it asked,
  and a lookup that is not outdated has seen one resolver only. Name servers: a family
  that collects has taken failures only; one that has sent has joined its queries, and
  what it sent is the answer of one of them unless all failed.
  Xray: a device's dialer is installed exactly between `Install` and `ResetDialer`, while the
  device holds the lock, and pending and open sockets belong to a dialer that was not
  retired. TrustTunnel: the native client
  runs only for whoever has the place in the channel. Outline and the
  forwarder: a socket is tracked or in the hands of a worker, a worker is
  supervised, and the last pass comes after they were joined. Source: what the file
  holds at each place of a Configure, and what an attachment has loaded meanwhile.

The assumptions are those that the models state: there is a slot; `None`, and the
names used for *nobody*, are outside of the sets they are compared with; an
inventory has a profile; sources are URLs or inline; the kinds of flows are
disjoint; bounds are natural numbers, the readiness attempts and the health
threshold positive. TLC evaluates them in the runs.

The proofs of an invariant have a lemma per action and, in it, a step per
conjunct; the theorem combines them. A refinement proof shows that each step that
changes what is held, and not the phase, happens in a phase of native work, and
then treats the few actions that change the phase.

Only model-checked: the liveness properties `AttemptsEnd`, `CallsReturn`,
`LeaseCallsReturn`, `CancelReturns`, `RetriesRelease`, `FlowsEnd`, `ResolverFollows`,
`ClosesEnd`, `LatestTaken` (fairness and ENABLED are out of the prover's reach), and
the four violations.

## Findings

* `session_restart`: `restore.go` says "A service restart honors the previous
  explicit Stop". A Stop of a session at rest disables the saved activation but
  appends no event, so a Restore that has read the activation before does not
  notice it and starts.
* `desktop_retry`: `lifecycle.go` says "Failed entries stay in place so a later
  Stop can retry this exact owner." If an attempt is canceled when the run
  goroutine has just ended, `stopAndWait` sets STOPPING with nobody left to reset
  it, and every later Stop of the owner is turned away as busy.
* `mobile_retry`: the same sentence. Once closing Go's copy of the tunnel
  descriptor has reported an error, the error is remembered and answered to every
  retry; if it came up in Disconnect, the platform is never asked to release the
  tunnel.

* `linux_bootstrap`: `filter_linux.go` says "UpdateBootstrap atomically replaces
  exceptions for the captured link's DNS". When the context ends after the rules
  were flushed to the kernel, `operation` reports an error and the identity is not
  recorded: the kernel has the exceptions of the new network, the guard the name
  of the old one. If the old network comes back, UpdateBootstrap finds its name
  and returns, and the exceptions stay those of the other network.

Observed while modelling, and part of the models as they are:

* On Linux an answer is not fenced against a change of the default link
  (`resolver_linux.go:46-86` compares the name servers of its own link only), which
  is why that part of `AnswersAreCurrent` leaves Linux out; Windows and mobile do
  fence. The revision is checked on all three.
* When the chmod at the end of Save fails, Configure is refused although the file
  holds its URL (`source_store.go:84-87`), and a restarted process will load it.
  `SourceExact` admits that URL.
* A source that is accepted before a mobile shell attaches its store is not saved
  by the attachment, only by the next Configure.

## Not modelled, and why

Time is not: a timer is a step that may come at any moment. Addresses, packets,
DNS records, texts and log lines are not, as no property is about them. A socket of Go
is closed when its Close returns, with an error or not; where the code keeps it after
an error, as the tracked connections of the devices, the models keep it too. ProtectSocket of the
session manager has no caller in the repository. Xray, go-socks5, the native
TrustTunnel client, Wintun and the kernels are external: they do whatever the code
has to reckon with. The Apple resolver and the JNI bridge are C and Java calls
with no state of the session. Front ends,
build scripts, logging and diagnostics have no part in the ownership of the
connection. `PROJECT.json` gives the reason part by part.

## Plan

1. Done: `Session`; `RuntimeOwner` and its implementations `RuntimeLifecycle`,
   `NativeDesktop` and `NativeMobile`; `TunnelFlows`; `Host` with its ten parts; the
   theorems above.
2. Theorems: safety facts behind the liveness properties, as far as they are
   invariants (nobody waits for a channel that nobody is left to close; an error
   that blocks a retry is one a retry can clear).
3. Composition: what Session assumes of `runtime.Start` and PrepareNetwork
   against `RuntimeOwner`; the scope and the device of an attempt with
   `RuntimeLifecycle`.
4. Routing: recovery of tagged Linux rules after a crash, repair of routes on macOS
   and Windows; the control plane.
5. Pure parts as operators against reference definitions: bypass policy,
   configuration.
