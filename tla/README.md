# Verification of otterscale-agent

TLA+ models of otterscale-agent, the TLC runs that check them on small
instances, and TLAPS proofs of the safety properties for every value of the
constants. `PROJECT.json` holds the machine-readable side: components, runs,
mutants, the map from definitions to source lines, findings, hazards, theorems.

## The system

A *server* gives users one ConnectRPC API for many Kubernetes clusters. An
*agent* in each cluster registers with the server (`Fleet.Register`: a CSR, a
signed certificate, a loopback address), opens a chisel reverse tunnel with it,
and forwards what arrives there to its own API server. A user's request is
resolved to the cluster's loopback address, sent through the tunnel and carried
out under the user's identity.

| Part | Source (below `src/internal`) | Modules |
|---|---|---|
| Tunnel provider: registration, addresses, health check | `providers/chisel` | `AddressAllocator`, `TunnelRegistry`, `ClusterDirectory` |
| Requests and the transport cache | `core/resource.go`, `providers/kubernetes` | `RequestRouting` (with `ClusterDirectory`) |
| Unary RPCs of the resource and runtime services | `handler`, `core`, `providers/kubernetes` | `ResourceCalls` |
| Watches and pod logs | the same, `core/watcher.go` | `EventStreams` |
| The object they act on; calls and streams together | external | `ClusterObject`; `ApiServer` |
| Error mapping, HTTP middleware | `handler/code.go`, `providers/kubernetes/errors.go`; `transport/http` | `ErrorMapping`, `ServerMiddleware` |
| Exec sessions and their terminal size queue | `core/session.go`, `core/runtime.go`, `handler/runtime.go`, `providers/kubernetes/runtime_repo.go` | `TerminalSizeQueue`, `ExecSession` |
| Port-forward sessions | the same | `PortForward` |
| Discovery and schema cache | `providers/cache` | `DiscoveryCache` |
| Tunnel client | `transport/tunnel/client.go`, `backoff.go` | `TunnelClient` |
| The agent's listeners: HTTP server, bridge, pipe, client | `transport`, `cmd/agent` | `AgentTransport` |
| The server's listeners | `transport`, `cmd/server`, `providers/chisel/tunnel_factory.go` | `ServerTransport` |
| The program from `main` to its exit, with its configuration | `config`, `src/cmd` | `Process` |
| CA store | `pki/provider.go` | `CAStore` |
| Certificates of the CA, the server and the agents | `pki/ca.go` | `Certificates` |
| Manifest tokens; manifests and registration requests | `core/manifest_token.go`; `core/fleet.go`, `handler/fleet.go` | `ManifestToken`; `FleetManifest` |
| What outlives a server process | `pki`, `providers/manifest` | `ServerIdentity` |
| Bootstrap; version check and self-update; both | `bootstrap`; `cmd/agent` | `Bootstrap`; `SelfUpdate`; `AgentLife` |

`GoMaps` has the operations of Go maps that the modules share, `WallClock` the
clock of tokens and certificates. A module `MCx`
instantiates module `x`; its `.cfg` files give the constants their values. A
module whose name ends in `Proofs` has theorems (see Proofs). An operator marked
`(mutation)` is a faulty variant of the definition that follows it. It is not
part of the specification: TLC must find the property violated when it takes
that definition's place.

## How the modules correspond to the code

One action stands for what the code does between two points at which another
goroutine, process or machine can act: a section under a mutex, a channel
operation, a system call, an API call. Program counters are named after the
place in the code. Variables marked *history* record what properties talk
about and influence no step. Cryptography is ideal: a password, a signature or
a certificate is identified with the registration or key that it comes from.

* `AddressAllocator` is `allocate` as operators, with its `uint32` arithmetic
  (`UintMod` is 2^32 in the code). `TunnelRegistry` adds `RegisterCluster` (the
  signing before the lock, the locked section and its error paths),
  `DeregisterCluster`, the health-check loop with its snapshot, probes, failure
  counts and final comparison of hosts, and chisel's users and sessions.
* `ClusterDirectory` is the abstract promise: names to unique addresses.
  `TunnelRegistry` implements it (refinement: `ResolveAddress`'s answers), and
  `RequestRouting` is composed with it instead of with the registry.
* `RequestRouting` is a request as its sequence of calls of the repositories,
  each of which resolves the address once, then takes a transport under another
  lock and builds a client; all API requests that the client sends (`UpdateScale`
  and discovery send several) go to the address it was built with. Every
  transport that `rest.TransportFor` returns is taken to be a new one, as the
  code around it does.
* `ResourceCalls` is a unary RPC from the middleware to its answer: the lookup
  of its resource, the impersonating client, the manifest, one or two calls to
  the API server, the conversion of the result, and the error that each of them
  may end with, mapped to a Connect code by `ErrorMapping`. A call that changes
  the cluster may be carried out although its answer is lost, and client-go sends
  it again when the answer is a 5xx with a Retry-After header. `EventStreams` has
  `Watch` (client-go, the relay of `watcherAdapter` and the handler, over two
  unbuffered channels) and `PodLog`. `ApiServer` lets unary calls or one stream
  (`kind`, chosen in `Init`) act on the history of one object that other clients
  write; what other calls do to the object is among these writes.
* `ExecSession` has the store, `StartExec`, the two output readers and their
  channel, the handler's loop, `WriteTTY`, `ResizeTTY`, cleanup and the reaper.
  `TerminalSizeQueue` is its queue of sizes: `Set` and `Close` under the mutex,
  `Next` without it. `Others` stands for other sessions, of which only the slot
  in the store matters. `PortForward` has the same parts for forwards, with the
  stream's copy goroutines.
* `DiscoveryCache` has lookups, the shared fetch of `singleflight` with its two
  HTTP requests, each bounded by `clientTimeout`, expiry, the size limit and the evictor. Time is kept as the ages of
  entries, so it is not bounded.
* `TunnelClient` is the loop of `Start` with every step of `dial`, and `Stop`
  from another goroutine. A directory whose removal fails stays (`stuck`).
* `Process` is one run of the program: `main`, the options, each given or not,
  the constructors, and then the agent or the server. `AgentTransport` is `transport.Serve` with the
  agent's three listeners (HTTP server, bridge with its relays, client);
  `ServerTransport` is `Server.Run` with its five, the certificate files of the
  tunnel listener and the connections of API clients.
* `CAStore` is `ProvideCA` with every file operation. Processes crash between
  any two of them; the loss of written data with the power is not modelled.
* `ManifestToken` is `Issue` and `verifyDetailed` on a clock that is finer than
  the tokens' seconds and is corrected now and then. `FleetManifest` adds
  `GetAgentManifest`, the raw endpoint behind the middleware, and the checks of a
  registration request; a manifest is the set of the objects it installs.
  `Certificates` has issuers and periods of validity, which X.509 keeps in whole
  seconds, of the CA's own certificate, the server's and the agents'.
  `ServerIdentity` composes
  them with `CAStore`: the HMAC key and the certificates of a process come from
  the CA that it has loaded, so a token or an agent from before a crash meets the
  process that was started after it.
* `Bootstrap` is `Run` over files and phases, if the option is on; an error or crash restarts it on
  the cluster it has left. A REST mapper reads discovery once, when first used,
  and the API server publishes an established CRD some time later. `SelfUpdate`
  is the version check after registration and the patch of the Deployment, with
  the server replaced meanwhile and with the old and the new pod side by side.
  `AgentLife` runs the first before the second: only an agent whose bootstrap
  has completed registers.

## Runs

| Run | Result | Properties | What it shows |
|---|---|---|---|
| `registry` | passes | `HostsAccounted`, `NoStaleUsers`, `NeverAnonymous`, `CredentialsMatch`, `DeadClusterRemoved` | Two clusters, three agents and two concurrent Register calls against the health-check loop and chisel sessions: allocator, registry and chisel users stay consistent on every path, failures included, and a cluster on whose address nothing listens is deregistered in the end. |
| `registry_exhausted` | passes | `NotLostOnReRegister`, `ImplementsDirectory` | Two clusters compete for a single address: an exhausted pool never loses a cluster that re-registers, and seen through ResolveAddress the provider implements the abstract directory of unique addresses. |
| `registry_round` | violation | `ReRegistrationSurvivesRound` | A registration made while a health-check round is under way is removed by that round: the cluster gets its old address back, so the comparison of hosts cannot see it. |
| `exec` | passes | `ClosedOnce`, `SlotsOwned`, `OutputDelivered`, `LastSizeApplied`, `DisconnectFreesSlot`, `NothingLeaks` | An exec session and another that may take the only slot, a one-slot output channel, a WriteTTY or ResizeTTY call, disconnects, failed sends and the reaper: resources are closed once, the slot is never orphaned, output arrives complete and in order, the last terminal size is the one applied, and every goroutine ends. |
| `forward` | passes | `HelpersEndFirst`, `CleanupEndsForward` | A port-forward session with two chunks from the pod, two WritePortForward calls, kubelet errors, disconnects and the reaper: its goroutines are joined before the pipes are closed, and cleanup ends it unless copyOut waits for a handler that left. |
| `client` | passes | `DirsOwned`, `SessionsClosed`, `DialsBackOff`, `CancelEndsStart`, `KeepsTrying` | The reconnect loop with up to four certificate directories, failures at every step of dial (removing the old directory included) and of the session, and Stop at any time after the context is cancelled: directories and chisel clients have an owner, the loop never stops trying, and cancelling ends it wherever it is. |
| `process` | passes | `NothingLeft`, `ServesReady`, `Exits` | The program from main to its exit, as agent (two connections through bridge, pipe and HTTP server) or as server (five listeners, two clients), with every configuration, failures at every step of the start, failing listeners and a signal at any time: it serves only when it is configured and ready, exits when told, and leaves nothing behind. |
| `identity` | passes | `CAStays`, `TokensSurviveRestarts`, `AgentsReconnect`, `Recovers` | Crashes, failing system calls and failing reads at every point of three starts, under a clock that is set: the CA is kept and the directory stays usable, the URL of a manifest serves what its user was shown for its TTL and less than a second more, and an agent connects to whichever process serves as long as its certificate, the server's and the CA's are in force, to the second. |
| `cache` | passes | `Fresh`, `CallsReturn`, `ExpiredLeave` | Two callers and two keys on a cache with one entry, with fetches of two HTTP requests that fail, time out or answer late: results are fresh, calls return although the API server may never answer, and expired entries leave. |
| `routing` | passes | `SentToCluster`, `ForgottenAreClosed` | Two concurrent requests of up to three repository calls, each with any number of API requests, to two clusters that exchange two addresses: every API request goes to an address that the cluster has had since its repository call began, and replaced transports are closed. |
| `agent` | passes | `ServesComplete`, `Completes`, `Converges` | An agent from installation on, with its bootstrap enabled or not: two manifest files with three CRDs, failures or crashes at any point of the bootstrap, then three releases, a development build, two changes of the server, a failing patch or a crash, and overlapping pods. Only a complete cluster is served, bootstrap completes whatever failed attempts left behind, and agents converge to the release of a stable server. |
| `api` | passes | `ToldWhatHappened`, `EventsInOrder`, `EndsHonestly`, `NoLostUpdate`, `StreamsEnd` | One call or stream of each kind against an object that another client writes, with refused, failed and lost answers, writes that client-go sends again, timeouts and disconnects: answers tell what happened to the object, scaling never overwrites a change it has not seen, watches and logs arrive in order and say honestly why they end, and every stream ends. |

A run marked *violation* checks one statement of a comment or doc that the code
does not keep; the findings in `PROJECT.json` quote it. The others pass.

Every state machine has a type invariant `TypeOK`. It records the shapes of the
variables, and no run lists it; those of `TunnelRegistry` and `DiscoveryCache`,
which also bound the failure counts and the cache, are proved (`TypeCorrect`,
`CacheAlwaysBounded`).

### Where code and comments disagree

`registry_round`: `health.go` compares hosts before it deregisters a cluster,
and its comment says that a concurrent re-registration would have got a new
host. `RegisterCluster` releases the old host before it allocates, so the
cluster normally gets the same one, and the round removes the new registration.

More were met and have no run of their own:

* `transport.go:40-44` says that `Serve` "avoids calling Stop before Start has
  had a chance to run". Nothing orders the two: in `Process` a listener may be
  stopped before its `Start`. A signal during the start then makes the program
  exit with an error instead of cleanly; that it exits, and leaves nothing
  behind, is checked.
* `config.go:20-22` puts the file before the environment; viper looks at the
  environment first. The model has an option given or not, from any source.
* `discovery_cache.go:52-55` calls `singleflightFetchTimeout` (30 seconds) "the
  maximum time a cache-miss fetch is allowed to run". The discovery client takes
  no context, so the deadline reaches no HTTP request. A fetch makes two, each
  with the 30 seconds of `clientTimeout`.
* `core/runtime.go:350-351` says that `Scale` "returns the new value". The API
  server leaves a count of zero out of a Scale, and `UpdateScale` takes a missing
  field for an error (`runtime_repo.go:178`): scaling to zero is carried out and
  answered with `Internal` (`ReadBack` in `ResourceCalls`).
* `core/watcher.go:33` says that `Stop` "terminates the watch and closes the
  result channel". `Stop` only stops client-go's watch; a relay that is blocked
  in its send (`resource_repo.go:258`) never gets to the `close`.

### What the properties leave room for

The passing properties are stated for what the code does keep. Their limits are
visible in the statement or in the hazard of `PROJECT.json` that names it, and
no run checks the stronger statement:

* `CredentialsMatch` is checked on instances and proved under the premise that
  agent IDs are unique among clusters. chisel's users are keyed by agent ID.
* `CleanupEndsForward` excepts a `copyOut` that is blocked on a pipe whose reader
  has left, and says nothing of the time before cleanup: an idle forward whose
  client disconnects stays until the pod sends or closes.
* `NothingLeaks` excepts a `Set` that waits with the mutex held for a size that
  `Next` has just taken (`session.go:72`). When the command has ended, nobody
  provides one.
* `StreamsEnd` is about the handler of a stream. The relay of a watch may stay
  blocked on its channel after the handler has left.
* `Fresh` allows the TTL and the timeout of one request, since the schema may
  be produced at the beginning of the second request and arrive at its end.
  `CallsReturn` has no bound of its own: two requests may take two timeouts.
* `SentToCluster` is about the address of a repository call, which all its API
  requests share. A cluster that moves between the GET and the PUT of
  `UpdateScale` gets the PUT at its old address.
* `DirsOwned` allows one certificate directory to stay after `Stop`, the one
  that `Client.certDir` names, and those that could not be removed.
* `DialsBackOff` is about registrations. A registration resets the backoff, so
  sessions that fail to start are retried without growing delays.
* `NothingLeft` is about the exit of the program; a relay can still begin after
  the bridge's `Stop` has returned, and `Start` waits for it. The contexts of
  requests and of the tunnel are cancelled at once, so the grace period of the
  HTTP server's shutdown does not let requests finish. The server's
  `os.RemoveAll` of its certificate directory is taken to succeed.
* `CAStays`, `Recovers`, `TokensSurviveRestarts` and `AgentsReconnect` except
  starts after a read of an existing file failed (history variable `misread`):
  the code then takes the CA for missing and creates a new one.
* `AgentsReconnect` asks that the certificates of the agent, the process and the
  CA are in force. `LoadCA` does not look at the CA's period: ten years after its
  making, or while the clock is more than five minutes before it, the server
  starts and no agent can connect, whatever certificates are newly made. The
  last second of a validity is excepted too, since X.509 drops its fraction.
* `Converges` does not say that agents only move to newer releases: they follow
  the server, also back. A manifest is its set of objects; after an upgrade of
  the server the same URL installs the image of the new release.
* `EventsInOrder` excepts events whose object protobuf cannot represent; the
  handler skips them. On clusters with WatchList (1.34 and later) a watch with a
  resource version still begins with the current state.
* `ToldWhatHappened` lets a call fail with an ambiguous code (`Internal`,
  `Unavailable`, `DeadlineExceeded`) although it was carried out, and a refusal
  is true of the request that it answers: a write that client-go has sent again
  may be told `AlreadyExists`, `NotFound` or `FailedPrecondition` because the
  first one was carried out (`Retry`, `RetryScale`).
* `ServesComplete` is about agents with the bootstrap enabled.

## Bounds

The bounds are constants, named as such in the modules.

* *registry:* two clusters, three agents (two of one cluster, as in a rollout),
  two concurrent calls, up to four registrations, eight addresses or one. Both
  names hash to the last index: probing, its wrap-around and reuse happen. Two
  registrations and a health check are what every interleaving of the registry
  with itself needs, and the safety results are proved without bounds.
* *exec:* one slot, one session in full detail and another that may hold the
  slot; two chunks and a channel for one, so that readers block, are overtaken
  and drain; one `WriteTTY` or `ResizeTTY` call besides the first size, and a
  queue for one size, so that it is full. *forward:* two writers, two chunks.
* *client:* four attempts, which take the delay to its maximum. *identity:* three
  starts with up to two faults, so that one start is left when the faults are
  over; seconds of two ticks, a TTL and a skew of one second; certificates valid
  for three, four and five ticks on a clock of six, so that each expires, some in
  the middle of a second; a user with and one without a subject, a valid and an
  invalid cluster name. What more starts and faults could do is proved.
* *agent:* two files with three CRDs, two failures of the bootstrap, three
  releases and a development build, two changes of the server, one fault of a
  patch. These bound the faults of the environment; the code's loops are not
  bounded.
* *cache:* more keys than entries, so that the limit evicts; time is unbounded.
* *process:* two connections on either side: relays and requests interact only
  through the pipe's hand-off, the wait group and the stopping goroutine.
* *routing:* two clusters that exchange two addresses, two requests of up to
  three repository calls, two transports. Names, addresses and requests are symmetric.
* *api:* an object of three versions with replica counts zero and one (a change
  before and one after what a call does), a log of three chunks.

Deadlock is not checked where the bounds or the end of a session, of the program
or of a stream let the model stop; that nothing waits for ever is stated by the
liveness properties. It is checked in `cache` and `routing`, which never stop.

## Fairness

All fairness is weak fairness of the system's own goroutines, with the
exceptions below; clients, users, failures, crashes and disconnects have none.

* `TunnelRegistry`: the health-check loop, whose ticker keeps firing.
* `ExecSession`, `PortForward`: handler, readers, copy goroutines, the loop over
  terminal sizes, calls that do not wait for the command, and the reaper; the
  remote command only ends by itself once its context is cancelled, as
  client-go's `StreamWithContext` does. In `ExecSession` the goroutines of a
  session share one condition (`SystemStep`), which is less than the scheduler
  gives: some goroutine that can run does.
* `DiscoveryCache`: callers, fetches (whose requests have a timeout), evictor,
  time.
* `TunnelClient`: the loop and `Stop`, and registration, whose HTTP client has a
  timeout; a session ends once its context is done.
* `Process`: `main`, each listener's goroutines and the stopping goroutine.
  Connections through the tunnel are dropped once the client is gone, and
  requests end when their context does.
* `EventStreams`: relay and handler, whose sends to the client return, and
  client-go, which ends a request whose context is done or whose watch is
  stopped.
* `ServerIdentity`: the process runs and is started again.
* `AgentLife`: the bootstrap, the agents and the Deployment's controller; the API
  server establishes and publishes the CRDs it has accepted. `Converges` has a
  premise of its own: that some agent registers again infinitely often. It is
  needed. Without it TLC finds a server that is upgraded and rolled back while a
  pod that is being replaced still holds the reply of the first; its late patch
  undoes its successor's, and versions are compared at registration only.

## Proofs

TLAPS proves every safety property that a run checks, and the refinement, for
every value of the constants that satisfies the assumptions named in the modules
(`AllocatorAssumption`, `RegistryAssumption`, `RoutingAssumption`,
`CacheAssumption`, `PortForwardAssumption`, `CAStoreAssumption`,
`ClockAssumption`, `TokenAssumption`, `FleetAssumption`, `CertAssumption`, `ClientAssumption`,
`BootstrapAssumption`, `UpdateAssumption`, `SizeAssumption`, `ExecAssumption`,
`ObjectAssumption`, `StreamAssumption`). They say that counts are natural
numbers, that sets which must differ do, and that a custom resource is in the
file of its CRD or a later one; none bounds a set. Each proof has
one lemma per invariant or action and one step per action or conjunct.

* `TunnelRegistryProofs`:
  * of `AddressAllocator`: `hostFromIndex` maps indices into the pool and onto
    it (`HostFromIndexType`, `HostFromIndexOnto`); a successful `allocate`
    returns an unused address of the pool (`AllocateFresh`); if the probes of a
    name do not wrap, they reach every index, so exhaustion means that the pool
    is full (`NoWrapExhaustsPool`).
  * `TypeCorrect`, from `TypeOK /\ HealthInv`. `HealthInv` says that a count
    reaches the threshold only for the cluster about to be deregistered; without
    it the bound on the counts is not inductive.
  * `HostsAlwaysAccounted`, from `HostInv == HostsAccounted /\ OnProbeSequence`.
    Each cluster's address lies on the probe sequence of its name; this is what
    makes `NeverLostOnReRegister` provable, since the address that a
    re-registration has just released is one that it probes.
  * `UsersNeverStale` and `AlwaysAuthenticated`, from `UserInv`.
  * `CredentialsAlwaysMatch`, from `CredentialInv == FromDeployed /\
    CredentialsMatch`, under the premise `UniqueAgentIDs`: registrations
    of two clusters by agents of one ID write the same chisel user.
  * `RegistryImplementsDirectory`: initial states and steps of the registry map
    to those of `ClusterDirectory`.
* `ControlPlaneProofs`, of `RequestRouting`, `PortForward` and `DiscoveryCache`:
  * `AlwaysSentToCluster`, from `RoutingInv`, which says before the address is
    resolved that the directory's answer is among the addresses the cluster has
    had; `ForgottenAlwaysClosed`, from `TransportInv`, which numbers transports
    in the order of their creation.
  * `HelpersAlwaysEndFirst`, from `HelpersInv`: which of the copy goroutines can
    be running at each point of `PortForward`.
  * `AlwaysFresh` and `CacheAlwaysBounded`, from `CacheInv`. An entry's age and
    the time it has left add up to no more than TTL and timeout; the same holds
    for the second request of a fetch, whose result ages while it is under way.
* `AgentProofs`, of `TunnelClient` and `AgentLife`:
  * `DirsAlwaysOwned` and `SessionsAlwaysClosed`, from `ClientInv`. Its part
    `DirsInv` says that the directory dial swaps in is newer than the one it
    removes, and that `Client.certDir` names the one in use until `Stop` runs.
  * `AlwaysBacksOff`, an action property, from `BackoffInv`, which relates the
    delay that comes next to the one slept last. It mentions no powers of two:
    a delay is compared with the one before.
  * `AlwaysServesComplete`, from `LifeInv`: the objects before the current one,
    in the current phase and in earlier files, have been applied, and pods wait
    for the bootstrap. Nothing that was applied is deleted by a failed attempt.
* `ServerIdentityProofs`: `CAAlwaysStays`, from `CAInv`: a CA is generated only
  when none was served (or a read failed), and what was served is on disk.
  `AgentsAlwaysReconnect` and `TokensAlwaysSurvive`, from `IdentityInv`:
  certificates and tokens say which CA and which time made them, and `RootsInv`:
  every CA that a process has or an agent was given keeps the certificate it was
  made with. The limits of the TTL and of the validities rest on lemmas on truncated division (`UnixBounds`, `UnixAdd`,
  `UnixOrder`, `EncodedBounds`), for every number of ticks per second.
* `ExecSessionProofs`: `AlwaysClosedOnce` and `SlotsAlwaysOwned`, from
  `OwnerInv /\ StoreInv`: a session is in the store, with the reaper, or closed,
  and never two of them. `LastSizeAlwaysApplied`, from `SizesInv`: the newest
  size in the queue is the last one set, for every capacity and any number of
  `ResizeTTY` calls.
* `ExecOutputProofs`: `OutputAlwaysDelivered`, from `OutputInv`. Chunks are
  numbered within their stream; the client has those up to some m, the channel
  those after m up to some n, and after n come the one its reader holds and the
  one in the pipe (`Flow`, `Pending`). That a sequence carries just the chunks
  after m up to n, in order, is stated without a filter (`Carries`), so adding
  one at the end and taking one from the front need no induction.
* `ApiServerProofs`: `AlwaysToldWhatHappened`, from `CallInv` (nothing is written
  before the call that writes; what is converted was written if it is to be) and
  lemmas on the two tables of error codes; `NeverLostUpdate`, an action property,
  from the same invariant. `AlwaysEventsInOrder` and `AlwaysEndsHonestly`, from
  `StreamInv`: until a stream is cut, what was sent, what handler and relay hold
  and what the API server offers make up, in this order and without what cannot
  be represented, what is due (`Pipe`, `Complete`).
* `ProcessProofs`: `AlwaysNothingLeft` and `AlwaysServesReady`, from
  `ProcessInv`. On the agent's side (`AgentInv`) an open connection has a relay
  or is in the accept loop's hand, and the wait group is the number of relays;
  once `Start` has returned and `Stop` has waited there is none. This holds
  although `Stop` may have waited before the last relay was added, for then
  `Start` waits as well. On the server's side (`ServerInv`) the certificate
  directory is followed from its creation to either way out of `Server.Run`.

Only model-checked is all liveness (`DeadClusterRemoved`, `DisconnectFreesSlot`,
`NothingLeaks`, `CleanupEndsForward`, `CancelEndsStart`, `KeepsTrying`, `Exits`,
`Recovers`, `CallsReturn`, `ExpiredLeave`, `Completes`, `Converges`,
`StreamsEnd`): fairness and ENABLED are out of the prover's reach. So are
`RECURSIVE` definitions and induction over data; no theorem needs them.

## Not modelled

* `api`: message definitions, and accessors and stubs generated from them. They
  are about half of the lines under `src` and have no behaviour of their own.
* The text of manifests and YAML, the image and the sanitising of names (two
  user names may be sanitised to one name of a ClusterRoleBinding), request and
  log options, `cleanObject`, messages of errors.
* PEM, templates and key usages of certificates.
* `ListClusters`, a read of the registry, and `GetScale`, which no handler calls.
* The search for a resource in discovery's answer, the reverse proxy of
  apimachinery, metrics, health and reflection endpoints, and wire's provider
  sets. They keep no state between requests.
* If building the tunnel listener fails, the HTTP listener that was built before
  it is not closed; the program exits, and the model ends with it.
* A pod of an older release that restarts during a rollout applies its older
  manifests again; in `AgentLife` only the first pod's bootstrap is in detail.
* Some hazards in `PROJECT.json` have no property. For the wrap of `uint32`
  probes the theorem `NoWrapExhaustsPool` states what holds. The others are
  behaviours of the code that the models have and no property forbids, as the
  hazards' notes and the list above say: equal agent IDs, the circular wait of an
  idle port-forward, a `Set` that waits with its mutex held, sessions retried
  without growing delays, a blocked relay, and a CA replaced after a failed read.

## Plan

1. *Fleet*: compose registry, client and self-update, so that retried
   registrations, sessions that outlive their user and two pods of one cluster
   meet the health check. Property: a cluster with a live agent becomes
   reachable again.
2. *Abstract session*: a specification of what the session store promises, which
   `ExecSession` and `PortForward` implement.
3. *Proofs*: type correctness of the modules whose type invariant is only part
   of another one, and the steps of liveness arguments that are not temporal
   (what each fair action makes progress on).
