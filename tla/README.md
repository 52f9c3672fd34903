# A TLA+ model of reglet-hostlib

reglet-hostlib is the host side of a plugin system: WebAssembly plugins run in
wazero and reach the outside world only through host functions. The library
decides what a plugin may do (grants, the gatekeeper that asks for them, the
policy engine that enforces them), carries out what it is allowed to do
(network, SMTP, commands), and fetches, caches and locks the plugins.

This directory holds TLA+ modules translated from that code, TLC configurations
that check them on small instances, and TLAPS proofs of every safety property
that the passing runs check, for all values of the constants. `PROJECT.json`
lists the components, the runs, the definition-to-source map, the hazards and the
theorems.

    tlc -config MCGatekeeper.cfg MCGatekeeper      # a run
    tlapm Capability_proofs.tla                    # the proofs of a module

## 1. The system

| Component | State it keeps | Operations | Hard because |
|---|---|---|---|
| Gatekeeper, grant store (`capability/`) | the grants file; per call: loaded grants, what is missing, new grants, one save flag | `GrantCapabilities`, `Load`, `Save` | several processes rewrite one file without a lock; `os.WriteFile` truncates first; a refusal comes after grants |
| Netfilter (`netutil/netfilter.go`) | none | `ValidateAddress` | many checks in an order in which each may decide; host spellings that parse as something else |
| Secure dialer (`netutil/secure_dialer.go`) | DNS cache behind a mutex | `DialContext` | lookups overlap between miss and store; DNS answers differ; entries expire |
| tcp_connect, smtp_connect, ssrf_check (`tcp.go`, `smtp.go`, `bundle.go`) | none | `PerformTCPConnect`, `PerformSMTPConnect` | check and dial are two moments; silent peers; waits without a deadline |
| http_request (`http.go`, `netutil/limitreader.go`) | a dialer and a connection pool per request | `PerformHTTPRequest`, `LimitedReader.Read` | redirects dial again while older dials go on; one deadline over everything; the body limit at its edge |
| dns_lookup (`dns.go`) | none | `PerformDNSLookup` | which server is asked, which records are kept, silent servers |
| Retry transport (`netutil/retry.go`) | none; the dialer below it | `RoundTrip` | consumed bodies; responses left open; arithmetic of the backoff; sleeps that ignore the context |
| Plugin service, resolvers, repository (`plugin/`) | a cache directory: three files per plugin reference | `LoadPlugin`, `Pull`, `Find`, `Store`, `Delete` | three files written one after the other; overlapping misses; tags that move |
| Lockfile (`plugin/lockfile_service.go` and below) | one YAML file | `ResolvePlugins`, `LockProfile`, `GetLockedProfile` | load, change, save without a lock; truncation; repeated declarations |
| Host function calls (`wazero/adapter.go`, `registry.go`, `middleware.go`, `capability_checker.go`, `handler.go`, `context.go`) | the map of registered grants | `HandleRegistryCall`, `Invoke`, `RegisterGrants` | order of the middleware; context values hide each other; an unlocked map; payloads decoded twice as different types |
| Policy engine (`policy/`) | compiled grants, by pointer | five `Evaluate...`, five `Check...` | racing compilations; grant sets changed in place; port texts |
| Command execution (`exec*.go`, `bounded_buffer.go`) | a buffer per call | `PerformExecCommand`, `SanitizeEnv`, `Write` | deadline, cancellation, exit and end of output in any order; descendants that hold the pipes; limits; a nil environment means the host's |
| Executor and loader (`host/`) | the runtime's modules | `LoadPlugin`, `Manifest`, `Schema`, `Check`, `Close` | partial initialisation; guests that trap, exit or are closed; guests call back into the host; panics outside the chain |
| Versions, references, manifests, templates, extraction, parsers, schema registry | none or a plain map | conversions | not concurrent |

How they meet. A guest's call enters through the wazero adapter into the
registry; the middleware chain consults the capability checker, which asks the
policy engine about the grants registered for the plugin, and puts
`ssrf_allow_private` into the context; the network functions read it there and
configure the netfilter or the secure dialer with it. The grants come from the
gatekeeper. Plugins come from the plugin service, with the digest the lockfile
pins, and the executor instantiates them; the guest code it runs is what makes
the host function calls.

What makes each part correct:

- gatekeeper: nothing is stored that nobody approved; nothing half decided is
  stored; a successful call returns what was required; the strict level holds;
- dialer, connections: no forbidden address is reached, whatever DNS says and
  when; a pin holds; no call hangs that has a timeout;
- http_request: all hops of a request reach a host at one address; a body is
  whole or said to be cut; the request returns;
- retries: waits are what the fields say; bodies are sent whole; only the
  response that is returned is open; a request whose context has ended returns;
- dns_lookup, exec_command: a lookup ends; output is whole or flagged; nothing of
  the host's environment is inherited; the report says how the command ended;
- plugin cache: the digest vouches for the binary; an entry is filled while empty
  and kept until it is deleted; a locked load returns the locked bytes;
- lockfile: satisfied locks are kept, declared plugins locked, saves read back;
- host calls and executor: no standard handler without a grant, unless its payload
  was one the check could not decode; recovery recovers; what a failed load leaves
  open in the runtime;
- policy: a decision is what the rules, as written, permit.

## 2. Modules

| Module | Models | Extends / uses |
|---|---|---|
| `Gatekeeper` | `GrantCapabilities` and the file store | |
| `Netfilter` | the filter's configuration, the judgement of an address | |
| `AddressFilter` | `ValidateAddress` around it | `Netfilter` |
| `SecureDialer` | `DialContext` and its cache | `Netfilter` |
| `Http` | http_request and its body reader | `SecureDialer` |
| `Retry` | the retry transport | `SecureDialer` |
| `Connect` | tcp_connect, smtp_connect, ssrf_check | `AddressFilter` |
| `Dns` | dns_lookup | |
| `Exec` | exec_command, environment filter, bounded buffer | |
| `HostFunctions` | the host functions beside http_request | `Connect`, `Dns`, `Exec` |
| `PluginCache` | `LoadPlugin`, `Pull`, `Delete`, resolvers, repository | implements `WriteOnceSlot` |
| `WriteOnceSlot` | what a cache entry promises | |
| `Lockfile` | the lockfile service over its file | |
| `HostCall` | adapter, registry, middleware, JSON handler | |
| `Executor` | `host.Executor` and the guests that make host calls | `HostCall` |
| `Policy` | compilation, cache and evaluation | |
| `Capability_proofs` | theorems about what grants and decides capabilities | `Gatekeeper`, `Policy`, `TLAPS` |
| other `*_proofs` | theorems about the module they are named after and those it composes | the module, `TLAPS`; `Http_proofs` and `Retry_proofs` build on `SecureDialer_proofs` |
| `MC*` | constants for TLC | the module |

**Gatekeeper.** `Proc` are callers that share only the grants file. `LoadGrants`
reads it, `StartPrompts` clones it, `GrantOne` and `RefuseOne` are one turn of
the prompt loops (network, then files, environment, commands; `Evaluate` is the
security level), and a save is a truncation followed by a write, which may stop
in between or leave a torn file, also when two writers overlap. A torn file loads
as anything, since a cut path is another path. `approved`, `always`, `saved`,
`wasTorn` and `disturbed` are history variables; `disturbed` is set as soon as
calls get into each other's way or a save is cut short. The type invariant says,
beside the types, that what a call still has to ask about was required and was not
among the grants it loaded.

**SecureDialer.** Goroutines look in the cache (`CacheHit`, `CacheMiss`), look up,
validate, store and dial in separate steps; `Tick` is the clock. Every DNS answer
is possible at every lookup.

**Http.** One request, because `createHTTPClient` makes a client, a pool and a
dialer for each. `via` is the list net/http passes to `CheckRedirect`. A hop
starts a dial, a `Thread` of `SecureDialer`, or takes a connection of the pool; a
dial that a hop no longer needs goes on, and its connection may serve a later
hop (`DialConnects`, `TakeIdle`). The body is read in chunks of any size, with or
without `io.EOF` on the last, so that the probe of `LimitedReader` at the limit
happens in all its forms. `ErrorCode` is `handleHTTPError`: the first text that
matches wins, and the URL is part of the text.

**Retry.** RoundTrips over a base transport that dials with `SecureDialer`, beside
goroutines that dial for others. `calculateBackoff` computes in a Duration of
`Width` bits, wrapping as two's complement does; configured backoffs are
Durations that are not negative. A body is absent, replayable (`GetBody`) or readable once; `whole`
says what the latest attempt offered. `Wake` does not look at the context.

**Dns, Exec, HostFunctions.** In `Dns` the resolver may settle an address or a
canonical name by itself (a literal, the hosts file), and otherwise needs a server
that can be dialled. `Exec` runs the command, its descendants, the watcher that
kills it, the copying goroutines and the call side by side. An environment is nil or
a set of entries; `SanitizeEnv` folds the key of an entry to capitals and then looks
it up among the blocked and the gated ones, `CmdEnv` is what is assigned to
`cmd.Env`, and `Environ` is what os/exec makes of a nil one. Strings are opaque:
what key an entry has, its capitals and which keys begin with the linker's prefixes
are constants. The records of an answer and the entries of an
environment are sets, because the code treats each of them alone and no property
is about their order. The three modules share no state, so
`HostFunctions` runs one of them per behaviour and states together which calls
return.

**AddressFilter, Connect.** A host is abstracted to the form in which it is
spelled, because that decides how the text `host:port` parses. A bare IPv6
literal swallows its port as a last group and becomes another address; an
address resolved to IPv6 is joined to its port without brackets and cannot be
dialled (`Targets`). One request runs at a time, since requests share nothing;
DNS and the peer are the environment. Waits are split into those the code bounds
by a timer or a deadline (`Bounded`) and those it does not (`Unbounded`). The
caller's own deadline is not kept: `ErrorCodes` lets it have passed at any error,
which tcp_connect then calls a timeout. The digits of a port are not modelled, so
neither is their overflow in `parseAddress`.

**PluginCache.** The state is one entry of the cache: `plugin.wasm`,
`metadata.json`, `digest.txt`. Every system call of `Find` and `Store` is a step,
and `os.RemoveAll` of `Delete` removes the files one by one in any order;
processes die, writes fail, reads fail and the tag moves if `Faults` says so.
`WriteOnceSlot` is the promise: a slot that is filled only while it is empty and
then keeps its value until a Delete is under way (`clearing`), void once fills have
overlapped or a Delete has met another call or left a digest alone (`raced`).
`FilledOnce` is the refinement; the slot holds `plugin.wasm` when the three files are
such that `Find` accepts the entry, so that a Store over a good entry is no step of
the slot.

**Lockfile.** Calls load the whole file, work on a copy (`ResolveOne` per
declaration) and save by truncating and writing. `FromEntity` is the conversion
that writes the file, and has no place for profiles.

**HostCall.** A call walks the chain position by position. A payload is a record
of what its readers make of it, because the capability middleware and the
handler decode the same bytes as different types: each of the two may decode what
the other does not, and the header that the user agent middleware adds may make the
payload decodable for the handler, and decodable or not for the check. `undecoded`
is a history variable: the middleware knew the function, came to the check and could
not decode. The map of grants is written
without a lock; a read during a write may stop the process, which is the action
that sets `dead`. Outside every middleware, a guest without a memory makes the
adapter panic as it reads the request, and an `allocate` without a result as it
writes the response (`broken`); every failure that `WriteResponse` reports as 0 counts
as an answer.

**Executor.** Goroutines load binaries, call guest functions through a
`PluginInstance`, and close the runtime; while a guest function runs, its
goroutine is in `HostCall`'s steps. A module is named by its name section
(`NameOf`), which different binaries may share, and a name belongs to one open
module. A guest may trap (`GuestFails`) or exit through WASI (`GuestExits`,
`AllocateExits` when that happens in the `allocate` that `WriteResponse` calls): an
exit closes the module (`open`) and frees its name, while a trap in `_initialize`
leaves the module open and in nobody's hands. A `_start` that exits with code 0 counts
as a success, so that a caller may hold a `PluginInstance` of a closed module.

**Policy.** Addresses of grant sets, their content and the cache are separate, so
that a grant set can be changed in place after it was compiled. The parts of a port
text are numbers, also beyond the largest port, words, and numbers beyond an int. A
key-value rule with an operation of another name allows nothing. `Permits` is the
reference that the decisions are compared with; it has its own definitions of which
ports a text names and which operations a rule allows. Its definitions carry names of
their own (`PolicySpec`, `PolicyTypeOK`) so that one proof module can extend it
beside `Gatekeeper`.

### Assumptions about code outside the repository

- `hostfunc` types: that the port of its TCP and SMTP requests is a string
  follows from `strconv.Atoi(req.Port)` in `capability_checker.go`. Of the other
  requests nothing is assumed: either side may decode what the other does not. A
  payload names each of its fields once, so that the target is the same to both.
- `net.LookupIP` returns an address or an error. `tls.DialWithDialer` bounds dial
  and handshake together by the dialer's timeout. `smtp.Client` sets no deadline.
- `doublestar.Match` is a fixed relation between patterns and texts.
- net/http: one dial per hop, which goes on when the hop no longer needs it; no
  dial after the deadline; a pooled connection found closed is replaced; the
  caller's context bounds dial, exchange and body.
- os/exec: `Start` refuses a finished context, a watcher kills at the end of the
  context, `Wait` prefers the command's own failure and then waits for the pipes.
- wazero: one open module of a name per runtime; `proc_exit` closes the guest's
  module; a module whose `_start` fails is closed, and one whose `_start` exits with
  0 is returned closed without an error; calls into a closed module fail; a host
  function's panic fails the guest's call; `Close` closes every module, and nothing
  is instantiated after it.
- `net.Resolver` answers literals, and names of the hosts file, without a server.
- A short or overlapping file write leaves a torn file; a rename is not involved
  anywhere in this code.

## 3. Runs

| Run | Instance | Shows |
|---|---|---|
| `gatekeeper` | 2 processes, one narrow and one broad capability, crashes and I/O errors | `StoreHoldsOnlyApproved`, `StrictAddsNoBroad`, `ResultCoversPrompted`, `SavedGrantsSurvive` |
| `http` | 2 dialling goroutines, a name and a literal, 3 addresses, answers of 2, TTL 2, clock to 3, 8 requests over defaults, options and edges, bodies of up to one more than the limit, fair | `NoForbiddenDial`, `OneAddressPerHost`, `BodyIsWholeOrFlagged`, `RequestReturns` |
| `retry` | a RoundTrip and another dialling goroutine, Durations of 4 bits, 3 sets of fields, Retry-After of -1 and 9 seconds and dates, fair | `WaitMatchesReference`, `OnlyReturnedIsOpen`, `ResponseIsToWholeBody`, `PinMovedOnlyByOverlap`, `EndedRoundTripReturns` |
| `host_functions` | 7 spellings of a host, 5 addresses, ports at both edges, 8 option sets, one with the same host and network in both lists and a refused port; 10 spellings of a type, 4 of a server; 4 environments, nil among them, an output limit of 2 of 3 units, fair | `NoForbiddenConnect`, `VerdictMatchesReference`, `OutputIsWholeOrFlagged`, `NothingInherited`, `ReportIsTruthful`, `HostFunctionsReturn` |
| `plugin_cache` | 2 processes, 2 versions, crashes, failing writes, a moving tag, Deletes | `DigestVouchesForWasm`, `LockedLoadIsExact`, `OverlapHealsWhenTagIsFixed`, `FilledOnce` |
| `lockfile` | 2 callers, lists of up to 2 declarations over 2 constraints, crashes, failing writes | `SaveIsReadBack`, `SatisfiedLocksAreKept`, `DeclaredIsLocked` |
| `executor` | 1 goroutine and the registrar, 3 binaries of which 2 share a name and 1 has none, room for 2 instances, 2 middleware chains, 2 grant sets, http_request and tcp_connect, every payload record | `GuardedHandlerIsGranted`, `PrivateIsGranted`, `RecoveryFirstNeverTraps`, `OnlyInitializeLeaks` |
| `policy` | 2 goroutines, 2 grant-set addresses, 3 contents with good and bad ports | `DecisionMatchesGrants`, `DecisionWasOnceTrue` |
| `store_holds_session` | violated | `StoreHoldsOnlyAlways` |
| `locked_load_overlap` | violated | `LockedLoadAlwaysExact` |
| `locked_profile_lost` | violated | `LockedProfileIsFound` |
| `string_port_unchecked` | violated | `EveryStandardHandlerIsGranted` |

Each passing run but `http` also checks that every variable keeps its type.

Why the bounds are enough. Two actors give every pairwise race, and neither the
grants file, the cache entry, the lockfile, the dialer's cache nor the
compiled-grant cache tells a third actor from a second one that starts again,
which all the models allow without limit. Two versions are one artifact and
another. In `http` the clock runs past the lifetime of a pin, three hops come
back to the first host after leaving it, and two dials are the hop's own and one
left behind. In `retry` the default backoff overflows its four bits within the
default retries, as 1 s does in 64 bits after some thirty. Two declarations are
the shortest list in which one can contradict the other. Output of one unit more
than the limit, and a body of one more, are the shortest that are cut, and both
come in every division. The chains of `executor` put the capability middleware
last behind a recovery, and first and last around the others without one; the
functions are one whose payload both sides decode and one whose port they read
differently; calls share nothing but the map of grants, so a second goroutine adds
nothing but another reader of it. Room for two instances is the orphan and the
retry. For the properties that are proved, which are all but the liveness
properties, the bounds do not matter; the runs remain what shows that the models
reach the cases of interest.

Fairness. Only what the code itself bounds or the runtime does is fair; nothing
is assumed of peers, servers, commands or users. `http`: time passes, the
deadline fires, dials (bounded by the dialer's timeout) go on. `retry`: sleeps
end, dials go on, and an exchange fails once its context has ended.
`host_functions`: the resolver, dials that cannot be made, timers and deadlines;
for a command, its deadline, the kill, the collection and the copying. That is
why `HostFunctionsReturn` has to except the plain SMTP exchanges and pipes that a
descendant holds for ever. Deadlock is not checked in `http`, whose one request
ends and whose clock stops, and in `executor`, where the runtime may really stop
the process.

### What the runs found

- **A grant for the session is stored** (`store_holds_session`). One prompt of a
  call answered with "always" makes `GrantCapabilities` save all of the call's
  grants, those answered with "for this session" too.
- **A locked load can return another binary** (`locked_load_overlap`).
  `LoadPlugin` checks the digest of the plugin it resolved and then looks up the
  path of the file; if two loads missed together and the tag moved, the file has
  been overwritten in between. Without overlapping fills this cannot happen, which
  `LockedLoadIsExact` shows and `LockedLoads` proves.
- **A locked profile is lost** (`locked_profile_lost`). The YAML structure has no
  field for profiles.
- **TCP and SMTP targets are not checked against grants** (`string_port_unchecked`).
  The middleware decodes the port as a string, the handler as a number; a
  payload the handler accepts does not decode in the middleware, which passes it
  on. The other functions fail open in the same way
  (`capability_checker.go:227, 250, 257`) when a payload decodes for the handler
  alone; `GuardedHandlerIsGranted` says that there is no other way past the check.

Recorded without a run of its own, in the models as the code has it:

- An address that resolves to IPv6 is never reached by tcp_connect and
  smtp_connect under protection (`Targets` is empty for it), and plain SMTP
  exchanges have no deadline (`Unbounded`).
- "Allowed addresses bypass all other checks" (`netutil/netfilter.go:52`) and "Blocklist is
  checked before other rules" (`netutil/netfilter.go:60`): `ValidateAddress` checks the ports
  first, then the allowlist, then the blocklist, so that an allowlisted host is
  refused on a refused port, and a host in both lists is allowed. The reference of
  `VerdictMatchesReference` follows the code.
- "Engine implements the Policy interface with stateless enforcement"
  (`policy/policy.go:53`): compiled grants are cached by pointer for good, so that a grant set changed in place after its first use is
  enforced as it was; `DecisionWasOnceTrue` says what remains true then.
- "pinned for all subsequent requests" (`http.go:130`): the dialer is made per
  request (`http.go:253`), so a pin lives as long as a request.
- `MaxRedirects` of n allows n requests, that is n - 1 redirects (`http.go:271`),
  and 0 means net/http's own limit. `handleHTTPError` matches words in a text
  that quotes the URL, so a URL that says "timeout" or "redirect" decides the
  code.
- A body of exactly the limit is flagged as cut unless `io.EOF` came with its
  last bytes.
- Retries: a date in the past gives the initial backoff even above the maximum;
  an overflow or a negative Retry-After gives no wait; a negative `MaxRetries`
  returns neither a response nor an error; a body without `GetBody` is empty from
  the second attempt on; sleeps ignore the context.
- exec_command: no `WaitDelay`, so that a descendant with the pipes outlasts the
  deadline; a command that failed in time may be reported as timed out; the
  bundle's handler does not sanitise the environment, and nothing reads the flag
  that `WithIsolatedEnv` sets.
- dns_lookup: `a` and `aaaa` are accepted and not filtered; a nameserver given as
  a bare IPv6 address can never be dialled.
- `Delete` cut short after `plugin.wasm` and before `digest.txt` leaves a digest
  under which the next Store writes another binary (`raced`).
- Executor: a `PluginInstance` cannot be closed by its owner; after an `_initialize`
  that trapped the name stays taken until the runtime is closed, and after one that
  exited it is free; a `_start` that exits with 0 gives a `PluginInstance` whose every
  call fails; an `allocate` without a result
  panics at `executor.go:207` and `adapter.go:177`; a result of length 0 leaves an
  empty value without an error.

## 4. Proofs

All theorems are for arbitrary constants that satisfy the modules' assumptions:
any number of processes, goroutines, hosts, addresses, grants, plugins and
versions, any limits and lengths. The assumptions only type the constants and
keep sentinels apart from values, and the runs evaluate them. The two that say
more: a configuration always blocks multicast (no option turns that off), and
backoffs are not negative (`Duration`). Where a theorem has a hypothesis of its
own it is said below. Every inductive invariant was checked as an invariant of
the module's run before it was proved.

The specifications with fairness are proved about as well as those without:
safety does not use it.

`Capability_proofs`, about `Gatekeeper`
- `TypeCorrect`.
- `StoreApproved`: `StoreHoldsOnlyApproved` is not inductive, since a process
  writes what it has carried since it loaded. `ApprovedInv` adds that carried
  grants are approved (`CarriedApproved`) and that a torn file is remembered
  (`TornSeen`).
- `ResultCovers` follows from `CoverInv`: what a call requires is at every moment
  split between what it holds and what it has still to ask for.
- `StrictHolds`: inductive with types.
- `SavedSurvives`: for any number of processes, as long as `disturbed` is false.
  `Durable` says that what was saved is in the file whenever nobody writes, that
  every call past its load carries it (`Carries`), and that a writer is alone
  with the file it has truncated.

`Capability_proofs`, about `Policy`
- `DecisionsMatch`, `DecisionsWereTrue`, `PolicyTypesHold`. Two arguments meet.
  One is about the operators: for rules whose port texts parse, the ranges of
  `compilePorts` hold exactly the ports that the texts name (`PortsCompile`,
  `PortsMatch`), so that evaluating compiled rules is `Permits` (`EvaluateIsPermits`).
  The other is about the cache: `PolicyInv` says that whatever is cached or about
  to be cached for an address was compiled from a content of that address, and
  from the present one unless it has changed since (`FromAddress`). The
  decisions themselves are not inductive, because a goroutine decides on what it
  fetched earlier.

`SecureDialer_proofs`
- `TypeCorrect`, through `TypeInv` (a goroutine past its lookup has an address).
- `NoForbiddenDialAlways`, from `ValidInv`: pinned addresses, addresses about to
  be stored or dialled, and dialled addresses have all passed the filter. The
  lemma `ValidatedIsNotForbidden` joins the filter's checks to the separate
  definition of what is forbidden.
- `FreshPinsStay`: the action property, from `PinInv` (stamps lie in the past;
  at its miss a goroutine saw no fresh pin older than the miss).

`Http_proofs`
- `NoForbiddenHop`: the invariants of the dialer are kept by the steps of a
  request too (`DialerStep`: each is a step of the dialer or leaves it alone).
- `OneAddressHolds`: for requests with a timeout no longer than a pin lives, which
  the property says. `PinnedInv`: a host is missed once; until its answer is stored
  the dial that missed is the only one under way to that host and belongs to the
  hop that waits for it (`MissesOnce`), and from then on every dial and every
  pooled connection has the pinned address.
- `BodyHolds`: `BodyInv` adds that what was read and what the limit leaves make up
  the limit.

`Retry_proofs`
- `WaitHolds`, `RetryTypeCorrect`: the lemma `BackoffIsRight` computes modulo
  `2^Width` for every width; `WrapIsIdentity` covers the case without overflow,
  `WrapFits` the other.
- `OpenHolds`, `WholeBodyHolds`: `TripInv` says that nothing has been returned
  while the call goes on and that no response is open then (`TripGoesOn`), and
  what each attempt has offered of the body (`OffersBody`).
- `RetryPinsStay`, `NoForbiddenRetry`: the dialer's invariants in the composition
  with other goroutines.

`HostFunctions_proofs`
- `NoForbiddenHolds`, `VerdictHolds`: `ConnectInv`. `EarlyIsRight` and
  `ResolvedIsRight` show that the chain of checks of `ValidateAddress`, in the
  code's order, lets nothing through that the reference, a formula without an order,
  refuses;
  `ReachedIsPermitted` that a protected dial goes to the address the filter has
  seen (`DialsVerdict`).
- `OutputHolds`, `InheritanceHolds`, `ReportHolds`: `ExecInv`. A buffer holds what
  was copied up to the limit and is flagged exactly above it (`HoldsCopied`, kept
  by a write of any size: `WriteHoldsCopied`), nothing is left to copy once the
  pipes are drained, and the error of `cmd.Run` tells how the command ended
  (`RunErrTells`).
- `HostTypesHold`, for the bundle; `EachInTurn` splits its steps.

`Executor_proofs`
- `GuardedHolds`, `PrivateHolds`: for every middleware chain with the capability
  middleware at one or more places. `EnforceInv`: until a capability middleware
  takes the context a call has passed none; from then on it is told about private
  networks, and its target is granted, was undecoded, or is about to be looked up
  under the function's own name. Nothing is assumed of which payloads decode for
  whom: `GuardedHolds` says that a standard function runs under a grant or on a
  payload the middleware could not decode. The grants are those of some moment of the
  call, not of one and the same.
- `RecoveryHolds`: for every chain that begins with the recovery.
- `LeaksHold`, from `RuntimeInv`: `OnlyInitializeLeaks` needs that the goroutine that loads an instance
  is the only one to have it and that the instance keeps its binary, for any names,
  binaries and orders of traps, exits and `Close`.
- `TypeCorrect`.

`PluginCache_proofs`
- `TypeCorrect`, through `TypeInv`.
- `DigestVouches`, `LockedLoads`, `CacheImplementsSlot`: under the assumption that
  reads of good files do not fail (`"read" \notin Faults`), without which a miss
  no longer means that nothing is there. `SoundInv` says, as long as fills have
  not overlapped and no Delete was raced: at most one process fills (`OneFiller`),
  it began because nothing was there (`FillerFoundNothing`), the files are as far
  as its position says (`Progress`), a digest vouches (`Vouched`), and what readers
  carry is what the entry holds (`Resolved`, `Checked`, `Delivered`). The last
  theorem is the refinement of `WriteOnceSlot`: a Store begins only where `Find` would
  refuse the entry, so that it fills an empty slot, and only a Delete empties it.
- `OverlapHeals`, with read faults too: `HealInv` says that while the tag has not
  moved every Store writes the tag's artifact, so that the binary is that artifact
  or is being written.

`Lockfile_proofs`
- `LocksAreKept`, `LastIsLocked`: for lists of declarations of any length, from the
  loop's invariants over the part already done (`KeptSoFar`, `LockedSoFar`).
- `ReadBack`: `FileInv` says that without overlap one call at most is under way, and
  that the file is empty exactly while it writes.
- `TypeCorrect`.

Only model-checked: the liveness properties `RequestReturns`,
`EndedRoundTripReturns` and `HostFunctionsReturn` (fairness and `ENABLED` are
beyond the prover), and the four violations, which are counterexamples.

## 5. Not modelled

- `List`, `Prune` and `PublishPlugin` of the plugin service: `List` only reads,
  `Prune` does nothing, and publishing changes the registry alone. Signing is a
  yes or no.
- Options and TLS configurations that direct Go callers pass to
  `PerformTCPConnect` and `PerformSMTPConnect`; no host function of the bundles
  passes any. (A configuration shared by concurrent callers is written to at
  `smtp.go:211`.)
- A handler that calls `Invoke` itself, and the capability checks no host function
  reaches (`CheckFileSystem`, `CheckEnvironment`).
- `DetectExecutionType`: it chooses the words of a refusal; whether a command is
  refused does not depend on it.
- The manifest loader and the compilation cache of `host/`: a document is read and
  converted, and compilation is wazero's.
- The digits of a port, the bytes of YAML and JSON, glob matching, semantic
  versions: conversions, abstracted to what the properties tell apart.
- Version resolution, plugin references, manifest validation, the schema
  registry, templates, extraction, parsers: functions from one document to
  another, without state that anything else sees or steps that interleave. Their
  unit tests are the better tool.
- Logging, TLS defaults, signing, registry authentication, mocks: input, output
  and wrappers of external tools.
- Latencies and memory use.

## 6. Plan

Done, in this order: Gatekeeper with proofs; Netfilter and SecureDialer with
proofs; PluginCache, its abstract slot and proofs; Lockfile; HostCall; Policy;
AddressFilter and Connect; Http and Retry over SecureDialer; Dns and Exec,
composed in HostFunctions; Executor over HostCall; Delete in PluginCache.

Then the proofs, in this order: `Executor` with `HostCall`; `Http` and `Retry`
over the invariants of `SecureDialer_proofs`; `HostFunctions` with `Connect`,
`Dns` and `Exec`; `Lockfile`; `Policy`; the healing of overlapping fills in
`PluginCache`.

Left to do, in the order of what it would settle:

1. Abstract specifications for what is now stated as invariants only: a grant
   store that never loses or invents a grant, which `Gatekeeper` implements while
   undisturbed, and a lockfile whose entries change only as declared.
2. Action properties beside the invariants: what a call may never change of a
   file it does not save, in `Gatekeeper` and `Lockfile`.

The runs are kept few: a module gets one run for safety and liveness together
where the state space allows it.
