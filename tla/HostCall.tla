------------------------------ MODULE HostCall ------------------------------
(***************************************************************************)
(* A host function call of a plugin: HandleRegistryCall (wazero/adapter),  *)
(* HandlerRegistry.Invoke (registry), the middleware chain (middleware,    *)
(* capability_checker) and the JSON handler at its end (handler), run by   *)
(* several goroutines while the host registers grants.  Executor adds the  *)
(* guests that make the calls.                                             *)
(*                                                                         *)
(* A payload is what its readers make of it: whether it is the JSON value  *)
(* null, the target it names (host and port, URL or command), whether the  *)
(* capability middleware and the handler can each decode it, and whether   *)
(* it carries a User-Agent header.  The middleware decodes types of        *)
(* another repository (package hostfunc), the handler types of this one.   *)
(***************************************************************************)
EXTENDS Naturals, Sequences

CONSTANTS
    Call,        \* goroutines that call into the host
    Plugin,      \* plugins named in a context
    NoPlugin,    \* a context without WithCapabilityPluginName
    Target,      \* what a grant may cover
    NoTarget,    \* a URL that url.Parse rejects: no grant covers it
    Loopback,    \* 127.0.0.1 port 0, asked by AllowsPrivateNetwork
    GrantSets,   \* the grants a plugin may be given
    Registered,  \* the names of the registry's handlers
    Chains       \* the middleware chains of the registries considered

Middleware == {"recovery", "logging", "useragent", "capability"}

\* The functions the capability middleware knows.
Guarded == {"dns_lookup", "tcp_connect", "smtp_connect", "http_request",
            "exec_command"}

\* Those whose port is a string to the middleware (strconv.Atoi(req.Port))
\* and a number to the handler, so that no payload has one for both.
StringPort == {"tcp_connect", "smtp_connect"}

Name == Guarded \cup {"ssrf_check", "custom"}

ASSUME NoPluginAssumption == NoPlugin \notin Plugin
ASSUME TargetAssumption == NoTarget \notin Target /\ Loopback \in Target
ASSUME GrantSetsAssumption == GrantSets \subseteq SUBSET Target
ASSUME RegisteredAssumption == Registered \subseteq Name
ASSUME ChainsAssumption == Chains \subseteq Seq(Middleware)

VARIABLES
    chain,    \* the registry's middleware, outermost first; never changes
    grants,   \* grantedCapabilities; {} for a plugin without an entry
    writer,   \* the map write RegisterGrants is in: at most one element
    dead,     \* the runtime has stopped the process for a map race
    pc,       \* where each call is
    req,      \* its function, plugin and payload
    at,       \* the position in the chain it has reached
    hostCtx,  \* is its context still a HostContext?
    private,  \* ssrf_allow_private in its context
    fname,    \* the function name the capability middleware took from it
    result,   \* what the guest was left with after its last call
    seen,     \* history: the grant sets of its plugin since it began
    undecoded \* history: did a check fail to decode its payload?

vars == <<chain, grants, writer, dead, pc, req, at, hostCtx, private, fname,
          result, seen, undecoded>>
world == <<chain, grants, writer, dead>>

Payload == [null : BOOLEAN, target : Target \cup {NoTarget},
            forCheck : BOOLEAN, forHandler : BOOLEAN, ua : BOOLEAN]

\* The payloads a guest may send to f.  null decodes into the zero request
\* everywhere; of any other payload each side decodes its own type, and one
\* may fail where the other does not (a field only one of them has).
\* forHandler means: decoded, with a port where one is needed.
Payloads(f) ==
    {r \in Payload :
        /\ r.null => r.forCheck /\ ~r.ua
        /\ r.target = NoTarget \/ r.ua => f = "http_request"
        /\ f \in StringPort => ~(r.forCheck /\ r.forHandler)}

Request == [fn : Name, plugin : Plugin \cup {NoPlugin}, payload : Payload]

GrantsOf(p) == IF p = NoPlugin THEN {} ELSE grants[p]

\* What a goroutine that is in no call holds in the place of a request.
NoRequest == [fn |-> "custom", plugin |-> NoPlugin,
              payload |-> [null |-> FALSE, target |-> Loopback,
                           forCheck |-> FALSE, forHandler |-> FALSE,
                           ua |-> FALSE]]

-----------------------------------------------------------------------------
Init ==
    /\ chain \in Chains
    /\ grants \in [Plugin -> GrantSets]
    /\ writer = {}
    /\ dead = FALSE
    /\ pc = [c \in Call |-> "idle"]
    /\ req = [c \in Call |-> NoRequest]
    /\ at = [c \in Call |-> 1]
    /\ hostCtx = [c \in Call |-> FALSE]
    /\ private = [c \in Call |-> "unset"]
    /\ fname = [c \in Call |-> "none"]
    /\ result = [c \in Call |-> "none"]
    /\ seen = [c \in Call |-> {}]
    /\ undecoded = [c \in Call |-> FALSE]

\* The guest calls f: the request fits, is read from its memory and found in
\* the registry; the context becomes a HostContext named f.
Invoke(c, f, p, r) ==
    /\ pc[c] = "idle"
    /\ f \in Registered
    /\ pc' = [pc EXCEPT ![c] = "chain"]
    /\ req' = [req EXCEPT ![c] = [fn |-> f, plugin |-> p, payload |-> r]]
    /\ hostCtx' = [hostCtx EXCEPT ![c] = TRUE]
    /\ result' = [result EXCEPT ![c] = "none"]
    /\ seen' = [seen EXCEPT ![c] = {GrantsOf(p)}]
    /\ UNCHANGED <<world, at, private, fname, undecoded>>

\* The request is too large, lies outside the guest's memory, or (a direct
\* Invoke) names no handler: an error response and no handler.  A guest that
\* has no memory makes the read panic, with no middleware around it.
Reject(c) ==
    /\ pc[c] = "idle"
    /\ \/ /\ pc' = [pc EXCEPT ![c] = "respond"]
          /\ UNCHANGED result
       \/ /\ result' = [result EXCEPT ![c] = "broken"]
          /\ UNCHANGED pc
    /\ UNCHANGED <<world, req, at, hostCtx, private, fname, seen, undecoded>>

In(c, m) ==
    /\ pc[c] = "chain"
    /\ at[c] \in DOMAIN chain
    /\ chain[at[c]] = m

MutantAdvance(c) == at' = [at EXCEPT ![c] = @ + 2]

Advance(c) == at' = [at EXCEPT ![c] = @ + 1]

MutantPassThrough(c) ==
    /\ In(c, "recovery") \/ In(c, "logging")
    /\ Advance(c)
    /\ hostCtx' = [hostCtx EXCEPT ![c] = FALSE]
    /\ UNCHANGED <<world, pc, req, private, fname, result, seen,
                   undecoded>>

\* PanicRecoveryMiddleware and LoggingMiddleware on the way in.
PassThrough(c) ==
    /\ In(c, "recovery") \/ In(c, "logging")
    /\ Advance(c)
    /\ UNCHANGED <<world, pc, req, hostCtx, private, fname, result, seen,
                   undecoded>>

\* The call is over and the guest holds res; its locals are gone.
Leave(c, res) ==
    /\ pc' = [pc EXCEPT ![c] = "idle"]
    /\ req' = [req EXCEPT ![c] = NoRequest]
    /\ at' = [at EXCEPT ![c] = 1]
    /\ hostCtx' = [hostCtx EXCEPT ![c] = FALSE]
    /\ private' = [private EXCEPT ![c] = "unset"]
    /\ fname' = [fname EXCEPT ![c] = "none"]
    /\ seen' = [seen EXCEPT ![c] = {}]
    /\ undecoded' = [undecoded EXCEPT ![c] = FALSE]
    /\ result' = [result EXCEPT ![c] = res]

\* A panic at position n: an enclosing recovery answers it; with none it
\* leaves the host function and wazero fails the guest's call.
Panic(c, n) ==
    IF \E i \in DOMAIN chain : i < n /\ chain[i] = "recovery"
    THEN /\ pc' = [pc EXCEPT ![c] = "respond"]
         /\ UNCHANGED <<req, at, hostCtx, private, fname, seen, undecoded,
                      result>>
    ELSE Leave(c, "trap")

SeesHTTP(c) == hostCtx[c] /\ req[c].fn = "http_request"

\* A payload with a User-Agent header.  The handler's headers are strings: one
\* more keeps them so, and where they were no object it may now decode.  What
\* the middleware's headers are is not this repository's: either may come out.
Headed(r, checkable, decodable) ==
    [r EXCEPT !.ua = TRUE,
              !.forCheck = checkable,
              !.forHandler = @ \/ decodable]

\* UserAgentMiddleware adds the header, replacing headers that are no object.
UserAgentAdds(c) ==
    /\ In(c, "useragent")
    /\ SeesHTTP(c) /\ ~req[c].payload.null /\ ~req[c].payload.ua
    /\ \E checkable, decodable \in BOOLEAN :
          req' = [req EXCEPT ![c].payload = Headed(@, checkable, decodable)]
    /\ Advance(c)
    /\ UNCHANGED <<world, pc, hostCtx, private, fname, result, seen,
                   undecoded>>

\* null leaves the map nil without an error, and the assignment panics.
UserAgentPanics(c) ==
    /\ In(c, "useragent")
    /\ SeesHTTP(c) /\ req[c].payload.null
    /\ Panic(c, at[c])
    /\ UNCHANGED world

UserAgentSkips(c) ==
    /\ In(c, "useragent")
    /\ ~SeesHTTP(c) \/ req[c].payload.ua
    /\ Advance(c)
    /\ UNCHANGED <<world, pc, req, hostCtx, private, fname, result, seen,
                   undecoded>>

\* CapabilityMiddleware without a plugin name in the context.
CapabilityUnnamed(c) ==
    /\ In(c, "capability")
    /\ req[c].plugin = NoPlugin
    /\ Advance(c)
    /\ UNCHANGED <<world, pc, req, hostCtx, private, fname, result, seen,
                   undecoded>>

MutantPrivateAnyGrant(c) ==
    /\ In(c, "capability")
    /\ req[c].plugin # NoPlugin
    /\ fname' = [fname EXCEPT ![c] = IF hostCtx[c] THEN req[c].fn ELSE "none"]
    /\ private' = [private EXCEPT ![c] =
                      IF grants[req[c].plugin] # {} THEN "allowed" ELSE "refused"]
    /\ hostCtx' = [hostCtx EXCEPT ![c] = FALSE]
    /\ pc' = [pc EXCEPT ![c] = "check"]
    /\ UNCHANGED <<world, req, at, result, seen,
                   undecoded>>

\* It takes the function name, asks AllowsPrivateNetwork and wraps the
\* context with context.WithValue, which is no HostContext.
CapabilityPrivate(c) ==
    /\ In(c, "capability")
    /\ req[c].plugin # NoPlugin
    /\ fname' = [fname EXCEPT ![c] = IF hostCtx[c] THEN req[c].fn ELSE "none"]
    /\ private' = [private EXCEPT ![c] =
                      IF Loopback \in grants[req[c].plugin] THEN "allowed"
                                                            ELSE "refused"]
    /\ hostCtx' = [hostCtx EXCEPT ![c] = FALSE]
    /\ pc' = [pc EXCEPT ![c] = "check"]
    /\ UNCHANGED <<world, req, at, result, seen,
                   undecoded>>

Checks(c) == fname[c] \in Guarded /\ req[c].payload.forCheck

\* No known function, or a payload it cannot decode: nothing is checked.
CapabilitySkips(c) ==
    /\ pc[c] = "check"
    /\ ~Checks(c)
    /\ pc' = [pc EXCEPT ![c] = "chain"]
    /\ Advance(c)
    /\ undecoded' = [undecoded EXCEPT ![c] = @ \/ fname[c] \in Guarded]
    /\ UNCHANGED <<world, req, hostCtx, private, fname, result, seen>>

\* CheckNetwork, CheckNetworkConnection or CheckExec finds the target
\* granted.  The map is read a second time.
CapabilityPasses(c) ==
    /\ pc[c] = "check"
    /\ Checks(c)
    /\ req[c].payload.target \in grants[req[c].plugin]
    /\ pc' = [pc EXCEPT ![c] = "chain"]
    /\ Advance(c)
    /\ UNCHANGED <<world, req, hostCtx, private, fname, result, seen,
                   undecoded>>

\* It does not: a validation error is the response.
CapabilityDenies(c) ==
    /\ pc[c] = "check"
    /\ Checks(c)
    /\ req[c].payload.target \notin grants[req[c].plugin]
    /\ pc' = [pc EXCEPT ![c] = "respond"]
    /\ UNCHANGED <<world, req, at, hostCtx, private, fname, result, seen,
                   undecoded>>

AtHandler(c) == pc[c] = "chain" /\ at[c] = Len(chain) + 1

\* NewJSONHandler cannot decode the payload, or the handler's validation
\* finds no port in it: an error response.
HandlerRejects(c) ==
    /\ AtHandler(c)
    /\ ~req[c].payload.forHandler
    /\ pc' = [pc EXCEPT ![c] = "respond"]
    /\ UNCHANGED <<world, req, at, hostCtx, private, fname, result, seen,
                   undecoded>>

\* The host function starts.
HandlerStarts(c) ==
    /\ AtHandler(c)
    /\ req[c].payload.forHandler
    /\ pc' = [pc EXCEPT ![c] = "running"]
    /\ UNCHANGED <<world, req, at, hostCtx, private, fname, result, seen,
                   undecoded>>

\* It returns a response, or a byte handler a Go error, which
\* HandleRegistryCall turns into an error response.
HandlerReturns(c) ==
    /\ pc[c] = "running"
    /\ pc' = [pc EXCEPT ![c] = "respond"]
    /\ UNCHANGED <<world, req, at, hostCtx, private, fname, result, seen,
                   undecoded>>

MutantHandlerPanics(c) ==
    /\ pc[c] = "running"
    /\ Leave(c, "trap")
    /\ UNCHANGED world

HandlerPanics(c) ==
    /\ pc[c] = "running"
    /\ Panic(c, at[c])
    /\ UNCHANGED world

\* WriteResponse: the guest is answered with its response, or with 0 when it
\* has no allocate, allocate fails or the pointer it gives lies outside its
\* memory; a panic, and no middleware around it, when allocate returns no value.
WriteResponse(c) ==
    /\ pc[c] = "respond"
    /\ \E res \in {"answered", "broken"} : Leave(c, res)
    /\ UNCHANGED world

\* RegisterGrants is in its map write.
RegisterBegin(p, G) ==
    /\ writer = {}
    /\ writer' = {[plugin |-> p, grants |-> G]}
    /\ UNCHANGED <<chain, grants, dead, pc, req, at, hostCtx, private, fname,
                   result, seen,
                   undecoded>>

\* The new grants are in the map; nothing is told to calls under way.
RegisterEnd ==
    \E w \in writer :
        /\ grants' = [grants EXCEPT ![w.plugin] = w.grants]
        /\ writer' = {}
        /\ seen' = [c \in Call |->
                       IF pc[c] # "idle" /\ req[c].plugin = w.plugin
                       THEN seen[c] \cup {w.grants} ELSE seen[c]]
        /\ UNCHANGED <<chain, dead, pc, req, at, hostCtx, private, fname,
                       result, undecoded>>

\* No lock guards the map: a read during the write may stop the process.
MapRace(c) ==
    /\ writer # {}
    /\ \/ In(c, "capability") /\ req[c].plugin # NoPlugin
       \/ pc[c] = "check" /\ Checks(c)
    /\ dead' = TRUE
    /\ UNCHANGED <<chain, grants, writer, pc, req, at, hostCtx, private, fname,
                   result, seen,
                   undecoded>>

\* A guest whose context names p enters the host.
Enters(c, p) ==
    \/ \E f \in Registered : \E r \in Payloads(f) : Invoke(c, f, p, r)
    \/ Reject(c)

\* The call goes on to its end.
GoesOn(c) ==
    \/ PassThrough(c)
    \/ UserAgentAdds(c)
    \/ UserAgentPanics(c)
    \/ UserAgentSkips(c)
    \/ CapabilityUnnamed(c)
    \/ CapabilityPrivate(c)
    \/ CapabilitySkips(c)
    \/ CapabilityPasses(c)
    \/ CapabilityDenies(c)
    \/ HandlerRejects(c)
    \/ HandlerStarts(c)
    \/ HandlerReturns(c)
    \/ HandlerPanics(c)
    \/ WriteResponse(c)
    \/ MapRace(c)

RegisterGrants ==
    \/ \E p \in Plugin, G \in GrantSets : RegisterBegin(p, G)
    \/ RegisterEnd

-----------------------------------------------------------------------------
\* Every variable keeps its type; in particular a call never runs off the end
\* of the chain, and a guest is left with an answer or with a failure.
TypeOK ==
    /\ chain \in Chains
    /\ grants \in [Plugin -> GrantSets]
    /\ writer \subseteq [plugin : Plugin, grants : GrantSets]
    /\ dead \in BOOLEAN
    /\ pc \in [Call -> {"idle", "chain", "check", "running", "respond"}]
    /\ req \in [Call -> Request]
    /\ at \in [Call -> 1..(Len(chain) + 1)]
    /\ hostCtx \in [Call -> BOOLEAN]
    /\ private \in [Call -> {"unset", "allowed", "refused"}]
    /\ fname \in [Call -> Name \cup {"none"}]
    /\ result \in [Call -> {"none", "answered", "broken", "trap"}]
    /\ seen \in [Call -> SUBSET SUBSET Target]
    /\ undecoded \in [Call -> BOOLEAN]

HasMiddleware(m) == \E i \in DOMAIN chain : chain[i] = m

\* A call whose context names a plugin, under a registry with the middleware.
Enforced(c) ==
    /\ pc[c] = "running"
    /\ HasMiddleware("capability")
    /\ req[c].plugin # NoPlugin

\* CapabilityMiddleware: a standard host function only runs for a target its
\* plugin was granted at some moment of the call, wherever the middleware
\* stands in the chain and whatever is registered meanwhile.  The one way past
\* it is a payload that the middleware, as it knew the function and came to
\* the check, could not decode.
GuardedHandlerIsGranted ==
    \A c \in Call :
        Enforced(c) /\ req[c].fn \in Guarded
            => \/ \E G \in seen[c] : req[c].payload.target \in G
               \/ undecoded[c]

\* ssrf_allow_private: a host function runs with private networks open only
\* if its plugin was granted loopback at some moment of the call, and is told
\* one way or the other whenever the middleware knows the plugin.
PrivateIsGranted ==
    \A c \in Call :
        /\ pc[c] = "running" /\ private[c] = "allowed"
              => \E G \in seen[c] : Loopback \in G
        /\ Enforced(c) => private[c] # "unset"

\* PanicRecoveryMiddleware registered first answers every panic, of the host
\* function and of the other middleware: none of them fails the guest's call
\* (a panic of WriteResponse, which no middleware encloses, still does).
RecoveryFirstNeverTraps ==
    chain # <<>> /\ chain[1] = "recovery"
        => \A c \in Call : result[c] # "trap"

\* What the comment of CapabilityMiddleware says of all the standard host
\* functions: it enforces capabilities for them.
EveryStandardHandlerIsGranted ==
    \A c \in Call :
        Enforced(c) /\ req[c].fn \in Guarded
            => \E G \in seen[c] : req[c].payload.target \in G
=============================================================================
