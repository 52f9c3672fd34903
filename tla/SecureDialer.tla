---------------------------- MODULE SecureDialer ----------------------------
(***************************************************************************)
(* netutil/secure_dialer.go: one SecureDialer used by several goroutines.  *)
(*                                                                         *)
(* The mutex protects each read and each write of the cache, not the span  *)
(* from a cache miss to the write that follows it: lookups of the same     *)
(* host overlap, and DNS may answer each of them differently.  DNS is the  *)
(* environment: every lookup may give any answer.  Time is a clock that    *)
(* advances between any two steps.                                         *)
(***************************************************************************)
EXTENDS Netfilter, Naturals, Sequences

CONSTANTS
    Thread,         \* goroutines that call DialContext
    Host,           \* host strings they dial
    LiteralOf,      \* the address a host string spells, or NoAddr for a name
    NoAddr,
    IPv4,           \* the addresses for which To4() is not nil
    AllowPrivate,   \* AllowPrivateNetwork
    CacheTTL,
    Horizon,        \* bound: the clock stops here
    MaxAnswer       \* bound: addresses in one DNS answer

ASSUME NoAddrAssumption == NoAddr \notin Addr
ASSUME LiteralAssumption == LiteralOf \in [Host -> Addr \cup {NoAddr}]
ASSUME IPv4Assumption == IPv4 \subseteq Addr
ASSUME AllowPrivateAssumption == AllowPrivate \in BOOLEAN
ASSUME TTLAssumption == CacheTTL \in Nat \ {0}
ASSUME BoundsAssumption == Horizon \in Nat /\ MaxAnswer \in Nat \ {0}

VARIABLES
    now,        \* the clock
    cache,      \* cache[h]: the set of at most one pinned entry of h
    pc,         \* where each goroutine is in DialContext
    host,       \* the host it dials
    addr,       \* the address it has selected, or NoAddr
    missAt,     \* when it looked in the cache in vain
    dialled     \* history: <<host, address>> of every dial

vars == <<now, cache, pc, host, addr, missAt, dialled>>

Entry == [ip : Addr, timestamp : 0..Horizon]

\* DNS answers: one or more addresses, in the order of the resolver.
Answers == UNION {[1..n -> Addr] : n \in 1..MaxAnswer}

\* The selection of DialContext: is the i-th address the first IPv4 address,
\* or the first of an answer without any?
Selects(ips, i) ==
    /\ i \in DOMAIN ips
    /\ \A j \in 1..(i - 1) : ips[j] \notin IPv4
    /\ ips[i] \in IPv4 \/ (i = 1 /\ \A j \in DOMAIN ips : ips[j] \notin IPv4)

\* validateResolvedIP, and validateWithNetfilter on a literal address.
Validated(a) == checkIPSecurityRestrictions(a, netfilterConfig(AllowPrivate))

\* time.Since(entry.timestamp) >= ttl
Expired(e) == now - e.timestamp >= CacheTTL

-----------------------------------------------------------------------------
Init ==
    /\ now = 0
    /\ cache = [h \in Host |-> {}]
    /\ pc = [t \in Thread |-> "idle"]
    /\ host \in [Thread -> Host]
    /\ addr = [t \in Thread |-> NoAddr]
    /\ missAt = [t \in Thread |-> 0]
    /\ dialled = {}

Goto(t, here, there) == pc[t] = here /\ pc' = [pc EXCEPT ![t] = there]

\* getCached finds a fresh entry; the pinned address is dialled unvalidated.
CacheHit(t, h) ==
    /\ Goto(t, "idle", "dialing")
    /\ host' = [host EXCEPT ![t] = h]
    /\ \E e \in cache[h] : ~Expired(e) /\ addr' = [addr EXCEPT ![t] = e.ip]
    /\ UNCHANGED <<now, cache, missAt, dialled>>

MutantCacheMiss(t, h) ==
    /\ pc[t] = "idle"
    /\ pc' = [pc EXCEPT ![t] = IF LiteralOf[h] = NoAddr THEN "lookup"
                                                        ELSE "validate"]
    /\ host' = [host EXCEPT ![t] = h]
    /\ addr' = [addr EXCEPT ![t] = LiteralOf[h]]
    /\ missAt' = [missAt EXCEPT ![t] = now]
    /\ UNCHANGED <<now, cache, dialled>>

\* getCached finds nothing or an expired entry.
CacheMiss(t, h) ==
    /\ pc[t] = "idle"
    /\ \A e \in cache[h] : Expired(e)
    /\ pc' = [pc EXCEPT ![t] = IF LiteralOf[h] = NoAddr THEN "lookup"
                                                        ELSE "validate"]
    /\ host' = [host EXCEPT ![t] = h]
    /\ addr' = [addr EXCEPT ![t] = LiteralOf[h]]
    /\ missAt' = [missAt EXCEPT ![t] = now]
    /\ UNCHANGED <<now, cache, dialled>>

\* LookupIPAddr fails or gives no address.
LookupFails(t) ==
    /\ Goto(t, "lookup", "idle")
    /\ UNCHANGED <<now, cache, host, addr, missAt, dialled>>

\* LookupIPAddr answers; one address is selected (and OnDNSPinning told,
\* before it is validated).
Lookup(t, ips) ==
    /\ Goto(t, "lookup", "validate")
    /\ \E i \in 1..MaxAnswer :
          /\ Selects(ips, i)
          /\ addr' = [addr EXCEPT ![t] = ips[i]]
    /\ UNCHANGED <<now, cache, host, missAt, dialled>>

\* The netfilter rejects the address: SSRFBlockedError.
Blocked(t) ==
    /\ Goto(t, "validate", "idle")
    /\ ~Validated(addr[t])
    /\ UNCHANGED <<now, cache, host, addr, missAt, dialled>>

MutantPassAny(t) ==
    /\ Goto(t, "validate", "store")
    /\ UNCHANGED <<now, cache, host, addr, missAt, dialled>>

\* The netfilter lets it pass.
Passed(t) ==
    /\ Goto(t, "validate", "store")
    /\ Validated(addr[t])
    /\ UNCHANGED <<now, cache, host, addr, missAt, dialled>>

\* cacheIP writes the entry, whatever another goroutine has put there.
cacheIP(t) ==
    /\ Goto(t, "store", "dialing")
    /\ cache' = [cache EXCEPT ![host[t]] =
                    {[ip |-> addr[t], timestamp |-> now]}]
    /\ UNCHANGED <<now, host, addr, missAt, dialled>>

\* dialIP connects, or fails to; DialContext returns either way.
dialIP(t) ==
    /\ Goto(t, "dialing", "idle")
    /\ dialled' = dialled \cup {<<host[t], addr[t]>>}
    /\ UNCHANGED <<now, cache, host, addr, missAt>>

Tick ==
    /\ now < Horizon
    /\ now' = now + 1
    /\ UNCHANGED <<cache, pc, host, addr, missAt, dialled>>

\* The steps of a dial once it has looked in the cache.
Step(t) ==
    \/ LookupFails(t)
    \/ \E ips \in Answers : Lookup(t, ips)
    \/ Blocked(t) \/ Passed(t) \/ cacheIP(t) \/ dialIP(t)

Next ==
    \/ \E t \in Thread, h \in Host : CacheHit(t, h) \/ CacheMiss(t, h)
    \/ \E t \in Thread : Step(t)
    \/ Tick

Spec == Init /\ [][Next]_vars

-----------------------------------------------------------------------------
\* Every variable keeps its type; in particular a cache entry is stamped with
\* a moment that has come, and only names and addresses of the instance are
\* dialled.
TypeOK ==
    /\ now \in 0..Horizon
    /\ cache \in [Host -> SUBSET Entry]
    /\ pc \in [Thread -> {"idle", "lookup", "validate", "store", "dialing"}]
    /\ host \in [Thread -> Host]
    /\ addr \in [Thread -> Addr \cup {NoAddr}]
    /\ missAt \in [Thread -> 0..Horizon]
    /\ dialled \subseteq Host \X Addr

\* Whatever DNS answers and however dials overlap, no dial reaches a
\* forbidden address, neither straight after its lookup nor by way of a
\* pinned entry, which is dialled without another validation.
NoForbiddenDial == \A d \in dialled : ~Forbidden(d[2], AllowPrivate)

\* A pin that is still fresh is replaced only by a dial that had already
\* missed when the pin was stored: no later dial can move it.
PinMovedOnlyByOverlap ==
    [][\A t \in Thread : \A e \in cache[host[t]] :
          pc[t] = "store" /\ cache'[host[t]] # cache[host[t]]
          => Expired(e) \/ missAt[t] <= e.timestamp]_vars
=============================================================================
