------------------------ MODULE SecureDialer_proofs ------------------------
(***************************************************************************)
(* Proofs about SecureDialer, for any number of goroutines, hosts and      *)
(* addresses, any TTL and any clock bound.                                 *)
(***************************************************************************)
EXTENDS SecureDialer, TLAPS

USE NoAddrAssumption, LiteralAssumption, ClassAssumption, TTLAssumption,
    BoundsAssumption, AllowPrivateAssumption

-----------------------------------------------------------------------------
(* What the netfilter lets pass is not forbidden.                          *)

LEMMA ValidatedIsNotForbidden ==
    ASSUME NEW a \in Addr, Validated(a)
    PROVE  ~Forbidden(a, AllowPrivate)
<1>1. ClassOf[a] \in Classes
  OBVIOUS
<1>2. CASE AllowPrivate
  BY <1>1, <1>2 DEF Validated, checkIPSecurityRestrictions, netfilterConfig,
     defaultNetfilterConfig, Forbidden, Classes
<1>3. CASE ~AllowPrivate
  BY <1>1, <1>3 DEF Validated, checkIPSecurityRestrictions, netfilterConfig,
     defaultNetfilterConfig, Forbidden, Classes
<1> QED BY <1>2, <1>3

-----------------------------------------------------------------------------
(* The type invariant, with the addresses that each place of a dial has.   *)

\* A dial that has reached the netfilter has an address.
AddrKnown ==
    \A t \in Thread : pc[t] \in {"validate", "store", "dialing"}
                      => addr[t] \in Addr

TypeInv == TypeOK /\ AddrKnown

LEMMA TypeInit == Init => TypeInv
  BY DEF Init, TypeInv, TypeOK, AddrKnown

LEMMA TypeStep == TypeInv /\ [Next]_vars => TypeInv'
<1> SUFFICES ASSUME TypeInv, [Next]_vars
             PROVE  TypeInv'
  OBVIOUS
<1> USE DEF TypeInv, TypeOK, AddrKnown
<1>1. ASSUME NEW t \in Thread, NEW h \in Host, CacheHit(t, h)
      PROVE  TypeInv'
  <2>1. PICK e \in cache[h] : addr' = [addr EXCEPT ![t] = e.ip]
    BY <1>1 DEF CacheHit
  <2>2. e.ip \in Addr
    BY DEF Entry
  <2> QED BY <1>1, <2>1, <2>2 DEF CacheHit, Goto
<1>2. ASSUME NEW t \in Thread, NEW h \in Host, CacheMiss(t, h)
      PROVE  TypeInv'
  BY <1>2 DEF CacheMiss
<1>3. ASSUME NEW t \in Thread, LookupFails(t)
      PROVE  TypeInv'
  BY <1>3 DEF LookupFails, Goto
<1>4. ASSUME NEW t \in Thread, NEW ips \in Answers, Lookup(t, ips)
      PROVE  TypeInv'
  <2>1. PICK i \in DOMAIN ips : addr' = [addr EXCEPT ![t] = ips[i]]
    BY <1>4 DEF Lookup, Selects
  <2>2. ips[i] \in Addr
    BY DEF Answers
  <2> QED BY <1>4, <2>1, <2>2 DEF Lookup, Goto
<1>5. ASSUME NEW t \in Thread, Blocked(t)
      PROVE  TypeInv'
  BY <1>5 DEF Blocked, Goto
<1>6. ASSUME NEW t \in Thread, Passed(t)
      PROVE  TypeInv'
  BY <1>6 DEF Passed, Goto
<1>7. ASSUME NEW t \in Thread, cacheIP(t)
      PROVE  TypeInv'
  <2>1. [ip |-> addr[t], timestamp |-> now] \in Entry
    BY <1>7 DEF cacheIP, Goto, Entry
  <2> QED BY <1>7, <2>1 DEF cacheIP, Goto
<1>8. ASSUME NEW t \in Thread, dialIP(t)
      PROVE  TypeInv'
  BY <1>8 DEF dialIP, Goto
<1>9. CASE Tick
  BY <1>9 DEF Tick
<1>10. CASE UNCHANGED vars
  BY <1>10 DEF vars
<1> QED BY <1>1, <1>2, <1>3, <1>4, <1>5, <1>6, <1>7, <1>8, <1>9, <1>10
     DEF Next, Step

\* The state of a dialer stays well-formed: in particular no entry is stamped
\* with a time beyond the clock's range (cacheIP stamps the present).
THEOREM TypeCorrect == Spec => []TypeOK
<1>1. TypeInv => TypeOK
  BY DEF TypeInv
<1> QED BY TypeInit, TypeStep, <1>1, PTL DEF Spec

-----------------------------------------------------------------------------
(* Only validated addresses are pinned, so that the pinned address which a *)
(* cache hit dials unseen has been validated by whoever stored it.         *)

PinsValidated == \A h \in Host : \A e \in cache[h] : Validated(e.ip)

DialsValidated ==
    \A t \in Thread : pc[t] \in {"store", "dialing"} => Validated(addr[t])

DialledValidated == \A d \in dialled : d[2] \in Addr /\ Validated(d[2])

ValidInv == PinsValidated /\ DialsValidated /\ DialledValidated

LEMMA ValidInit == Init => ValidInv
  BY DEF Init, ValidInv, PinsValidated, DialsValidated, DialledValidated

LEMMA ValidStep == TypeInv /\ ValidInv /\ [Next]_vars => ValidInv'
<1> SUFFICES ASSUME TypeInv, ValidInv, [Next]_vars
             PROVE  ValidInv'
  OBVIOUS
<1> USE DEF TypeInv, TypeOK, AddrKnown, ValidInv
<1>1. ASSUME NEW t \in Thread, NEW h \in Host, CacheHit(t, h)
      PROVE  ValidInv'
  <2>1. PICK e \in cache[h] : addr' = [addr EXCEPT ![t] = e.ip]
    BY <1>1 DEF CacheHit
  <2>2. Validated(e.ip)
    BY DEF PinsValidated
  <2>3. DialsValidated'
    BY <1>1, <2>1, <2>2 DEF CacheHit, Goto, DialsValidated, Validated,
       checkIPSecurityRestrictions
  <2>4. PinsValidated' /\ DialledValidated'
    BY <1>1 DEF CacheHit, PinsValidated, DialledValidated, Validated,
       checkIPSecurityRestrictions
  <2> QED BY <2>3, <2>4
<1>2. ASSUME NEW t \in Thread, NEW h \in Host, CacheMiss(t, h)
      PROVE  ValidInv'
  BY <1>2 DEF CacheMiss, PinsValidated, DialsValidated, DialledValidated,
     Validated, checkIPSecurityRestrictions
<1>3. ASSUME NEW t \in Thread, LookupFails(t)
      PROVE  ValidInv'
  BY <1>3 DEF LookupFails, Goto, PinsValidated, DialsValidated,
     DialledValidated, Validated, checkIPSecurityRestrictions
<1>4. ASSUME NEW t \in Thread, NEW ips \in Answers, Lookup(t, ips)
      PROVE  ValidInv'
  <2>1. \A u \in Thread : u # t => addr'[u] = addr[u] /\ pc'[u] = pc[u]
    BY <1>4 DEF Lookup, Goto
  <2>2. pc'[t] = "validate"
    BY <1>4 DEF Lookup, Goto
  <2>3. DialsValidated'
    BY <2>1, <2>2 DEF DialsValidated, Validated, checkIPSecurityRestrictions
  <2>4. PinsValidated' /\ DialledValidated'
    BY <1>4 DEF Lookup, PinsValidated, DialledValidated, Validated,
       checkIPSecurityRestrictions
  <2> QED BY <2>3, <2>4
<1>5. ASSUME NEW t \in Thread, Blocked(t)
      PROVE  ValidInv'
  BY <1>5 DEF Blocked, Goto, PinsValidated, DialsValidated,
     DialledValidated, Validated, checkIPSecurityRestrictions
<1>6. ASSUME NEW t \in Thread, Passed(t)
      PROVE  ValidInv'
  BY <1>6 DEF Passed, Goto, PinsValidated, DialsValidated,
     DialledValidated, Validated, checkIPSecurityRestrictions
<1>7. ASSUME NEW t \in Thread, cacheIP(t)
      PROVE  ValidInv'
  <2>1. Validated(addr[t])
    BY <1>7 DEF cacheIP, Goto, DialsValidated
  <2>2. PinsValidated'
    <3> SUFFICES ASSUME NEW h \in Host, NEW e \in cache'[h]
                 PROVE  Validated(e.ip)
      BY DEF PinsValidated, Validated, checkIPSecurityRestrictions
    <3>1. CASE h = host[t]
      BY <1>7, <2>1, <3>1 DEF cacheIP
    <3>2. CASE h # host[t]
      BY <1>7, <3>2 DEF cacheIP, PinsValidated
    <3> QED BY <3>1, <3>2
  <2>3. DialsValidated'
    BY <1>7, <2>1 DEF cacheIP, Goto, DialsValidated, Validated,
       checkIPSecurityRestrictions
  <2>4. DialledValidated'
    BY <1>7 DEF cacheIP, DialledValidated, Validated,
       checkIPSecurityRestrictions
  <2> QED BY <2>2, <2>3, <2>4
<1>8. ASSUME NEW t \in Thread, dialIP(t)
      PROVE  ValidInv'
  <2>1. addr[t] \in Addr /\ Validated(addr[t])
    BY <1>8 DEF dialIP, Goto, DialsValidated
  <2>2. DialledValidated'
    BY <1>8, <2>1 DEF dialIP, DialledValidated, Validated,
       checkIPSecurityRestrictions
  <2>3. PinsValidated' /\ DialsValidated'
    BY <1>8 DEF dialIP, Goto, PinsValidated, DialsValidated, Validated,
       checkIPSecurityRestrictions
  <2> QED BY <2>2, <2>3
<1>9. CASE Tick
  BY <1>9 DEF Tick, PinsValidated, DialsValidated, DialledValidated,
     Validated, checkIPSecurityRestrictions
<1>10. CASE UNCHANGED vars
  BY <1>10 DEF vars, PinsValidated, DialsValidated, DialledValidated,
     Validated, checkIPSecurityRestrictions
<1> QED BY <1>1, <1>2, <1>3, <1>4, <1>5, <1>6, <1>7, <1>8, <1>9, <1>10
     DEF Next, Step

\* Whatever DNS answers and however many goroutines dial at once, DialContext
\* never reaches an address the netfilter is there to keep out.
THEOREM NoForbiddenDialAlways == Spec => []NoForbiddenDial
<1>1. ValidInv => NoForbiddenDial
  BY ValidatedIsNotForbidden DEF ValidInv, DialledValidated, NoForbiddenDial
<1> QED BY TypeInit, TypeStep, ValidInit, ValidStep, <1>1, PTL DEF Spec

-----------------------------------------------------------------------------
(* Pinning: what a dial that missed knows of the entry it may overwrite.   *)

StampsPast == \A h \in Host : \A e \in cache[h] : e.timestamp <= now

\* An entry the dial may find was stored after the dial missed, or had
\* expired already when it missed.
MissedHonestly ==
    \A t \in Thread : pc[t] \in {"lookup", "validate", "store"} =>
        /\ missAt[t] <= now
        /\ \A e \in cache[host[t]] :
              missAt[t] <= e.timestamp \/ missAt[t] - e.timestamp >= CacheTTL

PinInv == StampsPast /\ MissedHonestly

LEMMA PinInit == Init => PinInv
  BY DEF Init, PinInv, StampsPast, MissedHonestly

LEMMA PinStep == TypeInv /\ PinInv /\ [Next]_vars => PinInv'
<1> SUFFICES ASSUME TypeInv, PinInv, [Next]_vars
             PROVE  PinInv'
  OBVIOUS
<1> USE DEF TypeInv, TypeOK, AddrKnown, Entry, PinInv, StampsPast,
            MissedHonestly
<1>1. ASSUME NEW t \in Thread, NEW h \in Host, CacheHit(t, h)
      PROVE  PinInv'
  BY <1>1 DEF CacheHit, Goto
<1>2. ASSUME NEW t \in Thread, NEW h \in Host, CacheMiss(t, h)
      PROVE  PinInv'
  BY <1>2 DEF CacheMiss, Expired
<1>3. ASSUME NEW t \in Thread, LookupFails(t)
      PROVE  PinInv'
  BY <1>3 DEF LookupFails, Goto
<1>4. ASSUME NEW t \in Thread, NEW ips \in Answers, Lookup(t, ips)
      PROVE  PinInv'
  BY <1>4 DEF Lookup, Goto
<1>5. ASSUME NEW t \in Thread, Blocked(t)
      PROVE  PinInv'
  BY <1>5 DEF Blocked, Goto
<1>6. ASSUME NEW t \in Thread, Passed(t)
      PROVE  PinInv'
  BY <1>6 DEF Passed, Goto
<1>7. ASSUME NEW t \in Thread, cacheIP(t)
      PROVE  PinInv'
  <2>1. \A h \in Host : \A e \in cache'[h] : e.timestamp = now \/ e \in cache[h]
    BY <1>7 DEF cacheIP
  <2>2. StampsPast'
    BY <1>7, <2>1 DEF cacheIP
  <2>3. \A u \in Thread : pc'[u] \in {"lookup", "validate", "store"}
                          => pc[u] \in {"lookup", "validate", "store"}
    BY <1>7 DEF cacheIP, Goto
  <2>4. MissedHonestly'
    BY <1>7, <2>1, <2>3 DEF cacheIP
  <2> QED BY <2>2, <2>4
<1>8. ASSUME NEW t \in Thread, dialIP(t)
      PROVE  PinInv'
  BY <1>8 DEF dialIP, Goto
<1>9. CASE Tick
  BY <1>9 DEF Tick
<1>10. CASE UNCHANGED vars
  BY <1>10 DEF vars
<1> QED BY <1>1, <1>2, <1>3, <1>4, <1>5, <1>6, <1>7, <1>8, <1>9, <1>10
     DEF Next, Step

\* DNS pinning holds up under concurrency: cacheIP replaces an entry that is
\* still fresh only for a dial which had missed before the entry was stored.
THEOREM FreshPinsStay == Spec => PinMovedOnlyByOverlap
<1> DEFINE Moves ==
      \A t \in Thread : \A e \in cache[host[t]] :
          pc[t] = "store" /\ cache'[host[t]] # cache[host[t]]
          => Expired(e) \/ missAt[t] <= e.timestamp
<1>1. TypeInv /\ PinInv => Moves
  BY DEF TypeInv, TypeOK, Entry, PinInv, MissedHonestly, Expired
<1>2. TypeInv /\ PinInv /\ [Next]_vars => [Moves]_vars
  BY <1>1
<1> QED BY TypeInit, TypeStep, PinInit, PinStep, <1>2, PTL
     DEF Spec, PinMovedOnlyByOverlap
=============================================================================
