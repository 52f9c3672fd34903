---------------------------- MODULE Http_proofs ----------------------------
(***************************************************************************)
(* Proofs about Http, for any requests, hosts, redirects, timeouts and     *)
(* body sizes, over what SecureDialer_proofs shows of the dialer.          *)
(***************************************************************************)
EXTENDS Http, SecureDialer_proofs

USE RequestsAssumption, HttpBoundsAssumption, SaysAssumption

-----------------------------------------------------------------------------
(* The steps of a request.  Whatever it does to the dialer is a step of    *)
(* the dialer, so that what holds of every dialer holds of this one.       *)

HttpType ==
    /\ req \in Requests
    /\ phase \in {"start", "connecting", "awaiting", "reused", "reading", "done"}
    /\ via \in Seq(Host)
    /\ phase \notin {"start", "done"} => via # <<>>
    /\ mine \subseteq Thread
    /\ sent \in Nat /\ left \in Nat /\ body \in Nat

\* Only a hop that has no connection has a dial; without protection none has.
DialsWhileConnecting ==
    /\ mine # {} => phase = "connecting" /\ req.protected
    /\ \A t, u \in mine : t = u

HttpInv == HttpType /\ DialsWhileConnecting

LEMMA TargetIsHost ==
    ASSUME HttpType, phase \notin {"start", "done"}
    PROVE  Target \in Host
  BY DEF HttpType, Target

LEMMA DialerStep == HttpInv /\ [HttpNext]_allVars => [Next]_vars
<1> SUFFICES ASSUME HttpInv, [HttpNext]_allVars
             PROVE  [Next]_vars
  OBVIOUS
<1>1. ASSUME NEW t \in Thread, StartDial(t)
      PROVE  Next
  BY <1>1, TargetIsHost DEF StartDial, HttpInv, Next
<1>2. ASSUME NEW t \in Thread, DialStep(t)
      PROVE  Next
  BY <1>2 DEF DialStep, DialGoesOn, DialFails, DialConnects, Next, Step
<1>3. CASE Clock
  BY <1>3 DEF Clock, Next
<1>4. CASE UNCHANGED allVars
  BY <1>4 DEF allVars
<1>5. CASE \/ Invalid \/ Do \/ TakeIdle \/ PlainDial
           \/ Stale \/ ExchangeFails \/ TooManyRedirects
           \/ \E h \in Host : Follow(h)
           \/ \E n \in 0..MaxSent : Respond(n)
           \/ ReadOver \/ ReadFails
           \/ \E n \in 0..MaxSent, eof \in BOOLEAN : ReadChunk(n, eof)
           \/ TimesOut
  BY <1>5 DEF Invalid, Do, TakeIdle, PlainDial, Stale, ExchangeFails,
     TooManyRedirects, Follow, Respond, ReadOver, ReadFails, ReadChunk, TimesOut
<1> QED BY <1>1, <1>2, <1>3, <1>4, <1>5, [HttpNext]_allVars DEF HttpNext

-----------------------------------------------------------------------------
(* The body.                                                               *)

BodyInv ==
    /\ phase = "reading" => body + left = MaxBodySize
    /\ phase \notin {"reading", "done"} => body = 0
    /\ BodyIsWholeOrFlagged

LEMMA ErrorCodeIsError ==
    ASSUME NEW cause
    PROVE  ErrorCode(cause) \notin {"ok", "truncated"}
  BY DEF ErrorCode

LEMMA RequestInit == HttpInit => HttpInv /\ BodyInv
  BY DEF HttpInit, HttpInv, HttpType, DialsWhileConnecting, BodyInv,
     BodyIsWholeOrFlagged

\* An error ends a hop that has not begun to read.
LEMMA ReturnsError ==
    ASSUME HttpInv, BodyInv, phase \notin {"reading", "done"},
           NEW code, code \notin {"ok", "truncated"}, Return(code),
           UNCHANGED <<hop, reader>>
    PROVE  HttpInv' /\ BodyInv'
  BY DEF Return, HttpInv, HttpType, DialsWhileConnecting, BodyInv,
     BodyIsWholeOrFlagged, hop, reader

LEMMA RequestStep ==
    ASSUME HttpInv, BodyInv, [HttpNext]_allVars
    PROVE  HttpInv' /\ BodyInv'
<1> USE DEF HttpInv, HttpType, DialsWhileConnecting, BodyInv,
     BodyIsWholeOrFlagged, hop, reader
<1>1. CASE Invalid
  BY <1>1, ReturnsError DEF Invalid
<1>2. CASE Do
  <2>1. req.url \in Host
    BY <1>2 DEF Do
  <2> QED BY <1>2, <2>1 DEF Do
<1>3. CASE TakeIdle
  BY <1>3 DEF TakeIdle
<1>4. CASE PlainDial
  <2>1. ASSUME NEW cause, Return(ErrorCode(cause))
        PROVE  HttpInv' /\ BodyInv'
    <3>1. ErrorCode(cause) \notin {"ok", "truncated"}
      BY ErrorCodeIsError
    <3> QED BY <1>4, <2>1, <3>1, ReturnsError DEF PlainDial
  <2>2. CASE phase' = "awaiting" /\ UNCHANGED <<result, mine>>
    BY <1>4, <2>2 DEF PlainDial
  <2> QED BY <1>4, <2>1, <2>2 DEF PlainDial
<1>5. ASSUME NEW t \in Thread, StartDial(t)
      PROVE  HttpInv' /\ BodyInv'
  BY <1>5 DEF StartDial
<1>6. ASSUME NEW t \in Thread, NEW cause, DialFailed(t, cause)
      PROVE  HttpInv' /\ BodyInv'
  <2>1. CASE t \in mine
    <3>1. ErrorCode(cause) \notin {"ok", "truncated"} /\ phase = "connecting"
      BY <2>1, ErrorCodeIsError
    <3>2. Return(ErrorCode(cause)) /\ UNCHANGED <<hop, reader>>
      BY <1>6, <2>1 DEF DialFailed
    <3> QED BY <3>1, <3>2, ReturnsError
  <2>2. CASE t \notin mine
    BY <1>6, <2>2 DEF DialFailed
  <2> QED BY <2>1, <2>2
<1>7. ASSUME NEW t \in Thread, DialFails(t)
      PROVE  HttpInv' /\ BodyInv'
  BY <1>6, <1>7 DEF DialFails
<1>8. ASSUME NEW t \in Thread, DialConnects(t)
      PROVE  HttpInv' /\ BodyInv'
  <2>1. CASE phase = "connecting" /\ host[t] = Target
    BY <1>8, <2>1 DEF DialConnects
  <2>2. CASE ~(phase = "connecting" /\ host[t] = Target)
    BY <1>8, <2>2 DEF DialConnects
  <2> QED BY <2>1, <2>2
<1>9. CASE UNCHANGED httpVars
  BY <1>9 DEF httpVars
<1>10. CASE Stale
  BY <1>10 DEF Stale
<1>11. CASE ExchangeFails
  BY <1>11, ErrorCodeIsError, ReturnsError DEF ExchangeFails, Awaiting
<1>12. CASE TooManyRedirects
  BY <1>12, ErrorCodeIsError, ReturnsError DEF TooManyRedirects, Awaiting
<1>13. ASSUME NEW h \in Host, Follow(h)
       PROVE  HttpInv' /\ BodyInv'
  <2>1. via' \in Seq(Host) /\ via' # <<>>
    BY <1>13 DEF Follow
  <2> QED BY <1>13, <2>1 DEF Follow, Awaiting
<1>14. ASSUME NEW n \in 0..MaxSent, Respond(n)
       PROVE  HttpInv' /\ BodyInv'
  BY <1>14 DEF Respond, Awaiting
<1>15. CASE ReadOver
  BY <1>15 DEF ReadOver, Return
<1>16. CASE ReadFails
  BY <1>16 DEF ReadFails, Return
<1>17. ASSUME NEW n \in 0..MaxSent, NEW eof \in BOOLEAN, ReadChunk(n, eof)
       PROVE  HttpInv' /\ BodyInv'
  <2>1. /\ sent' = sent - n /\ left' = left - n /\ body' = body + n
        /\ phase = "reading" /\ n <= left /\ n <= sent /\ mine = {}
        /\ UNCHANGED hop /\ (eof => sent' = 0)
    BY <1>17 DEF ReadChunk
  <2>2. sent' \in Nat /\ left' \in Nat /\ body' \in Nat
        /\ body' + left' = MaxBodySize
    BY <2>1
  <2>3. CASE eof
    BY <1>17, <2>1, <2>2, <2>3 DEF ReadChunk, Return
  <2>4. CASE ~eof /\ left' = 0 /\ sent' > 0
    <3>1. body' = MaxBodySize
      BY <2>2, <2>4
    <3> QED BY <1>17, <2>1, <2>2, <2>4, <3>1 DEF ReadChunk, Return
  <2>5. CASE ~eof /\ ~(left' = 0 /\ sent' > 0)
    BY <1>17, <2>1, <2>2, <2>5 DEF ReadChunk
  <2> QED BY <2>3, <2>4, <2>5
<1>18. CASE TimesOut
  <2>1. CASE (phase = "connecting" \/ Awaiting) /\ Return("TIMEOUT") /\ UNCHANGED body
    BY <1>18, <2>1, ReturnsError DEF TimesOut, Awaiting
  <2>2. CASE phase = "reading" /\ Return("READ_BODY_FAILED") /\ body' = 0
    BY <1>18, <2>2 DEF TimesOut, Return
  <2> QED BY <1>18, <2>1, <2>2 DEF TimesOut
<1>19. ASSUME NEW t \in Thread, DialStep(t)
       PROVE  HttpInv' /\ BodyInv'
  BY <1>7, <1>8, <1>9, <1>19 DEF DialStep, DialGoesOn
<1>20. CASE Clock \/ UNCHANGED allVars
  BY <1>9, <1>20 DEF Clock, allVars
<1> QED BY <1>1, <1>2, <1>3, <1>4, <1>5, <1>10, <1>11, <1>12, <1>13, <1>14, <1>15,
     <1>16, <1>17, <1>18, <1>19, <1>20, [HttpNext]_allVars DEF HttpNext

LEMMA RequestInvariant == HttpSpec => [](HttpInv /\ BodyInv)
  BY RequestInit, RequestStep, PTL DEF HttpSpec

LEMMA DialerInvariant == HttpSpec => [](TypeInv /\ ValidInv)
<1>1. HttpInit => TypeInv /\ ValidInv
  BY TypeInit, ValidInit DEF HttpInit
<1>2. HttpInv /\ TypeInv /\ ValidInv /\ [HttpNext]_allVars => TypeInv' /\ ValidInv'
  BY DialerStep, TypeStep, ValidStep
<1> QED BY <1>1, <1>2, RequestInvariant, PTL DEF HttpSpec

\* http_request: whatever the peers redirect to and DNS answers, no dial of a
\* protected request, one left behind by its hop included, reaches a forbidden
\* address.
THEOREM NoForbiddenHop == HttpSpec => []NoForbiddenDial
<1>1. ValidInv => NoForbiddenDial
  BY ValidatedIsNotForbidden DEF ValidInv, DialledValidated, NoForbiddenDial
<1> QED BY <1>1, DialerInvariant, PTL

\* LimitedReader: for every limit and every way a body arrives in chunks, what
\* is returned is the whole body, exactly the limit and flagged, or nothing
\* and an error.
THEOREM BodyHolds == HttpSpec => []BodyIsWholeOrFlagged
<1>1. BodyInv => BodyIsWholeOrFlagged
  BY DEF BodyInv
<1> QED BY <1>1, RequestInvariant, PTL

-----------------------------------------------------------------------------
(* One address per host.  A request that is over before a pin expires      *)
(* misses for a host only once: the dial that missed is the only one to    *)
(* that host until it has stored its answer, and every other dial, before  *)
(* or after, takes the address from the cache.                             *)

Short == req.protected /\ timeout <= CacheTTL

Pending(t) == pc[t] \in {"lookup", "validate", "store"}

Pins(h, a) == \E e \in cache[h] : e.ip = a

MissesOnce ==
    \A t \in Thread : Pending(t) =>
        /\ cache[host[t]] = {}
        /\ \A u \in Thread : Pending(u) /\ host[u] = host[t] => u = t
        /\ phase # "done" =>
              phase = "connecting" /\ t \in mine /\ host[t] = Target

DialsPinned == \A t \in Thread : pc[t] = "dialing" => Pins(host[t], addr[t])
DialledPinned == \A d \in dialled : Pins(d[1], d[2])
OnePin == \A h \in Host : \A e, f \in cache[h] : e = f
ConnsDialled == conns \subseteq dialled

PinnedInv ==
    Short => MissesOnce /\ DialsPinned /\ DialledPinned /\ OnePin /\ ConnsDialled

\* Steps that begin no dial and store nothing.
LEMMA MissesOnceKept ==
    ASSUME MissesOnce, UNCHANGED <<cache, host>>,
           \A t \in Thread : Pending(t)' => Pending(t),
           \/ phase' = "done"
           \/ UNCHANGED <<phase, mine, via>>
           \/ \A t \in Thread : ~Pending(t)
    PROVE  MissesOnce'
  BY DEF MissesOnce, Target

\* Steps of PerformHTTPRequest itself.
LEMMA HopKeeps ==
    ASSUME PinnedInv, Short, Short', UNCHANGED <<vars, conns>>,
           phase' = "done" \/ \A t \in Thread : ~Pending(t)
    PROVE  PinnedInv'
<1>1. MissesOnce /\ DialsPinned /\ DialledPinned /\ OnePin /\ ConnsDialled
  BY DEF PinnedInv
<1>2. MissesOnce'
  BY <1>1, MissesOnceKept DEF vars, Pending
<1> QED BY <1>1, <1>2 DEF PinnedInv, DialsPinned, DialledPinned, OnePin,
         ConnsDialled, Pins, vars

\* Steps of a dial that store nothing: t ends its dial or goes on, or it has
\* dialled what is pinned.
LEMMA DialKeeps ==
    ASSUME PinnedInv, Short, Short', UNCHANGED <<now, cache, host>>,
           NEW t \in Thread, pc'[t] # "dialing",
           Pending(t)' => Pending(t),
           \A u \in Thread \ {t} : pc'[u] = pc[u] /\ addr'[u] = addr[u],
           \/ UNCHANGED <<dialled, conns>>
           \/ /\ pc[t] = "dialing"
              /\ dialled' = dialled \cup {<<host[t], addr[t]>>}
              /\ conns' \subseteq conns \cup {<<host[t], addr[t]>>},
           \/ phase' = "done"
           \/ UNCHANGED <<phase, mine, via>>
           \/ \A u \in Thread : ~Pending(u)
    PROVE  PinnedInv'
<1>1. MissesOnce /\ DialsPinned /\ DialledPinned /\ OnePin /\ ConnsDialled
  BY DEF PinnedInv
<1>2. MissesOnce'
  BY <1>1, MissesOnceKept DEF Pending
<1>3. DialsPinned'
  BY <1>1 DEF DialsPinned, Pins
<1>4. DialledPinned'
  BY <1>1 DEF DialledPinned, DialsPinned, Pins
<1>5. OnePin' /\ ConnsDialled'
  BY <1>1 DEF OnePin, ConnsDialled
<1> QED BY <1>2, <1>3, <1>4, <1>5 DEF PinnedInv

\* Before the deadline of a short request no entry has expired.
LEMMA NoneExpired ==
    ASSUME HttpInv, TypeInv, Short, ~Late, NEW h \in Host, NEW e \in cache[h]
    PROVE  ~Expired(e)
<1>1. e \in Entry /\ now \in Nat
  BY DEF TypeInv, TypeOK
<1>2. e.timestamp \in Nat
  BY <1>1 DEF Entry
<1>3. timeout \in Int
  BY DEF timeout, HttpInv, HttpType
<1>4. now < CacheTTL
  BY <1>1, <1>3, TTLAssumption DEF Short, Late
<1> QED BY <1>1, <1>2, <1>4, TTLAssumption DEF Expired

LEMMA PinnedStep ==
    ASSUME HttpInv, TypeInv, PinnedInv, [HttpNext]_allVars
    PROVE  PinnedInv'
<1> SUFFICES ASSUME Short' PROVE PinnedInv'
  BY DEF PinnedInv
<1>0. UNCHANGED req
  BY DEF HttpNext, Invalid, Do, TakeIdle, PlainDial, StartDial, DialStep,
     DialGoesOn, DialFails, DialFailed, DialConnects, Stale, ExchangeFails,
     TooManyRedirects, Follow, Respond, ReadOver, ReadFails, ReadChunk, TimesOut,
     Clock, allVars, httpVars, hop
<1>1. Short
  BY <1>0 DEF Short, timeout
<1>2. MissesOnce /\ DialsPinned /\ DialledPinned /\ OnePin /\ ConnsDialled
  BY <1>1 DEF PinnedInv
<1>3. ASSUME phase \notin {"connecting", "done"}
      PROVE  \A t \in Thread : ~Pending(t)
  BY <1>2, <1>3 DEF MissesOnce
<1>4. CASE Invalid \/ ExchangeFails \/ TooManyRedirects \/ ReadOver \/ ReadFails \/ TimesOut
  BY <1>1, <1>4, HopKeeps DEF Invalid, ExchangeFails, TooManyRedirects, ReadOver,
     ReadFails, TimesOut, Return
<1>5. CASE \/ Do \/ Stale \/ \E h \in Host : Follow(h)
           \/ \E n \in 0..MaxSent : Respond(n)
           \/ \E n \in 0..MaxSent, eof \in BOOLEAN : ReadChunk(n, eof)
  BY <1>1, <1>3, <1>5, HopKeeps DEF Do, Stale, Follow, Respond, ReadChunk, Awaiting
<1>6. CASE TakeIdle
  <2>1. PICK c \in conns : c[1] = Target
    BY <1>6 DEF TakeIdle
  <2>2. cache[Target] # {}
    BY <1>2, <2>1 DEF ConnsDialled, DialledPinned, Pins
  <2>3. \A t \in Thread : ~Pending(t)
    BY <1>2, <1>6, <2>2 DEF MissesOnce, TakeIdle
  <2> QED BY <1>1, <1>6, <2>3, HopKeeps DEF TakeIdle
<1>7. CASE PlainDial
  BY <1>1, <1>7 DEF PlainDial, Short
<1>8. ASSUME NEW t \in Thread, StartDial(t)
      PROVE  PinnedInv'
  <2>1. /\ Target \in Host /\ ~Late /\ mine = {} /\ mine' = {t}
        /\ phase = "connecting" /\ UNCHANGED <<phase, via, conns>>
    BY <1>8, TargetIsHost DEF StartDial, HttpInv, hop
  <2>2. \A u \in Thread : ~Pending(u)
    BY <1>2, <2>1 DEF MissesOnce
  <2>3. CASE CacheHit(t, Target)
    <3>1. PICK e \in cache[Target] : addr' = [addr EXCEPT ![t] = e.ip]
      BY <2>3 DEF CacheHit
    <3>2. /\ pc' = [pc EXCEPT ![t] = "dialing"]
          /\ host' = [host EXCEPT ![t] = Target]
          /\ UNCHANGED <<cache, dialled>>
      BY <2>3 DEF CacheHit, Goto
    <3>3. MissesOnce'
      BY <2>2, <3>2 DEF MissesOnce, Pending, TypeInv, TypeOK
    <3>4. DialsPinned'
      BY <1>2, <3>1, <3>2 DEF DialsPinned, Pins, TypeInv, TypeOK
    <3> QED BY <1>2, <2>1, <3>2, <3>3, <3>4
            DEF PinnedInv, DialledPinned, OnePin, ConnsDialled, Pins
  <2>4. CASE CacheMiss(t, Target)
    <3>1. /\ pc'[t] \in {"lookup", "validate"} /\ host'[t] = Target
          /\ \A u \in Thread \ {t} :
                pc'[u] = pc[u] /\ host'[u] = host[u] /\ addr'[u] = addr[u]
          /\ UNCHANGED <<cache, dialled>>
      BY <2>4 DEF CacheMiss, TypeInv, TypeOK
    <3>2. cache[Target] = {}
      BY <1>1, <2>1, <2>4, NoneExpired DEF CacheMiss
    <3>3. \A u \in Thread : Pending(u)' => u = t
      BY <2>2, <3>1 DEF Pending
    <3>4. Target' = Target
      BY <2>1 DEF Target
    <3>5. MissesOnce'
      BY <2>1, <3>1, <3>2, <3>3, <3>4 DEF MissesOnce
    <3>6. DialsPinned'
      BY <1>2, <3>1 DEF DialsPinned, Pins
    <3> QED BY <1>2, <2>1, <3>1, <3>5, <3>6
            DEF PinnedInv, DialledPinned, OnePin, ConnsDialled, Pins
  <2> QED BY <1>8, <2>3, <2>4 DEF StartDial
<1>9. ASSUME NEW t \in Thread, NEW cause, DialFailed(t, cause)
      PROVE  /\ UNCHANGED conns
             /\ phase' = "done" \/ UNCHANGED <<phase, mine, via>>
  BY <1>9 DEF DialFailed, Return, hop
<1>10. ASSUME NEW t \in Thread, DialFails(t)
       PROVE  PinnedInv'
  <2>1. /\ UNCHANGED conns
        /\ phase' = "done" \/ UNCHANGED <<phase, mine, via>>
    BY <1>9, <1>10 DEF DialFails
  <2>2. /\ pc'[t] = "idle" /\ UNCHANGED <<now, cache, host, addr>>
        /\ \A u \in Thread \ {t} : pc'[u] = pc[u]
        /\ \/ UNCHANGED dialled
           \/ /\ pc[t] = "dialing"
              /\ dialled' = dialled \cup {<<host[t], addr[t]>>}
    BY <1>10 DEF DialFails, LookupFails, Blocked, dialIP, Goto, TypeInv, TypeOK
  <2> QED BY <1>1, <2>1, <2>2, DialKeeps DEF Pending
<1>11. ASSUME NEW t \in Thread, DialConnects(t)
       PROVE  PinnedInv'
  <2>1. /\ pc[t] = "dialing" /\ pc'[t] = "idle"
        /\ UNCHANGED <<now, cache, host, addr>>
        /\ \A u \in Thread \ {t} : pc'[u] = pc[u]
        /\ dialled' = dialled \cup {<<host[t], addr[t]>>}
        /\ conns' = conns \cup {<<host[t], addr[t]>>}
    BY <1>11 DEF DialConnects, dialIP, Goto, TypeInv, TypeOK
  <2>2. cache[host[t]] # {}
    BY <1>2, <2>1 DEF DialsPinned, Pins
  <2>3. UNCHANGED <<phase, mine, via>> \/ \A u \in Thread : ~Pending(u)
    <3>1. CASE phase = "connecting" /\ host[t] = Target
      BY <1>2, <2>2, <3>1 DEF MissesOnce
    <3>2. CASE ~(phase = "connecting" /\ host[t] = Target)
      BY <1>11, <3>2 DEF DialConnects, hop
    <3> QED BY <3>1, <3>2
  <2> QED BY <1>1, <2>1, <2>3, DialKeeps DEF Pending
<1>12. ASSUME NEW t \in Thread, DialGoesOn(t)
       PROVE  PinnedInv'
  <2>0. UNCHANGED <<phase, mine, via, conns>>
    BY <1>12 DEF DialGoesOn, httpVars
  <2>1. CASE \/ \E ips \in Answers : Lookup(t, ips)
             \/ Passed(t)
    <3>1. /\ Pending(t) /\ pc'[t] # "dialing"
          /\ UNCHANGED <<now, cache, host, dialled>>
          /\ \A u \in Thread \ {t} : pc'[u] = pc[u] /\ addr'[u] = addr[u]
      BY <2>1 DEF Lookup, Passed, Goto, Pending, TypeInv, TypeOK
    <3> QED BY <1>1, <2>0, <3>1, DialKeeps
  <2>2. CASE cacheIP(t)
    <3>1. /\ pc[t] = "store" /\ pc' = [pc EXCEPT ![t] = "dialing"]
          /\ cache' = [cache EXCEPT ![host[t]] =
                          {[ip |-> addr[t], timestamp |-> now]}]
          /\ UNCHANGED <<now, host, addr, dialled>>
      BY <2>2 DEF cacheIP, Goto
    <3>2. Pending(t) /\ cache[host[t]] = {} /\ host[t] \in Host
      BY <1>2, <3>1 DEF Pending, MissesOnce, TypeInv, TypeOK
    <3>3. Pins(host[t], addr[t])'
      BY <3>1, <3>2 DEF Pins, TypeInv, TypeOK
    <3>4. ASSUME NEW h, NEW a, Pins(h, a)
          PROVE  h # host[t] /\ cache'[h] = cache[h]
      BY <3>1, <3>2, <3>4 DEF Pins, TypeInv, TypeOK
    <3>5. \A h, a : Pins(h, a) => Pins(h, a)'
      BY <3>4 DEF Pins
    <3>6. DialsPinned' /\ DialledPinned'
      BY <1>2, <3>1, <3>3, <3>5 DEF DialsPinned, DialledPinned, TypeInv, TypeOK
    <3>7. OnePin' /\ ConnsDialled'
      BY <1>2, <2>0, <3>1, <3>2 DEF OnePin, ConnsDialled, TypeInv, TypeOK
    <3>8. \A u \in Thread : Pending(u)' => /\ Pending(u) /\ host[u] # host[t]
      BY <1>2, <3>1, <3>2 DEF MissesOnce, Pending, TypeInv, TypeOK
    <3>9. \A u \in Thread : Pending(u)' => cache'[host[u]] = cache[host[u]]
      BY <3>1, <3>8 DEF TypeInv, TypeOK
    <3>10. Target' = Target
      BY <2>0 DEF Target
    <3>11. MissesOnce'
      BY <1>2, <2>0, <3>1, <3>8, <3>9, <3>10 DEF MissesOnce
    <3> QED BY <3>6, <3>7, <3>11 DEF PinnedInv
  <2> QED BY <1>12, <2>1, <2>2 DEF DialGoesOn
<1>13. CASE Clock \/ UNCHANGED allVars
  <2>1. UNCHANGED <<cache, pc, host, addr, dialled, phase, mine, via, conns>>
    BY <1>13 DEF Clock, Tick, allVars, vars, httpVars
  <2>2. MissesOnce'
    BY <1>2, <2>1, MissesOnceKept DEF Pending
  <2> QED BY <1>2, <2>1, <2>2 DEF PinnedInv, DialsPinned, DialledPinned, OnePin,
          ConnsDialled, Pins
<1> QED BY <1>4, <1>5, <1>6, <1>7, <1>8, <1>10, <1>11, <1>12, <1>13,
     [HttpNext]_allVars DEF HttpNext, DialStep

\* DNS rebinding: no protected request with a timeout within the lifetime of a
\* pin dials one host at two addresses, over any number of redirects, dials
\* left behind and goroutines, and with any answers of DNS.
THEOREM OneAddressHolds == HttpSpec => []OneAddressPerHost
<1>1. HttpInit => PinnedInv
  BY DEF HttpInit, Init, PinnedInv, MissesOnce, Pending, DialsPinned,
     DialledPinned, OnePin, ConnsDialled
<1>2. HttpInv /\ TypeInv /\ PinnedInv /\ [HttpNext]_allVars => PinnedInv'
  BY PinnedStep
<1>3. TypeInv /\ PinnedInv => OneAddressPerHost
  <2> SUFFICES ASSUME TypeInv, PinnedInv, Short,
                      NEW d \in dialled, NEW e \in dialled, d[1] = e[1]
               PROVE  d = e
    BY DEF OneAddressPerHost, Short
  <2>1. d \in Host \X Addr /\ e \in Host \X Addr
    BY DEF TypeInv, TypeOK
  <2>2. d[2] = e[2]
    BY <2>1 DEF PinnedInv, DialledPinned, OnePin, Pins
  <2> QED BY <2>1, <2>2
<1> QED BY <1>1, <1>2, <1>3, RequestInvariant, DialerInvariant, PTL DEF HttpSpec
=============================================================================
