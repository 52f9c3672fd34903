---------------------------- MODULE Retry_proofs ----------------------------
(***************************************************************************)
(* Proofs about Retry, for any RoundTrips, transports, width of a Duration *)
(* and Retry-After, over what SecureDialer_proofs shows of the dialer.     *)
(***************************************************************************)
EXTENDS Retry, SecureDialer_proofs, FiniteSetTheorems

USE RetryAssumption, TransportsAssumption, WidthAssumption

-----------------------------------------------------------------------------
(* Arithmetic.  A power of two counts the subsets of a set.                *)

LEMMA PowerIsPositive ==
    ASSUME NEW n \in Nat
    PROVE  2^n \in Nat \ {0}
<1>1. IsFiniteSet(1..n) /\ Cardinality(1..n) = n
  BY FS_Interval
<1>2. /\ IsFiniteSet(SUBSET (1..n))
      /\ Cardinality(SUBSET (1..n)) = 2^n
  BY <1>1, FS_SUBSET
<1>3. SUBSET (1..n) # {}
  OBVIOUS
<1> QED BY <1>2, <1>3, FS_CardinalityType, FS_EmptySet

LEMMA HalfRangeIsPositive == HalfRange \in Nat \ {0}
  BY PowerIsPositive DEF HalfRange

LEMMA WrapFits ==
    ASSUME NEW x \in Int
    PROVE  Wrap(x) \in (0 - HalfRange)..(HalfRange - 1)
  BY HalfRangeIsPositive DEF Wrap

LEMMA WrapIsIdentity ==
    ASSUME NEW x \in (0 - HalfRange)..(HalfRange - 1)
    PROVE  Wrap(x) = x
  BY HalfRangeIsPositive DEF Wrap

LEMMA BackoffIsDuration ==
    ASSUME transport \in Transports
    PROVE  /\ initialBackoff \in Duration /\ maxBackoff \in Duration
           /\ maxRetries \in Int
  BY DEF initialBackoff, maxBackoff, maxRetries, OrDefault

LEMMA ExactIsNat ==
    ASSUME transport \in Transports, NEW n \in Nat
    PROVE  initialBackoff * 2^n \in Nat
<1>1. initialBackoff \in Nat /\ 2^n \in Nat
  BY BackoffIsDuration, HalfRangeIsPositive, PowerIsPositive DEF Duration
<1> HIDE DEF initialBackoff
<1> QED BY <1>1

LEMMA CappedFits ==
    ASSUME transport \in Transports, NEW x \in Int
    PROVE  /\ Capped(Wrap(x)) \in (0 - HalfRange)..(HalfRange - 1)
           /\ Capped(Wrap(x)) <= maxBackoff
           /\ Capped(Wrap(x)) < 0 => Wrap(x) < 0
           /\ x \in Duration => Capped(Wrap(x)) = IF x < maxBackoff THEN x ELSE maxBackoff
<1>1. Wrap(x) \in (0 - HalfRange)..(HalfRange - 1) /\ maxBackoff \in Duration
  BY WrapFits, BackoffIsDuration
<1>2. x \in Duration => Wrap(x) = x
  BY HalfRangeIsPositive, WrapIsIdentity DEF Duration
<1> HIDE DEF maxBackoff
<1> QED BY <1>1, <1>2, HalfRangeIsPositive DEF Capped, Duration

\* The reference for the wait before attempt n + 1, for a header hd.
BackoffMatches(n, hd, w) ==
    LET exact == initialBackoff * 2^n
        fits(d) == d < HalfRange
    IN  /\ w <= IF hd.kind = "past" THEN initialBackoff ELSE maxBackoff
        /\ hd.kind = "none" /\ fits(exact)
              => w = IF exact < maxBackoff THEN exact ELSE maxBackoff
        /\ w < 0 => \/ hd.kind = "none" /\ ~fits(exact)
                    \/ hd.kind = "seconds" /\ (hd.n < 0 \/ ~fits(hd.n))

\* calculateBackoff gives a Duration, and the one the reference asks for.
LEMMA BackoffIsRight ==
    ASSUME transport \in Transports, NEW n \in Nat, NEW hd \in Headers
    PROVE  /\ calculateBackoff(n, hd) \in (0 - HalfRange)..(HalfRange - 1)
           /\ BackoffMatches(n, hd, calculateBackoff(n, hd))
<1> DEFINE exact == initialBackoff * 2^n
<1>0. exact \in Nat /\ initialBackoff \in Duration /\ maxBackoff \in Duration
  BY ExactIsNat, BackoffIsDuration
<1>h. HalfRange \in Nat \ {0}
  BY HalfRangeIsPositive
<1>1. CASE hd.kind = "seconds"
  <2>1. hd.n \in RetryAfter
    BY <1>1 DEF Headers
  <2>2. calculateBackoff(n, hd) = Capped(Wrap(hd.n))
    BY <1>1 DEF calculateBackoff
  <2>n. hd.n \in Int
    BY <2>1
  <2>3. Wrap(hd.n) < 0 => hd.n < 0 \/ ~(hd.n < HalfRange)
    BY <1>h, <2>n, WrapIsIdentity
  <2> QED BY <1>1, <2>n, <2>2, <2>3, CappedFits DEF BackoffMatches
<1>2. CASE hd.kind = "date"
  <2>1. hd.n \in Duration
    BY <1>2 DEF Headers
  <2>2. calculateBackoff(n, hd) = Capped(Wrap(hd.n))
    BY <1>2 DEF calculateBackoff
  <2>3. hd.n \in Int /\ ~(Wrap(hd.n) < 0)
    BY <1>h, <2>1, WrapIsIdentity DEF Duration
  <2> QED BY <1>2, <2>2, <2>3, CappedFits DEF BackoffMatches
<1>3. CASE hd.kind = "past"
  <2>1. calculateBackoff(n, hd) = initialBackoff
    BY <1>3 DEF calculateBackoff
  <2> HIDE DEF initialBackoff
  <2> QED BY <1>0, <1>h, <1>3, <2>1 DEF BackoffMatches, Duration
<1>4. CASE hd.kind = "none"
  <2>1. calculateBackoff(n, hd) = Capped(Wrap(exact))
    BY <1>4 DEF calculateBackoff
  <2>2. Wrap(exact) < 0 => ~(exact < HalfRange)
    BY <1>0, <1>h, WrapIsIdentity
  <2>3. exact < HalfRange => exact \in Duration
    BY <1>0, <1>h DEF Duration
  <2>4. /\ Capped(Wrap(exact)) \in (0 - HalfRange)..(HalfRange - 1)
        /\ Capped(Wrap(exact)) <= maxBackoff
        /\ Capped(Wrap(exact)) < 0 => Wrap(exact) < 0
        /\ exact \in Duration =>
              Capped(Wrap(exact)) = IF exact < maxBackoff THEN exact ELSE maxBackoff
    BY <1>0, CappedFits
  <2>5. BackoffMatches(n, hd, Capped(Wrap(exact)))
    BY <1>4, <2>2, <2>3, <2>4 DEF BackoffMatches
  <2> QED BY <2>1, <2>4, <2>5
<1>5. hd.kind \in {"none", "past", "seconds", "date"}
  BY DEF Headers
<1> QED BY <1>1, <1>2, <1>3, <1>4, <1>5

-----------------------------------------------------------------------------
(* RoundTrips.                                                             *)

TripType ==
    /\ transport \in Transports
    /\ stage \in [Trip -> {"idle", "attempt", "dialing", "exchange", "asleep"}]
    /\ url \in [Trip -> Host]
    /\ payload \in [Trip -> {"none", "replay", "once"}]
    /\ pooled \in [Trip -> BOOLEAN]
    /\ fresh \in [Trip -> BOOLEAN] /\ whole \in [Trip -> BOOLEAN]
    /\ attempt \in [Trip -> Nat]
    /\ wait \in [Trip -> (0 - HalfRange)..(HalfRange - 1)]
    /\ header \in [Trip -> Headers]
    /\ open \in [Trip -> Nat]
    /\ ended \in [Trip -> BOOLEAN]
    /\ outcome \in [Trip -> {"none", "response", "error", "nothing"}]

\* A RoundTrip is in the dialer only while it waits for its dial.
DialsInStage == \A t \in Trip : pc[t] # "idle" => stage[t] = "dialing"

\* It has returned nothing while it goes on, and it has attempts left when it
\* sleeps.
TripGoesOn(t) ==
    /\ stage[t] # "idle" => outcome[t] = "none"
    /\ attempt[t] > 0 => attempt[t] <= maxRetries
    /\ stage[t] = "asleep" => /\ attempt[t] < maxRetries
                              /\ BackoffMatches(attempt[t], header[t], wait[t])
    /\ open[t] = IF outcome[t] = "response" THEN 1 ELSE 0

\* What an attempt has offered of the body, and what the first will.
OffersBody(t) ==
    /\ (stage[t] \in {"idle", "attempt"} /\ outcome[t] = "none" /\ attempt[t] = 0) => fresh[t]
    /\ (stage[t] = "idle" /\ outcome[t] = "none") => attempt[t] = 0
    /\ (stage[t] \in {"dialing", "exchange"} \/ outcome[t] = "response") =>
          whole[t] \/ (payload[t] = "once" /\ attempt[t] > 0)

TripInv ==
    /\ TripType
    /\ DialsInStage
    /\ \A t \in Trip : TripGoesOn(t) /\ OffersBody(t)

LEMMA TripInit == RetryInit => TripInv
<1> SUFFICES ASSUME RetryInit PROVE TripInv
  OBVIOUS
<1>1. TripType
  BY HalfRangeIsPositive DEF RetryInit, All, TripType, Headers, NoHeader
<1>2. DialsInStage
  BY DEF RetryInit, Init, DialsInStage
<1>3. \A t \in Trip : TripGoesOn(t) /\ OffersBody(t)
  BY DEF RetryInit, All, TripGoesOn, OffersBody
<1> QED BY <1>1, <1>2, <1>3 DEF TripInv

\* Everything the RoundTrip u has is left alone.
Same(u) ==
    /\ stage'[u] = stage[u] /\ payload'[u] = payload[u] /\ fresh'[u] = fresh[u]
    /\ whole'[u] = whole[u] /\ attempt'[u] = attempt[u] /\ wait'[u] = wait[u]
    /\ header'[u] = header[u] /\ open'[u] = open[u] /\ outcome'[u] = outcome[u]
    /\ pc'[u] = pc[u]

\* One RoundTrip steps: only that one has to be looked at.
LEMMA TripOne ==
    ASSUME TripInv, NEW t \in Trip, TripType', UNCHANGED transport,
           \A u \in Trip \ {t} : Same(u),
           pc'[t] # "idle" => stage'[t] = "dialing",
           TripGoesOn(t)', OffersBody(t)'
    PROVE  TripInv'
<1>1. DialsInStage'
  BY DEF TripInv, DialsInStage, Same
<1>2. ASSUME NEW u \in Trip \ {t}
      PROVE  TripGoesOn(u)' /\ OffersBody(u)'
  <2>1. TripGoesOn(u) /\ OffersBody(u) /\ Same(u)
    BY DEF TripInv
  <2>2. UNCHANGED <<maxRetries, initialBackoff, maxBackoff>>
    BY DEF maxRetries, initialBackoff, maxBackoff
  <2>3. TripGoesOn(u)'
    BY <2>1, <2>2 DEF TripGoesOn, Same, BackoffMatches
  <2>4. OffersBody(u)'
    BY <2>1 DEF OffersBody, Same
  <2> QED BY <2>3, <2>4
<1> QED BY <1>1, <1>2 DEF TripInv

\* A RoundTrip returns: it leaves the dialer, and its response, if that is
\* what it returns, is the only one that is open.
LEMMA ReturnKeeps ==
    ASSUME TripInv, NEW t \in Trip, NEW what \in {"response", "error"},
           Return(t, what), stage[t] # "idle",
           UNCHANGED <<call, pooled, ended>>,
           what = "response" => stage[t] = "exchange" /\ UNCHANGED <<fresh, whole>>,
           open' = IF what = "response" THEN [open EXCEPT ![t] = @ + 1] ELSE open,
           fresh' \in [Trip -> BOOLEAN], whole' \in [Trip -> BOOLEAN],
           pc'[t] = "idle",
           \A u \in Trip \ {t} :
               fresh'[u] = fresh[u] /\ whole'[u] = whole[u] /\ pc'[u] = pc[u]
    PROVE  TripInv'
<1> USE DEF Return, call
<1>1. TripType /\ TripGoesOn(t) /\ OffersBody(t)
  BY DEF TripInv
<1>2. TripType'
  BY <1>1 DEF TripType
<1>3. \A u \in Trip \ {t} : Same(u)
  BY <1>1 DEF TripType, Same
<1>4. /\ stage'[t] = "idle" /\ outcome'[t] = what /\ attempt'[t] = attempt[t]
      /\ UNCHANGED <<transport, payload>>
  BY <1>1 DEF TripType
<1>5. open[t] = 0 /\ open'[t] = IF what = "response" THEN 1 ELSE 0
  BY <1>1 DEF TripType, TripGoesOn
<1>6. TripGoesOn(t)'
  BY <1>1, <1>4, <1>5 DEF TripGoesOn, maxRetries
<1>7. OffersBody(t)'
  BY <1>1, <1>4 DEF OffersBody
<1> QED BY <1>2, <1>3, <1>4, <1>6, <1>7, TripOne

\* The attempt is retried after a wait, or it was the last.
LEMMA RetryOrKeeps ==
    ASSUME TripInv, NEW t \in Trip, NEW what \in {"response", "error"},
           NEW hd \in Headers, RetryOr(t, hd, what),
           stage[t] \in {"attempt", "dialing", "exchange"},
           UNCHANGED <<call, pooled, ended>>,
           what = "response" => stage[t] = "exchange" /\ UNCHANGED <<fresh, whole>>,
           open' = IF what = "response" /\ ~(attempt[t] < maxRetries)
                   THEN [open EXCEPT ![t] = @ + 1] ELSE open,
           fresh' \in [Trip -> BOOLEAN], whole' \in [Trip -> BOOLEAN],
           pc'[t] = "idle",
           \A u \in Trip \ {t} :
               fresh'[u] = fresh[u] /\ whole'[u] = whole[u] /\ pc'[u] = pc[u]
    PROVE  TripInv'
<1>1. TripType /\ TripGoesOn(t) /\ OffersBody(t)
  BY DEF TripInv
<1>2. CASE ~(attempt[t] < maxRetries)
  <2>1. Return(t, what) /\ stage[t] # "idle"
    BY <1>2 DEF RetryOr
  <2>2. open' = IF what = "response" THEN [open EXCEPT ![t] = @ + 1] ELSE open
    BY <1>2
  <2> QED BY <2>1, <2>2, ReturnKeeps
<1>3. CASE attempt[t] < maxRetries
  <2>1. /\ wait' = [wait EXCEPT ![t] = calculateBackoff(attempt[t], hd)]
        /\ header' = [header EXCEPT ![t] = hd]
        /\ stage' = [stage EXCEPT ![t] = "asleep"]
        /\ UNCHANGED <<attempt, outcome>>
    BY <1>3 DEF RetryOr
  <2>2. open' = open /\ UNCHANGED <<transport, url, payload>>
    BY <1>3 DEF call
  <2>3. /\ calculateBackoff(attempt[t], hd) \in (0 - HalfRange)..(HalfRange - 1)
        /\ BackoffMatches(attempt[t], hd, calculateBackoff(attempt[t], hd))
    BY <1>1, BackoffIsRight DEF TripType
  <2>4. TripType'
    BY <1>1, <2>1, <2>2, <2>3 DEF TripType
  <2>5. \A u \in Trip \ {t} : Same(u)
    BY <1>1, <2>1, <2>2 DEF TripType, Same
  <2>6. /\ stage'[t] = "asleep" /\ header'[t] = hd
        /\ wait'[t] = calculateBackoff(attempt[t], hd)
        /\ outcome'[t] = "none" /\ outcome[t] = "none"
    BY <1>1, <2>1 DEF TripType, TripGoesOn
  <2>7. UNCHANGED <<maxRetries, initialBackoff, maxBackoff>>
    BY <2>2 DEF maxRetries, initialBackoff, maxBackoff
  <2>8. BackoffMatches(attempt[t], header[t], wait[t])'
    BY <2>1, <2>3, <2>6, <2>7 DEF BackoffMatches
  <2>9. TripGoesOn(t)'
    BY <1>1, <1>3, <2>1, <2>2, <2>6, <2>7, <2>8 DEF TripGoesOn
  <2>10. OffersBody(t)'
    BY <2>6 DEF OffersBody
  <2> QED BY <2>2, <2>4, <2>5, <2>9, <2>10, TripOne
<1> QED BY <1>2, <1>3

\* An attempt offers the body, whole if it is the first or can be repeated.
LEMMA OfferKeeps ==
    ASSUME TripInv, NEW t \in Trip, stage[t] = "attempt", Offer(t)
    PROVE  /\ fresh' \in [Trip -> BOOLEAN] /\ whole' \in [Trip -> BOOLEAN]
           /\ \A u \in Trip \ {t} : fresh'[u] = fresh[u] /\ whole'[u] = whole[u]
           /\ whole'[t] \/ (payload[t] = "once" /\ attempt[t] > 0)
<1>1. /\ TripType /\ fresh \in [Trip -> BOOLEAN] /\ whole \in [Trip -> BOOLEAN]
      /\ TripGoesOn(t) /\ OffersBody(t)
  BY DEF TripInv, TripType
<1>2. attempt[t] = 0 \/ attempt[t] > 0
  BY <1>1 DEF TripType
<1>3. attempt[t] = 0 => fresh[t]
  BY <1>1 DEF TripGoesOn, OffersBody
<1>4. whole'[t] = (fresh[t] \/ payload[t] # "once")
  BY <1>1 DEF Offer
<1>5. /\ fresh' \in [Trip -> BOOLEAN] /\ whole' \in [Trip -> BOOLEAN]
      /\ \A u \in Trip \ {t} : fresh'[u] = fresh[u] /\ whole'[u] = whole[u]
  BY <1>1 DEF Offer
<1>6. whole'[t] \/ (payload[t] = "once" /\ attempt[t] > 0)
  BY <1>2, <1>3, <1>4
<1> QED BY <1>5, <1>6

LEMMA TripDialerStep ==
    ASSUME TripInv, [RetryNext]_rtVars
    PROVE  [Next]_vars
<1>1. ASSUME NEW t \in Trip, Attempt(t)
      PROVE  [Next]_vars
  <2>1. t \in Thread /\ url[t] \in Host
    BY DEF TripInv, TripType
  <2> QED BY <1>1, <2>1 DEF Attempt, GetBodyFails, BaseReuses, BaseDials, BaseFails,
          BaseBlocked, BaseConnects, DialGoesOn, Wake, Next, Step
<1>2. ASSUME NEW t \in Thread, OtherDial(t)
      PROVE  Next
  BY <1>2 DEF OtherDial, Next
<1>3. CASE Clock \/ UNCHANGED rtVars
  BY <1>3 DEF Clock, Next, rtVars
<1>4. ASSUME NEW t \in Trip,
             \/ \E b \in {"none", "replay", "once"} : RoundTrip(t, b)
             \/ \E hd \in Headers : AnswersRetryably(t, hd)
             \/ AnswersFinally(t)
             \/ ContextEnds(t)
      PROVE  UNCHANGED vars
  BY <1>4 DEF RoundTrip, AnswersRetryably, AnswersFinally, ContextEnds
<1> QED BY <1>1, <1>2, <1>3, <1>4, [RetryNext]_rtVars DEF RetryNext

LEMMA TripStep ==
    ASSUME TripInv, TypeInv, [RetryNext]_rtVars
    PROVE  TripInv'
<1>0. TripType /\ pc \in [Thread -> {"idle", "lookup", "validate", "store", "dialing"}]
  BY DEF TripInv, TypeInv, TypeOK
<1>n. NoHeader \in Headers
  BY DEF NoHeader, Headers
<1>s. ASSUME NEW t \in Trip
      PROVE  /\ t \in Thread /\ TripGoesOn(t) /\ OffersBody(t)
             /\ pc[t] # "idle" => stage[t] = "dialing"
  BY DEF TripInv, DialsInStage
<1>1. ASSUME NEW t \in Trip, NEW b \in {"none", "replay", "once"}, RoundTrip(t, b)
      PROVE  TripInv'
  <2>1. /\ stage[t] = "idle" /\ outcome[t] = "none"
        /\ payload' = [payload EXCEPT ![t] = b]
        /\ UNCHANGED <<pc, transport, url, pooled, fresh, whole, attempt, wait,
                       header, open, ended>>
    BY <1>1 DEF RoundTrip, vars
  <2>2. /\ stage' \in [Trip -> {"idle", "attempt", "dialing", "exchange", "asleep"}]
        /\ outcome' \in [Trip -> {"none", "response", "error", "nothing"}]
        /\ \A u \in Trip \ {t} : stage'[u] = stage[u] /\ outcome'[u] = outcome[u]
        /\ \/ stage'[t] = "idle" /\ outcome'[t] = "nothing"
           \/ stage'[t] = "attempt" /\ outcome'[t] = "none"
    <3>1. CASE maxRetries < 0
      BY <1>0, <1>1, <3>1 DEF RoundTrip, TripType
    <3>2. CASE ~(maxRetries < 0)
      BY <1>0, <1>1, <3>2 DEF RoundTrip, TripType
    <3> QED BY <3>1, <3>2
  <2>3. TripType'
    BY <1>0, <2>1, <2>2 DEF TripType
  <2>4. \A u \in Trip \ {t} : Same(u)
    BY <1>0, <2>1, <2>2 DEF TripType, Same
  <2>5. TripGoesOn(t)'
    BY <1>s, <2>1, <2>2 DEF TripGoesOn, maxRetries
  <2>6. OffersBody(t)'
    BY <1>s, <2>1, <2>2 DEF OffersBody
  <2>7. pc'[t] = "idle"
    BY <1>s, <2>1
  <2> QED BY <2>1, <2>3, <2>4, <2>5, <2>6, <2>7, TripOne
<1>2. ASSUME NEW t \in Trip, GetBodyFails(t)
      PROVE  TripInv'
  BY <1>0, <1>2, <1>s, ReturnKeeps DEF GetBodyFails, TripType, vars
\* The attempt has begun.
<1>3. ASSUME NEW t \in Trip, stage[t] = "attempt", Offer(t),
             NEW there \in {"dialing", "exchange"},
             stage' = [stage EXCEPT ![t] = there],
             pc'[t] # "idle" => there = "dialing",
             \A u \in Trip \ {t} : pc'[u] = pc[u],
             UNCHANGED <<call, pooled, attempt, wait, header, open, ended, outcome>>
      PROVE  TripInv'
  <2>1. /\ fresh' \in [Trip -> BOOLEAN] /\ whole' \in [Trip -> BOOLEAN]
        /\ \A u \in Trip \ {t} : fresh'[u] = fresh[u] /\ whole'[u] = whole[u]
        /\ whole'[t] \/ (payload[t] = "once" /\ attempt[t] > 0)
    BY <1>3, OfferKeeps
  <2>2. TripType' /\ stage'[t] = there /\ UNCHANGED transport
    BY <1>0, <1>3, <2>1 DEF TripType, call
  <2>3. \A u \in Trip \ {t} : Same(u)
    BY <1>0, <1>3, <2>1 DEF TripType, Same, call
  <2>4. TripGoesOn(t)'
    BY <1>3, <1>s, <2>2 DEF TripGoesOn, maxRetries
  <2>5. OffersBody(t)'
    BY <1>3, <2>1, <2>2 DEF OffersBody, call
  <2> QED BY <1>3, <2>2, <2>3, <2>4, <2>5, TripOne
<1>4. ASSUME NEW t \in Trip, BaseReuses(t)
      PROVE  TripInv'
  BY <1>3, <1>4, <1>s DEF BaseReuses, Move, vars
<1>5. ASSUME NEW t \in Trip, BaseDials(t)
      PROVE  TripInv'
  <2>1. \A u \in Trip \ {t} : pc'[u] = pc[u]
    BY <1>0, <1>5 DEF BaseDials, CacheHit, CacheMiss, Goto
  <2> QED BY <1>3, <1>5, <2>1 DEF BaseDials, Move
<1>6. ASSUME NEW t \in Trip, BaseFails(t)
      PROVE  TripInv'
  <2>1. ASSUME stage[t] \in {"attempt", "dialing", "exchange"}, Fails(t),
               fresh' \in [Trip -> BOOLEAN], whole' \in [Trip -> BOOLEAN],
               pc'[t] = "idle",
               \A u \in Trip \ {t} :
                   fresh'[u] = fresh[u] /\ whole'[u] = whole[u] /\ pc'[u] = pc[u]
        PROVE  TripInv'
    BY <1>n, <2>1, RetryOrKeeps DEF Fails
  <2>2. CASE stage[t] = "attempt" /\ Offer(t) /\ Fails(t) /\ UNCHANGED vars
    BY <1>s, <2>1, <2>2, OfferKeeps DEF vars
  <2>3. CASE stage[t] = "exchange" /\ Fails(t) /\ UNCHANGED <<vars, fresh, whole>>
    BY <1>0, <1>s, <2>1, <2>3 DEF vars, TripType
  <2>4. CASE (LookupFails(t) \/ dialIP(t)) /\ Fails(t) /\ UNCHANGED <<fresh, whole>>
    <3>1. /\ stage[t] = "dialing" /\ pc'[t] = "idle"
          /\ \A u \in Trip \ {t} : pc'[u] = pc[u]
      BY <1>0, <1>s, <2>4 DEF LookupFails, dialIP, Goto
    <3> QED BY <1>0, <2>1, <2>4, <3>1 DEF TripType
  <2> QED BY <1>6, <2>2, <2>3, <2>4 DEF BaseFails
<1>7. ASSUME NEW t \in Trip, BaseBlocked(t)
      PROVE  TripInv'
  <2>1. /\ stage[t] = "dialing" /\ pc'[t] = "idle"
        /\ \A u \in Trip \ {t} : pc'[u] = pc[u]
    BY <1>0, <1>7, <1>s DEF BaseBlocked, Blocked, Goto
  <2> QED BY <1>0, <1>7, <2>1, ReturnKeeps DEF BaseBlocked, TripType
<1>8. ASSUME NEW t \in Trip, BaseConnects(t)
      PROVE  TripInv'
  <2>1. /\ stage[t] = "dialing" /\ stage'[t] = "exchange" /\ pc'[t] = "idle"
        /\ \A u \in Trip \ {t} : pc'[u] = pc[u] /\ stage'[u] = stage[u]
        /\ UNCHANGED <<transport, url, payload, fresh, whole, attempt, wait,
                       header, open, ended, outcome>>
    BY <1>0, <1>8, <1>s DEF BaseConnects, dialIP, Goto, Move, call, TripType
  <2>2. TripType'
    BY <1>0, <1>8, <2>1 DEF BaseConnects, Move, TripType
  <2>3. \A u \in Trip \ {t} : Same(u)
    BY <2>1 DEF Same
  <2>4. TripGoesOn(t)'
    BY <1>s, <2>1 DEF TripGoesOn, maxRetries
  <2>5. OffersBody(t)'
    BY <1>s, <2>1 DEF OffersBody
  <2> QED BY <2>1, <2>2, <2>3, <2>4, <2>5, TripOne
\* Steps that only the dialer takes.
<1>9. ASSUME UNCHANGED retryVars,
             \A t \in Trip : pc'[t] # "idle" => pc[t] # "idle"
      PROVE  TripInv'
  <2>1. TripType' /\ DialsInStage'
    BY <1>0, <1>9 DEF TripType, retryVars, TripInv, DialsInStage
  <2>2. ASSUME NEW t \in Trip PROVE TripGoesOn(t)' /\ OffersBody(t)'
    BY <1>9, <1>s DEF retryVars, TripGoesOn, OffersBody, BackoffMatches, maxRetries,
       initialBackoff, maxBackoff
  <2> QED BY <2>1, <2>2 DEF TripInv
<1>10. ASSUME NEW t \in Trip, DialGoesOn(t)
       PROVE  TripInv'
  <2>1. \A u \in Trip : pc'[u] # "idle" => pc[u] # "idle"
    BY <1>0, <1>10 DEF DialGoesOn, Lookup, Passed, cacheIP, Goto
  <2> QED BY <1>9, <1>10, <2>1 DEF DialGoesOn
<1>11. ASSUME NEW t \in Thread \ Trip, OtherDial(t)
       PROVE  TripInv'
  <2>1. \A u \in Trip : pc'[u] = pc[u]
    BY <1>0, <1>11 DEF OtherDial, CacheHit, CacheMiss, Step, LookupFails, Lookup,
       Blocked, Passed, cacheIP, dialIP, Goto
  <2> QED BY <1>9, <1>11, <2>1 DEF OtherDial
<1>12. CASE Clock \/ UNCHANGED rtVars
  BY <1>9, <1>12 DEF Clock, Tick, rtVars, vars
<1>13. ASSUME NEW t \in Trip, NEW hd \in Headers, AnswersRetryably(t, hd)
       PROVE  TripInv'
  <2>1. open' = IF ~(attempt[t] < maxRetries)
                THEN [open EXCEPT ![t] = @ + 1] ELSE open
    BY <1>0, <1>13 DEF AnswersRetryably, TripType
  <2> QED BY <1>0, <1>13, <1>s, <2>1, RetryOrKeeps DEF AnswersRetryably, vars, TripType
<1>14. ASSUME NEW t \in Trip, AnswersFinally(t)
       PROVE  TripInv'
  BY <1>0, <1>14, <1>s, ReturnKeeps DEF AnswersFinally, vars, TripType
<1>15. ASSUME NEW t \in Trip, Wake(t)
       PROVE  TripInv'
  <2>1. /\ stage[t] = "asleep" /\ stage' = [stage EXCEPT ![t] = "attempt"]
        /\ attempt' = [attempt EXCEPT ![t] = @ + 1]
        /\ wait' = [wait EXCEPT ![t] = 0]
        /\ header' = [header EXCEPT ![t] = NoHeader]
        /\ UNCHANGED <<pc, transport, url, payload, pooled, fresh, whole, open,
                       ended, outcome>>
    BY <1>15 DEF Wake, Move, vars, call
  <2>2. TripType'
    BY <1>0, <1>n, <2>1, HalfRangeIsPositive DEF TripType
  <2>3. \A u \in Trip \ {t} : Same(u)
    BY <1>0, <2>1 DEF TripType, Same
  <2>4. /\ stage'[t] = "attempt" /\ attempt'[t] = attempt[t] + 1
        /\ pc'[t] = "idle" /\ attempt[t] \in Nat /\ maxRetries \in Int
    BY <1>0, <1>s, <2>1, BackoffIsDuration DEF TripType
  <2>5. TripGoesOn(t)'
    <3>1. attempt'[t] <= maxRetries /\ UNCHANGED maxRetries
      BY <1>s, <2>1, <2>4 DEF TripGoesOn, maxRetries
    <3> QED BY <1>s, <2>1, <2>4, <3>1 DEF TripGoesOn
  <2>6. OffersBody(t)'
    BY <1>s, <2>1, <2>4 DEF OffersBody, TripGoesOn
  <2> QED BY <2>1, <2>2, <2>3, <2>4, <2>5, <2>6, TripOne
<1>16. ASSUME NEW t \in Trip, ContextEnds(t)
       PROVE  TripInv'
  <2>1. UNCHANGED <<pc, transport, url, payload, stage, pooled, fresh, whole,
                    attempt, wait, header, open, outcome>>
    BY <1>16 DEF ContextEnds, vars, call
  <2>2. TripType' /\ DialsInStage'
    BY <1>0, <1>16, <2>1 DEF ContextEnds, TripType, TripInv, DialsInStage
  <2>3. ASSUME NEW u \in Trip PROVE TripGoesOn(u)' /\ OffersBody(u)'
    BY <1>s, <2>1 DEF TripGoesOn, OffersBody, BackoffMatches, maxRetries,
       initialBackoff, maxBackoff
  <2> QED BY <2>2, <2>3 DEF TripInv
<1> QED BY <1>1, <1>2, <1>4, <1>5, <1>6, <1>7, <1>8, <1>10, <1>11, <1>12, <1>13,
     <1>14, <1>15, <1>16, [RetryNext]_rtVars DEF RetryNext, Attempt

LEMMA RetryInvariant == RetrySpec => [](TripInv /\ TypeInv /\ ValidInv /\ PinInv)
<1>1. RetryInit => TripInv /\ TypeInv /\ ValidInv /\ PinInv
  BY TripInit, TypeInit, ValidInit, PinInit DEF RetryInit
<1>2. TripInv /\ TypeInv /\ ValidInv /\ PinInv /\ [RetryNext]_rtVars
        => TripInv' /\ TypeInv' /\ ValidInv' /\ PinInv'
  BY TripStep, TripDialerStep, TypeStep, ValidStep, PinStep
<1> QED BY <1>1, <1>2, PTL DEF RetrySpec

-----------------------------------------------------------------------------
\* RetryTransport keeps its state well-formed: no attempt beyond MaxRetries,
\* and no wait that a Duration of any width cannot hold.
THEOREM RetryTypeCorrect == RetrySpec => []RetryTypeOK
<1>1. TripInv /\ TypeInv => RetryTypeOK
  <2> SUFFICES ASSUME TripInv, TypeInv PROVE RetryTypeOK
    OBVIOUS
  <2>1. TripType /\ \A t \in Trip : attempt[t] > 0 => attempt[t] <= maxRetries
    BY DEF TripInv, TripGoesOn
  <2>2. \A t \in Trip : wait[t] = Wrap(wait[t])
    BY <2>1, WrapIsIdentity DEF TripType
  <2> QED BY <2>1, <2>2 DEF RetryTypeOK, TripType, TypeInv
<1> QED BY <1>1, RetryInvariant, PTL

\* calculateBackoff: every wait that is slept is the reference's, for every
\* attempt, Retry-After and configuration, overflow of the doubling included.
THEOREM WaitHolds == RetrySpec => []WaitMatchesReference
<1>1. TripInv => WaitMatchesReference
  BY DEF TripInv, TripGoesOn, BackoffMatches, WaitMatchesReference
<1> QED BY <1>1, RetryInvariant, PTL

\* RoundTrip leaks no response body and closes none that it returns.
THEOREM OpenHolds == RetrySpec => []OnlyReturnedIsOpen
<1>1. TripInv => OnlyReturnedIsOpen
  BY DEF TripInv, TripGoesOn, OnlyReturnedIsOpen
<1> QED BY <1>1, RetryInvariant, PTL

\* GetBody: a response is one to the whole body, except to a retry of a body
\* that can be read only once.
THEOREM WholeBodyHolds == RetrySpec => []ResponseIsToWholeBody
<1>1. TripInv => ResponseIsToWholeBody
  BY DEF TripInv, OffersBody, ResponseIsToWholeBody
<1> QED BY <1>1, RetryInvariant, PTL

\* Retries and other goroutines share a SecureDialer: still no dial moves a
\* fresh pin that was stored before the dial began.
THEOREM RetryPinsStay == RetrySpec => PinMovedOnlyByOverlap
<1> DEFINE Moves ==
      \A t \in Thread : \A e \in cache[host[t]] :
          pc[t] = "store" /\ cache'[host[t]] # cache[host[t]]
          => Expired(e) \/ missAt[t] <= e.timestamp
<1>1. TypeInv /\ PinInv => Moves
  BY TTLAssumption, BoundsAssumption DEF TypeInv, TypeOK, Entry, PinInv,
     MissedHonestly, Expired
<1>2. TypeInv /\ PinInv /\ [RetryNext]_rtVars => [Moves]_vars
  BY <1>1
<1> QED BY <1>2, RetryInvariant, PTL DEF RetrySpec, PinMovedOnlyByOverlap

\* No attempt of a RoundTrip reaches a forbidden address, the one after a
\* refused or rebound answer included.
THEOREM NoForbiddenRetry == RetrySpec => []NoForbiddenDial
<1>1. ValidInv => NoForbiddenDial
  BY ValidatedIsNotForbidden DEF ValidInv, DialledValidated, NoForbiddenDial
<1> QED BY <1>1, RetryInvariant, PTL
=============================================================================
