------------------------------- MODULE Retry -------------------------------
(***************************************************************************)
(* netutil/retry.go: RoundTrips through a RetryTransport, over a transport *)
(* that dials with a SecureDialer, which other goroutines dial with too.   *)
(*                                                                         *)
(* The base transport is external: it takes a connection of its pool or    *)
(* dials, and then the peer answers, fails or stays silent.  It closes the *)
(* request's body whatever happens.  A request whose context has ended     *)
(* fails at once; the sleep between attempts does not look at the context. *)
(***************************************************************************)
EXTENDS SecureDialer, Integers

CONSTANTS
    Trip,            \* the goroutines of SecureDialer that are in a RoundTrip
    Transports,      \* the fields of the transports considered
    DefaultRetries,  \* 3
    DefaultInitial,  \* 1s
    DefaultMax,      \* 30s
    Width,           \* bits of a time.Duration (64)
    RetryAfter,      \* seconds of a Retry-After header
    DateDelay        \* how far ahead an HTTP date may lie

\* The Durations that are not negative, and those below them as many again.
HalfRange == 2^(Width - 1)
Duration == 0..(HalfRange - 1)

ASSUME WidthAssumption == Width \in Nat \ {0}
ASSUME TransportsAssumption ==
    Transports \subseteq
        [MaxRetries : Int, InitialBackoff : Duration, MaxBackoff : Duration]
ASSUME RetryAssumption ==
    /\ Trip \subseteq Thread
    /\ DefaultRetries \in Nat \ {0}
    /\ {DefaultInitial, DefaultMax} \subseteq Duration \ {0}
    /\ RetryAfter \subseteq Int
    /\ DateDelay \subseteq Duration   \* time.Until saturates

VARIABLES
    transport,  \* the shared RetryTransport
    stage,      \* where each RoundTrip is
    url,        \* the host it asks
    payload,    \* its body: "none", "replay" (GetBody is set) or "once"
    pooled,     \* has an earlier attempt left a connection?
    fresh,      \* has the body not been consumed yet?
    whole,      \* did the latest attempt offer the whole body?
    attempt,
    wait,       \* the latest waitDuration
    header,     \* history: what that was computed from
    open,       \* responses whose body is not closed
    ended,      \* has its context ended?
    outcome     \* what it returned

retryVars == <<transport, stage, url, payload, pooled, fresh, whole, attempt,
               wait, header, open, ended, outcome>>
call == <<transport, url, payload>>
rtVars == <<vars, retryVars>>

-----------------------------------------------------------------------------
(* calculateBackoff.  A header is none, a number of seconds, an HTTP date  *)
(* that lies ahead by some time, or one that is past.                      *)

Headers ==
    {[kind |-> "none", n |-> 0], [kind |-> "past", n |-> 0]}
        \cup [kind : {"seconds"}, n : RetryAfter]
        \cup [kind : {"date"}, n : DateDelay]
NoHeader == [kind |-> "none", n |-> 0]

\* Two's complement arithmetic of the width of a Duration.
Wrap(x) == ((x + HalfRange) % (2 * HalfRange)) - HalfRange

OrDefault(x, default) == IF x = 0 THEN default ELSE x
maxRetries == OrDefault(transport.MaxRetries, DefaultRetries)
initialBackoff == OrDefault(transport.InitialBackoff, DefaultInitial)
maxBackoff == OrDefault(transport.MaxBackoff, DefaultMax)

Capped(d) == IF d > maxBackoff THEN maxBackoff ELSE d

MutantBackoff(n, hd) ==
    CASE hd.kind \in {"seconds", "date"} -> Capped(Wrap(hd.n))
      [] hd.kind = "past" -> initialBackoff
      [] OTHER -> Capped(Wrap(initialBackoff * 2^(n + 1)))

calculateBackoff(n, hd) ==
    CASE hd.kind \in {"seconds", "date"} -> Capped(Wrap(hd.n))
      [] hd.kind = "past" -> initialBackoff
      [] OTHER -> Capped(Wrap(initialBackoff * 2^n))

-----------------------------------------------------------------------------
All(x) == [t \in Trip |-> x]

RetryInit ==
    /\ Init
    /\ transport \in Transports
    /\ stage = All("idle")
    /\ url \in [Trip -> Host]
    /\ payload = All("none")
    /\ pooled = All(FALSE)
    /\ fresh = All(TRUE)
    /\ whole = All(TRUE)
    /\ attempt = All(0)
    /\ wait = All(0)
    /\ header = All(NoHeader)
    /\ open = All(0)
    /\ ended = All(FALSE)
    /\ outcome = All("none")

Move(t, here, there) == stage[t] = here /\ stage' = [stage EXCEPT ![t] = there]

\* RoundTrip is called.  With a negative MaxRetries the loop does not run.
RoundTrip(t, b) ==
    /\ stage[t] = "idle" /\ outcome[t] = "none"
    /\ payload' = [payload EXCEPT ![t] = b]
    /\ IF maxRetries < 0
       THEN outcome' = [outcome EXCEPT ![t] = "nothing"] /\ UNCHANGED stage
       ELSE stage' = [stage EXCEPT ![t] = "attempt"] /\ UNCHANGED outcome
    /\ UNCHANGED <<vars, transport, url, pooled, fresh, whole, attempt, wait,
                   header, open, ended>>

\* It returns.
Return(t, what) ==
    /\ stage' = [stage EXCEPT ![t] = "idle"]
    /\ outcome' = [outcome EXCEPT ![t] = what]
    /\ UNCHANGED <<attempt, wait, header>>

MutantRetryOr(t, hd, what) ==
    IF attempt[t] <= maxRetries
    THEN /\ wait' = [wait EXCEPT ![t] = calculateBackoff(attempt[t], hd)]
         /\ header' = [header EXCEPT ![t] = hd]
         /\ stage' = [stage EXCEPT ![t] = "asleep"]
         /\ UNCHANGED <<attempt, outcome>>
    ELSE Return(t, what)

\* The attempt has failed in a way that is retried, hd at hand: after a wait,
\* or with this when it was the last.
RetryOr(t, hd, what) ==
    IF attempt[t] < maxRetries
    THEN /\ wait' = [wait EXCEPT ![t] = calculateBackoff(attempt[t], hd)]
         /\ header' = [header EXCEPT ![t] = hd]
         /\ stage' = [stage EXCEPT ![t] = "asleep"]
         /\ UNCHANGED <<attempt, outcome>>
    ELSE Return(t, what)

GetBodyFails(t) ==
    /\ stage[t] = "attempt" /\ payload[t] = "replay"
    /\ Return(t, "error")
    /\ UNCHANGED <<vars, call, pooled, fresh, whole, open, ended>>

MutantOffer(t) ==
    /\ whole' = [whole EXCEPT ![t] = fresh[t]]
    /\ fresh' = [fresh EXCEPT ![t] = FALSE]

\* The clone carries what GetBody gives, or the body of the request itself,
\* which the base transport consumes.
Offer(t) ==
    /\ whole' = [whole EXCEPT ![t] = fresh[t] \/ payload[t] # "once"]
    /\ fresh' = [fresh EXCEPT ![t] = FALSE]

\* base.RoundTrip takes a connection of the pool, or dials; DialContext looks
\* in the cache.
BaseReuses(t) ==
    /\ Move(t, "attempt", "exchange") /\ ~ended[t]
    /\ pooled[t]
    /\ Offer(t)
    /\ UNCHANGED <<vars, call, pooled, attempt, wait, header, open,
                   ended, outcome>>

BaseDials(t) ==
    /\ Move(t, "attempt", "dialing") /\ ~ended[t]
    /\ CacheHit(t, url[t]) \/ CacheMiss(t, url[t])
    /\ Offer(t)
    /\ UNCHANGED <<call, pooled, attempt, wait, header, open, ended, outcome>>

\* An error that is not a block.
Fails(t) ==
    /\ RetryOr(t, NoHeader, "error")
    /\ UNCHANGED <<call, pooled, open, ended>>

BaseFails(t) ==
    \/ stage[t] = "attempt" /\ ended[t] /\ Offer(t) /\ Fails(t) /\ UNCHANGED vars
    \/ stage[t] = "exchange" /\ Fails(t) /\ UNCHANGED <<vars, fresh, whole>>
    \/ LookupFails(t) /\ Fails(t) /\ UNCHANGED <<fresh, whole>>
    \/ dialIP(t) /\ Fails(t) /\ UNCHANGED <<fresh, whole>>

\* An SSRFBlockedError is returned as it is.
BaseBlocked(t) ==
    /\ Blocked(t)
    /\ Return(t, "error")
    /\ UNCHANGED <<call, pooled, fresh, whole, open, ended>>

BaseConnects(t) ==
    /\ dialIP(t)
    /\ Move(t, "dialing", "exchange")
    /\ pooled' = [pooled EXCEPT ![t] = TRUE]
    /\ UNCHANGED <<call, fresh, whole, attempt, wait, header,
                   open, ended, outcome>>

DialGoesOn(t) ==
    /\ \/ \E ips \in Answers : Lookup(t, ips)
       \/ Passed(t) \/ cacheIP(t)
    /\ UNCHANGED retryVars

MutantAnswersRetryably(t, hd) ==
    /\ stage[t] = "exchange"
    /\ RetryOr(t, hd, "response")
    /\ open' = [open EXCEPT ![t] = @ + 1]
    /\ UNCHANGED <<vars, call, pooled, fresh, whole, ended>>

\* 429, 502, 503 or 504: the response is closed before the wait, and returned
\* after the last attempt.
AnswersRetryably(t, hd) ==
    /\ stage[t] = "exchange"
    /\ RetryOr(t, hd, "response")
    /\ open' = [open EXCEPT ![t] = IF attempt[t] < maxRetries THEN @ ELSE @ + 1]
    /\ UNCHANGED <<vars, call, pooled, fresh, whole, ended>>

\* Any other status is returned.
AnswersFinally(t) ==
    /\ stage[t] = "exchange"
    /\ Return(t, "response")
    /\ open' = [open EXCEPT ![t] = @ + 1]
    /\ UNCHANGED <<vars, call, pooled, fresh, whole, ended>>

MutantWake(t) ==
    /\ Move(t, "asleep", "attempt")
    /\ attempt' = [attempt EXCEPT ![t] = IF ended[t] THEN @ ELSE @ + 1]
    /\ wait' = [wait EXCEPT ![t] = 0]
    /\ header' = [header EXCEPT ![t] = NoHeader]
    /\ UNCHANGED <<vars, call, pooled, fresh, whole, open, ended, outcome>>

\* time.Sleep is over, whether the context has ended or not.
Wake(t) ==
    /\ Move(t, "asleep", "attempt")
    /\ attempt' = [attempt EXCEPT ![t] = @ + 1]
    /\ wait' = [wait EXCEPT ![t] = 0]
    /\ header' = [header EXCEPT ![t] = NoHeader]
    /\ UNCHANGED <<vars, call, pooled, fresh, whole, open, ended, outcome>>

\* The caller's context ends.
ContextEnds(t) ==
    /\ stage[t] # "idle" /\ ~ended[t]
    /\ ended' = [ended EXCEPT ![t] = TRUE]
    /\ UNCHANGED <<vars, call, stage, pooled, fresh, whole, attempt, wait,
                   header, open, outcome>>

Clock == Tick /\ UNCHANGED retryVars

\* A goroutine that is in no RoundTrip dials with the same SecureDialer.
OtherDial(t) ==
    /\ (\E h \in Host : CacheHit(t, h) \/ CacheMiss(t, h)) \/ Step(t)
    /\ UNCHANGED retryVars

-----------------------------------------------------------------------------
Attempt(t) ==
    \/ GetBodyFails(t) \/ BaseReuses(t) \/ BaseDials(t)
    \/ BaseFails(t) \/ BaseBlocked(t) \/ BaseConnects(t)
    \/ DialGoesOn(t)
    \/ Wake(t)

RetryNext ==
    \/ \E t \in Trip :
          \/ \E b \in {"none", "replay", "once"} : RoundTrip(t, b)
          \/ Attempt(t)
          \/ \E hd \in Headers : AnswersRetryably(t, hd)
          \/ AnswersFinally(t)
          \/ ContextEnds(t)
    \/ \E t \in Thread \ Trip : OtherDial(t)
    \/ Clock

RetrySpec == RetryInit /\ [][RetryNext]_rtVars

\* Sleeps end, dials go on, and an exchange whose context has ended fails.
\* Nothing is assumed of a peer while the context lasts.
RetryFairSpec ==
    /\ RetrySpec
    /\ \A t \in Trip : WF_rtVars(Attempt(t) /\ (ended[t] \/ stage[t] # "exchange"))

-----------------------------------------------------------------------------
\* Every variable keeps its type; in particular no attempt is made beyond
\* MaxRetries, and a wait fits a Duration.
RetryTypeOK ==
    /\ TypeOK
    /\ transport \in Transports
    /\ stage \in [Trip -> {"idle", "attempt", "dialing", "exchange", "asleep"}]
    /\ url \in [Trip -> Host]
    /\ payload \in [Trip -> {"none", "replay", "once"}]
    /\ pooled \in [Trip -> BOOLEAN]
    /\ fresh \in [Trip -> BOOLEAN] /\ whole \in [Trip -> BOOLEAN]
    /\ attempt \in [Trip -> Nat]
    /\ \A t \in Trip : attempt[t] > 0 => attempt[t] <= maxRetries
    /\ \A t \in Trip : wait[t] = Wrap(wait[t])
    /\ header \in [Trip -> Headers]
    /\ open \in [Trip -> Nat]
    /\ ended \in [Trip -> BOOLEAN]
    /\ outcome \in [Trip -> {"none", "response", "error", "nothing"}]

\* The waits against a reference: never longer than MaxBackoff (InitialBackoff
\* after a date that is past); twice as long each time until then, unless
\* initial * 2^attempt no longer fits a Duration; negative only then or by a
\* Retry-After that is.
WaitMatchesReference ==
    \A t \in Trip : stage[t] = "asleep" =>
        LET exact == initialBackoff * 2^attempt[t]
            fits(d) == d < HalfRange
        IN  /\ wait[t] <= IF header[t].kind = "past" THEN initialBackoff
                                                     ELSE maxBackoff
            /\ header[t].kind = "none" /\ fits(exact)
                  => wait[t] = IF exact < maxBackoff THEN exact ELSE maxBackoff
            /\ wait[t] < 0 => \/ header[t].kind = "none" /\ ~fits(exact)
                              \/ header[t].kind = "seconds"
                                 /\ (header[t].n < 0 \/ ~fits(header[t].n))

\* The responses of a RoundTrip: one is returned and its body is open, or an
\* error is and none is open; every other was closed before the next attempt.
OnlyReturnedIsOpen ==
    \A t \in Trip : open[t] = IF outcome[t] = "response" THEN 1 ELSE 0

\* A body that can be read again is offered whole with every attempt; one
\* that cannot, only with the first.
ResponseIsToWholeBody ==
    \A t \in Trip :
        outcome[t] = "response" =>
            whole[t] \/ (payload[t] = "once" /\ attempt[t] > 0)

\* A RoundTrip whose context has ended returns, if only after the attempts
\* and the sleeps it still has.
EndedRoundTripReturns ==
    \A t \in Trip : ended[t] ~> stage[t] = "idle"
=============================================================================
