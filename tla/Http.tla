-------------------------------- MODULE Http --------------------------------
(***************************************************************************)
(* PerformHTTPRequest (http.go) and the LimitedReader it reads the body    *)
(* with (netutil/limitreader.go): one request, its redirects and its body, *)
(* over the SecureDialer that createHTTPClient makes for this request.     *)
(*                                                                         *)
(* net/http is modelled as the code uses it.  Each hop takes a connection  *)
(* of the pool or starts a dial in a goroutine of its own (a Thread of     *)
(* SecureDialer); a dial that a hop no longer needs goes on behind it, and *)
(* its connection may serve a later hop.  Peers answer, redirect anywhere, *)
(* fail or stay silent; only the deadline of the request ends every wait.  *)
(***************************************************************************)
EXTENDS SecureDialer, Integers

CONSTANTS
    NoURL,            \* the empty URL field
    Requests,         \* requests with the options and context they come with
    DefaultTimeout,
    DefaultRedirects, \* 10, in defaultHTTPConfig and in net/http itself
    Says,             \* words of handleHTTPError that the URL of a host contains
    MaxBodySize,
    MaxSent           \* bound: bytes of a response body

ASSUME RequestsAssumption ==
    Requests \subseteq [url : Host \cup {NoURL}, follow : {"unset", "yes", "no"},
                        maxRedirects : Int, timeout : Int,
                        optRedirects : Nat, protected : BOOLEAN]
ASSUME HttpBoundsAssumption ==
    /\ {DefaultTimeout, DefaultRedirects, MaxBodySize} \subseteq Nat \ {0}
    /\ MaxSent \in Nat
    /\ NoURL \notin Host
ASSUME SaysAssumption == Says \in [Host -> SUBSET {"timeout", "redirect"}]

VARIABLES
    req,     \* the request
    phase,   \* where PerformHTTPRequest is
    via,     \* the hosts of the requests sent so far, the current one last
    mine,    \* the dial the current hop has started: at most one goroutine
    conns,   \* <<host, address>> of every connection made
    sent,    \* bytes of the body the peer still has
    left,    \* LimitedReader.N
    body,    \* bytes read so far; in the end, of HTTPResponse.Body
    result   \* Error.Code, "ok" or "truncated"

httpVars == <<req, phase, via, mine, conns, sent, left, body, result>>
allVars == <<vars, httpVars>>
hop == <<req, via>>
reader == <<sent, left, body>>

-----------------------------------------------------------------------------
(* The configuration: defaults, options, then the request.                 *)

timeout == IF req.timeout > 0 THEN req.timeout ELSE DefaultTimeout
maxRedirects ==
    IF req.maxRedirects > 0 THEN req.maxRedirects ELSE req.optRedirects
followRedirects == req.follow # "no"

\* How many requests there may be: CheckRedirect of createHTTPClient, and
\* net/http's own for 0.
RedirectLimit == IF maxRedirects > 0 THEN maxRedirects ELSE DefaultRedirects

Target == via[Len(via)]
Late == now >= timeout

\* The text of an error quotes the URL of the hop that answered last, or the
\* first one.
QuotedURL == via[IF Len(via) > 1 THEN Len(via) - 1 ELSE 1]

\* handleHTTPError: the first case that the text or the context satisfies.
ErrorCode(cause) ==
    LET text == Says[QuotedURL] \cup {cause}
    IN  IF "timeout" \in text \/ Late THEN "TIMEOUT"
        ELSE IF "redirect" \in text THEN "TOO_MANY_REDIRECTS"
        ELSE CASE cause = "no such host" -> "HOST_NOT_FOUND"
               [] cause = "refused"      -> "CONNECTION_REFUSED"
               [] cause = "blocked"      -> "SSRF_BLOCKED"
               [] OTHER                  -> "REQUEST_FAILED"

-----------------------------------------------------------------------------
HttpInit ==
    /\ Init
    /\ req \in Requests
    /\ phase = "start"
    /\ via = <<>>
    /\ mine = {}
    /\ conns = {}
    /\ sent = 0
    /\ left = 0
    /\ body = 0
    /\ result = "none"

\* PerformHTTPRequest returns this code.
Return(code) == phase' = "done" /\ result' = code /\ mine' = {}

\* validateHTTPRequest and NewRequestWithContext refuse.
Invalid ==
    /\ phase = "start" /\ req.url = NoURL
    /\ Return("INVALID_REQUEST")
    /\ UNCHANGED <<vars, hop, conns, reader>>

\* client.Do begins with the first hop.
Do ==
    /\ phase = "start" /\ req.url # NoURL
    /\ phase' = "connecting"
    /\ via' = <<req.url>>
    /\ UNCHANGED <<vars, req, mine, conns, reader, result>>

\* The hop takes a connection of the pool, one it has waited for too.
TakeIdle ==
    /\ phase = "connecting"
    /\ \E c \in conns : c[1] = Target
    /\ phase' = "reused" /\ mine' = {}
    /\ UNCHANGED <<vars, hop, conns, reader, result>>

\* The hop starts a dial; net/http starts none after the deadline.
StartDial(t) ==
    /\ phase = "connecting" /\ mine = {} /\ ~Late
    /\ req.protected
    /\ CacheHit(t, Target) \/ CacheMiss(t, Target)
    /\ mine' = {t}
    /\ UNCHANGED <<hop, phase, conns, reader, result>>

\* Without protection net/http dials by itself: any address of a name.
PlainDial ==
    /\ phase = "connecting" /\ ~Late
    /\ ~req.protected
    /\ \/ /\ \E a \in IF LiteralOf[Target] = NoAddr THEN Addr
                                                    ELSE {LiteralOf[Target]} :
                conns' = conns \cup {<<Target, a>>}
          /\ phase' = "awaiting" /\ UNCHANGED <<result, mine>>
       \/ /\ \E cause \in {"no such host", "refused", "timeout"} :
                Return(ErrorCode(cause))
          /\ UNCHANGED conns
    /\ UNCHANGED <<vars, hop, reader>>

\* The steps of a dial that tell the hop nothing.
DialGoesOn(t) ==
    /\ \/ \E ips \in Answers : Lookup(t, ips)
       \/ Passed(t) \/ cacheIP(t)
    /\ UNCHANGED httpVars

\* A dial has failed.  Only the hop that started it is told.
DialFailed(t, cause) ==
    /\ IF t \in mine THEN Return(ErrorCode(cause))
                     ELSE UNCHANGED <<phase, result, mine>>
    /\ UNCHANGED <<hop, conns, reader>>

DialFails(t) ==
    \/ LookupFails(t) /\ (DialFailed(t, "no such host") \/ DialFailed(t, "timeout"))
    \/ Blocked(t) /\ DialFailed(t, "blocked")
    \/ dialIP(t) /\ (DialFailed(t, "refused") \/ DialFailed(t, "timeout"))

\* A dial has a connection: for whichever hop waits for one to its host.
DialConnects(t) ==
    /\ dialIP(t)
    /\ conns' = conns \cup {<<host[t], addr[t]>>}
    /\ IF phase = "connecting" /\ host[t] = Target
       THEN phase' = "awaiting" /\ mine' = {}
       ELSE UNCHANGED <<phase, mine>>
    /\ UNCHANGED <<hop, reader, result>>

\* A connection of the pool turns out to be closed: net/http looks for
\* another, unless the deadline has come.
Stale ==
    /\ phase = "reused" /\ ~Late
    /\ phase' = "connecting"
    /\ UNCHANGED <<vars, hop, mine, conns, reader, result>>

Awaiting == phase \in {"awaiting", "reused"}

\* The exchange fails: the peer resets, TLS fails, the caller cancels.
ExchangeFails ==
    /\ Awaiting
    /\ Return(ErrorCode("other"))
    /\ UNCHANGED <<vars, hop, conns, reader>>

MutantFollow(h) ==
    /\ Awaiting /\ followRedirects /\ ~Late
    /\ Len(via) < RedirectLimit
    /\ phase' = "connecting"
    /\ via' = Append(via, h)
    /\ cache' = [g \in Host |-> {}]
    /\ UNCHANGED <<now, pc, host, addr, missAt, dialled, req, mine, conns,
                   reader, result>>

\* The peer redirects, and the policy lets it.
Follow(h) ==
    /\ Awaiting /\ followRedirects /\ ~Late
    /\ Len(via) < RedirectLimit
    /\ phase' = "connecting"
    /\ via' = Append(via, h)
    /\ UNCHANGED <<vars, req, mine, conns, reader, result>>

\* The peer redirects, and len(via) has reached the limit.
TooManyRedirects ==
    /\ Awaiting /\ followRedirects
    /\ Len(via) >= RedirectLimit
    /\ Return(ErrorCode("redirect"))
    /\ UNCHANGED <<vars, hop, conns, reader>>

\* The final response, with n bytes of body; a redirect too when redirects
\* are not followed or say nothing of where to go.
Respond(n) ==
    /\ Awaiting
    /\ phase' = "reading"
    /\ sent' = n
    /\ left' = MaxBodySize
    /\ body' = 0
    /\ UNCHANGED <<vars, hop, mine, conns, result>>

-----------------------------------------------------------------------------
(* io.ReadAll over the LimitedReader.  The body of a response gives its    *)
(* last bytes with io.EOF or without it; eof tells which.                  *)

\* Read refuses: the limit was reached by the call before.
ReadOver ==
    /\ phase = "reading" /\ left = 0
    /\ Return("truncated")
    /\ UNCHANGED <<vars, hop, conns, reader>>

MutantReadChunk(n, eof) ==
    /\ phase = "reading" /\ left > 0
    /\ n \in 0..sent /\ n <= left
    /\ eof => n = sent
    /\ n = 0 => eof
    /\ sent' = sent - n
    /\ left' = left - n
    /\ body' = body + n
    /\ IF eof \/ left' = 0 THEN Return("ok") ELSE UNCHANGED <<phase, result, mine>>
    /\ UNCHANGED <<vars, hop, conns>>

\* Read gives n bytes.  At the limit and without io.EOF it asks for one
\* byte more: with one, the limit is exceeded; at io.EOF nothing is said,
\* and ReadAll calls again.
ReadChunk(n, eof) ==
    /\ phase = "reading" /\ left > 0
    /\ n \in 0..sent /\ n <= left
    /\ eof => n = sent
    /\ n = 0 => eof
    /\ sent' = sent - n
    /\ left' = left - n
    /\ body' = body + n
    /\ IF eof THEN Return("ok")
       ELSE IF left' = 0 /\ sent' > 0 THEN Return("truncated")
       ELSE UNCHANGED <<phase, result, mine>>
    /\ UNCHANGED <<vars, hop, conns>>

\* The connection breaks, also under the byte asked for at the limit: an
\* error response without a body.
ReadFails ==
    /\ phase = "reading" /\ left > 0
    /\ Return("READ_BODY_FAILED")
    /\ body' = 0
    /\ UNCHANGED <<vars, hop, conns, sent, left>>

MutantTimesOut ==
    /\ Late /\ (phase = "connecting" \/ Awaiting)
    /\ Return("TIMEOUT") /\ UNCHANGED body
    /\ UNCHANGED <<vars, hop, conns, sent, left>>

\* The deadline: of the dial or the exchange, or of the body, which is then
\* an error of reading.
TimesOut ==
    /\ Late
    /\ \/ (phase = "connecting" \/ Awaiting) /\ Return("TIMEOUT") /\ UNCHANGED body
       \/ phase = "reading" /\ left > 0 /\ Return("READ_BODY_FAILED") /\ body' = 0
    /\ UNCHANGED <<vars, hop, conns, sent, left>>

-----------------------------------------------------------------------------
DialStep(t) == DialGoesOn(t) \/ DialFails(t) \/ DialConnects(t)
Clock == Tick /\ UNCHANGED httpVars

HttpNext ==
    \/ Invalid \/ Do \/ TakeIdle \/ PlainDial
    \/ \E t \in Thread : StartDial(t) \/ DialStep(t)
    \/ Stale \/ ExchangeFails \/ TooManyRedirects
    \/ \E h \in Host : Follow(h)
    \/ \E n \in 0..MaxSent : Respond(n)
    \/ ReadOver \/ ReadFails
    \/ \E n \in 0..MaxSent, eof \in BOOLEAN : ReadChunk(n, eof)
    \/ TimesOut
    \/ Clock

HttpSpec == HttpInit /\ [][HttpNext]_allVars

\* Time passes, timers fire, a dial goes on and the call takes the steps
\* that are its own.  Nothing is assumed of the peers.
HttpFairSpec ==
    /\ HttpSpec
    /\ WF_allVars(Clock)
    /\ WF_allVars(TimesOut)
    /\ WF_allVars(Invalid \/ Do \/ ReadOver)
    /\ \A t \in Thread : WF_allVars(DialStep(t))

-----------------------------------------------------------------------------
\* DNS rebinding through redirects: a protected request whose timeout is no
\* longer than the lifetime of a pin dials a host at one address only, over
\* all its hops, the dials it has left behind and connections found closed.
\* (The next request has a dialer of its own and may see another address.)
OneAddressPerHost ==
    req.protected /\ timeout <= CacheTTL
        => \A d, e \in dialled : d[1] = e[1] => d = e

\* The body that is returned: the whole of it when nothing is said, exactly
\* as much as the limit when it is reported truncated, nothing with an error.
BodyIsWholeOrFlagged ==
    phase = "done" =>
        /\ result = "ok" => sent = 0
        /\ result = "truncated" => body = MaxBodySize
        /\ result \notin {"ok", "truncated"} => body = 0

\* A request comes back, whatever the peers, DNS and redirects do.
RequestReturns == phase = "start" ~> phase = "done"
=============================================================================
