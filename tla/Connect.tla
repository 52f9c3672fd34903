------------------------------ MODULE Connect ------------------------------
(***************************************************************************)
(* The host functions tcp_connect (tcp.go), smtp_connect (smtp.go) and     *)
(* ssrf_check (bundle.go) as the bundles register them, without options,   *)
(* and ValidateAddress called with options by an embedder.                 *)
(*                                                                         *)
(* A request shares no state with another, so one runs at a time; what     *)
(* interferes is the environment: DNS answers each lookup as it likes, and *)
(* the peer answers, fails or stays silent.  A wait that the code bounds   *)
(* by a timer or a deadline can end in a timeout, the others cannot.       *)
(***************************************************************************)
EXTENDS AddressFilter

CONSTANTS
    Port,       \* the values of a request's port field
    IPv4,       \* the addresses that ip.String() spells without a colon
    Configs     \* the options of an embedder's ValidateAddress

ASSUME PortAssumption == Port \subseteq Int /\ Port # {} /\ Host # {}
ASSUME IPv4Assumption == IPv4 \subseteq Addr
\* There is no option that stops blocking multicast.
ASSUME ConfigsAssumption ==
    Configs \subseteq
        [allowlist : SUBSET Pattern, blocklist : SUBSET Pattern,
         allowedPorts : SUBSET Int, blockedPorts : SUBSET Int,
         blockPrivate : BOOLEAN, blockLocalhost : BOOLEAN,
         blockLinkLocal : BOOLEAN, blockMulticast : {TRUE},
         resolveDNS : BOOLEAN]

\* "validate" is an embedder's call; ssrf_check makes the same call without
\* options.  The context of a connection carries no "ssrf_allow_private", or
\* false ("guarded") or true ("private").
Protection == {"none", "guarded", "private"}
Requests ==
    [fn : {"validate"}, host : Host, port : Port \cap Nat, cfg : Configs]
    \cup
    [fn : {"tcp"}, host : Host, port : Port, ssrf : Protection,
     useTLS : BOOLEAN]
    \cup
    [fn : {"smtp"}, host : Host, port : Port, ssrf : Protection,
     useTLS : BOOLEAN, useSTARTTLS : BOOLEAN]

Codes == {"none", "OK", "INVALID_REQUEST", "SSRF_BLOCKED", "TIMEOUT",
          "CONNECTION_REFUSED", "HOST_NOT_FOUND", "CONNECTION_FAILED",
          "TLS_ERROR", "TLS_CERTIFICATE_ERROR", "READ_BANNER_FAILED",
          "SMTP_CLIENT_FAILED", "STARTTLS_FAILED"}

VARIABLES
    pc,         \* where the request is
    req,        \* the request
    verdict,    \* what ValidateAddress returned for it
    resp,       \* the code of its response, "OK" when connected
    reached     \* history: <<ssrf, address>> of protected dials

vars == <<pc, req, verdict, resp, reached>>

\* The configuration of the request's ValidateAddress.
Config(r) ==
    IF r.fn = "validate" THEN r.cfg ELSE netfilterConfig(r.ssrf = "private")
NoRequest == CHOOSE r \in Requests : TRUE
Parsed(r) == parseAddress(r.host, r.port)

-----------------------------------------------------------------------------
Init ==
    /\ pc = "idle"
    /\ req = NoRequest
    /\ verdict = Refused
    /\ resp = "none"
    /\ reached = {}

\* The caller has the response; the next request starts afresh.
Taken ==
    /\ pc = "done" /\ pc' = "idle"
    /\ req' = NoRequest /\ verdict' = Refused /\ resp' = "none"
    /\ reached' = {}

\* A request comes in and goes there.
Accept(r, there) ==
    /\ pc = "idle" /\ pc' = there
    /\ req' = r
    /\ UNCHANGED reached

\* The response is ready; the connection, if there is one, is closed.
Respond(code) ==
    /\ pc' = "done"
    /\ resp' = code
    /\ UNCHANGED <<req, verdict, reached>>

\* validateTCPRequest, and the same checks of PerformSMTPConnect.
Valid(r) == FormOf[r.host] # "empty" /\ r.port > 0 /\ r.port <= 65535

Invalid(r) ==
    /\ r.fn # "validate" /\ ~Valid(r)
    /\ Accept(r, "done")
    /\ resp' = "INVALID_REQUEST" /\ UNCHANGED verdict

\* Without protection the host is dialled as it is spelled.
Unprotected(r) ==
    /\ r.fn # "validate" /\ Valid(r) /\ r.ssrf = "none"
    /\ Accept(r, "dial")
    /\ UNCHANGED <<verdict, resp>>

\* The requests whose address goes through ValidateAddress.
Filters(r) == IF r.fn = "validate" THEN TRUE ELSE Valid(r) /\ r.ssrf # "none"

\* Where a verdict leads: a connection, or the end.
Decided(r, v) ==
    /\ verdict' = v
    /\ IF r.fn = "validate"
       THEN pc' = "done" /\ UNCHANGED resp
       ELSE IF v.allowed THEN pc' = "dial" /\ UNCHANGED resp
                         ELSE pc' = "done" /\ resp' = "SSRF_BLOCKED"

\* ValidateAddress decides without asking DNS.
FilterEarly(r) ==
    /\ Filters(r)
    /\ pc = "idle" /\ req' = r /\ UNCHANGED reached
    /\ LET parsed == Parsed(r)
           early  == beforeLookup(parsed, Config(r))
       IN  \/ early = "refuse" /\ Decided(r, Refused)
           \/ early = "allow" /\ Decided(r, AllowedAs(NoAddr))
           \/ /\ early = "go" /\ ~Config(r).resolveDNS
              /\ Decided(r, resolveAndValidateIP(parsed.literal, Config(r)))

\* ValidateAddress gets as far as the lookup.
StartLookup(r) ==
    /\ Filters(r)
    /\ beforeLookup(Parsed(r), Config(r)) = "go" /\ Config(r).resolveDNS
    /\ Accept(r, "lookup")
    /\ UNCHANGED <<verdict, resp>>

\* net.LookupIP returns; only the first address counts.
LookupIP(a) ==
    /\ pc = "lookup"
    /\ a \in Answers(req.host, Parsed(req))
    /\ Decided(req, resolveAndValidateIP(a, Config(req)))
    /\ UNCHANGED <<req, reached>>

-----------------------------------------------------------------------------
(* The dial.  Its address is written as %s:%d, which net.Dial cannot split *)
(* when the host is a bare IPv6 literal, as ip.String() spells it.         *)

MutantTargets ==
    IF FormOf[req.host] = "name" THEN Addr
    ELSE IF FormOf[req.host] \in {"v4", "bracketed"} THEN {LiteralOf[req.host]}
    ELSE {}

\* The addresses the dial may connect to: the one the filter resolved, or
\* what the host spells or resolves to now.
Targets ==
    IF verdict.ip # NoAddr THEN {verdict.ip} \cap IPv4
    ELSE IF FormOf[req.host] = "name" THEN Addr
    ELSE IF FormOf[req.host] \in {"v4", "bracketed"} THEN {LiteralOf[req.host]}
    ELSE {}

\* handleTCPError says TIMEOUT of any error once the caller's own deadline
\* has passed, which it may do at any time.
ErrorCodes(codes) ==
    IF req.fn = "tcp" THEN codes \cup {"TIMEOUT"} ELSE codes

Reach(a) ==
    reached' = IF req.ssrf = "none" THEN reached
               ELSE reached \cup {<<req.ssrf, a>>}

\* The peer accepts.
Connected(a) ==
    /\ pc = "dial" /\ a \in Targets
    /\ Reach(a)
    /\ \/ req.useTLS /\ pc' = "handshake" /\ UNCHANGED resp
       \/ ~req.useTLS /\ req.fn = "smtp" /\ pc' = "greeting" /\ UNCHANGED resp
       \/ ~req.useTLS /\ req.fn = "tcp" /\ pc' = "done" /\ resp' = "OK"
    /\ UNCHANGED <<req, verdict>>

\* The peer refuses, the network fails or the caller cancels.
DialRefused(a) ==
    /\ pc = "dial" /\ a \in Targets
    /\ Reach(a)
    /\ pc' = "done"
    /\ resp' \in ErrorCodes({"CONNECTION_REFUSED", "CONNECTION_FAILED"})
    /\ UNCHANGED <<req, verdict>>

\* The dial fails before it reaches anyone: the address does not split, or
\* the name does not resolve.
DialFails ==
    /\ pc = "dial"
    /\ \/ /\ Targets = {}
          /\ \E code \in ErrorCodes({"CONNECTION_FAILED"}) : Respond(code)
       \/ /\ FormOf[req.host] = "name" /\ verdict.ip = NoAddr
          /\ \E code \in ErrorCodes({"HOST_NOT_FOUND"}) : Respond(code)

-----------------------------------------------------------------------------
(* The connection.  With TLS, DialWithDialer bounds dial and handshake by  *)
(* the dialer's timeout, and readBanner sets a deadline.  Without TLS,     *)
(* nothing bounds smtp.NewClient, StartTLS and the deferred Quit.          *)

Bounded == {"dial", "handshake", "banner"}
Unbounded == {"greeting", "starttls", "quit"}

HandshakeDone ==
    /\ pc = "handshake"
    /\ IF req.fn = "tcp" THEN Respond("OK")
       ELSE pc' = "banner" /\ UNCHANGED <<req, verdict, resp, reached>>

\* handleTCPError and classifySMTPError name a bad certificate differently.
HandshakeFails ==
    /\ pc = "handshake"
    /\ LET certificate == IF req.fn = "tcp" THEN "TLS_ERROR"
                                            ELSE "TLS_CERTIFICATE_ERROR"
       IN  \E code \in ErrorCodes({certificate, "CONNECTION_FAILED"}) :
               Respond(code)

BannerRead == pc = "banner" /\ (Respond("OK") \/ Respond("READ_BANNER_FAILED"))

\* The dial waits for an answer that does not come.
DialTimesOut ==
    /\ pc = "dial" /\ pc' = "done"
    /\ \E a \in Targets : Reach(a)
    /\ resp' = "TIMEOUT"
    /\ UNCHANGED <<req, verdict>>

\* A timer or a deadline fires.  A dial says "i/o timeout"; a handshake cut
\* off by the dialer's timer says that a deadline was exceeded, which the
\* classification does not recognise unless it was the caller's deadline too.
TimesOut ==
    \/ DialTimesOut
    \/ /\ pc = "handshake"
       /\ \E code \in ErrorCodes({"CONNECTION_FAILED"}) : Respond(code)
    \/ pc = "banner" /\ Respond("READ_BANNER_FAILED")

MutantGreeted ==
    /\ pc = "greeting"
    /\ \/ /\ pc' = IF req.useSTARTTLS THEN "starttls" ELSE "quit"
          /\ resp' = "OK"
          /\ UNCHANGED <<req, verdict, reached>>
       \/ Respond("SMTP_CLIENT_FAILED")

\* smtp.NewClient has read the greeting, or has failed and closed.
Greeted ==
    /\ pc = "greeting"
    /\ \/ /\ pc' = IF req.useSTARTTLS THEN "starttls" ELSE "quit"
          /\ resp' = IF req.useSTARTTLS THEN resp ELSE "OK"
          /\ UNCHANGED <<req, verdict, reached>>
       \/ Respond("SMTP_CLIENT_FAILED")

\* client.StartTLS returns; the response is settled, and Quit follows.
StartTLS ==
    /\ pc = "starttls" /\ pc' = "quit"
    /\ resp' \in {"OK", "STARTTLS_FAILED"}
    /\ UNCHANGED <<req, verdict, reached>>

\* The deferred client.Quit returns, whatever it says.
Quit == pc = "quit" /\ Respond(resp)

-----------------------------------------------------------------------------
Next ==
    \/ \E r \in Requests : \/ Invalid(r) \/ Unprotected(r)
                           \/ FilterEarly(r) \/ StartLookup(r)
    \/ Taken
    \/ \E a \in Addr \cup {NoAddr} : LookupIP(a)
    \/ \E a \in Addr : Connected(a) \/ DialRefused(a)
    \/ DialFails
    \/ HandshakeDone \/ HandshakeFails \/ BannerRead
    \/ TimesOut
    \/ Greeted \/ StartTLS \/ Quit

Spec == Init /\ [][Next]_vars

\* The resolver gives up by itself, a dial that cannot be made fails, and
\* timers fire.  Nothing is assumed of the peer.
Fairness ==
    /\ WF_vars(\E a \in Addr \cup {NoAddr} : LookupIP(a))
    /\ WF_vars(DialFails)
    /\ WF_vars(TimesOut)

-----------------------------------------------------------------------------
\* Every variable keeps its type; in particular a request that waits for
\* something has no response yet, except at the final Quit.
TypeOK ==
    /\ pc \in {"idle", "lookup", "done"} \cup Bounded \cup Unbounded
    /\ req \in Requests
    /\ verdict \in Verdicts
    /\ resp \in Codes
    /\ pc \notin {"quit", "done"} => resp = "none"
    /\ reached \subseteq {"guarded", "private"} \X Addr

\* DNS rebinding: whatever DNS answers to the filter and later to the dial,
\* and however the host is spelled, a protected connection is only made to
\* an address its allowPrivate lets through.
NoForbiddenConnect ==
    \A d \in reached : ~Forbidden(d[2], d[1] = "private")

\* The verdict against a reference.  What passes has a permitted port (a
\* bare IPv6 literal has none), and was allowlisted, or is neither
\* blocklisted by host or address nor in a network the options block.  It
\* passes without an address only if allowlisted or if DNS is off.  This is
\* the precedence of ValidateAddress (ports, then allowlist, then blocklist)
\* and not that of the comments of WithAllowlist ("bypass all other checks")
\* and WithBlocklist ("checked before other rules").
VerdictMatchesReference ==
    verdict.allowed =>
        LET cfg  == Config(req)
            port == IF FormOf[req.host] = "v6" THEN 0 ELSE req.port
            Covers(list) == \E p \in list :
                \/ req.host \in HostsOf[p] /\ ~Swallowed(req.host, req.port)
                \/ Parsed(req).literal \in CidrOf[p]
            Open == {"public"}
                \cup (IF cfg.blockPrivate THEN {} ELSE {"private"})
                \cup (IF cfg.blockLocalhost THEN {} ELSE {"loopback"})
                \cup (IF cfg.blockLinkLocal THEN {} ELSE {"linklocal"})
        IN  /\ port \in {0} \cup cfg.allowedPorts \/ cfg.allowedPorts = {}
            /\ port \notin cfg.blockedPorts
            /\ \/ Covers(cfg.allowlist)
               \/ /\ ~Covers(cfg.blocklist)
                  /\ verdict.ip = NoAddr => ~cfg.resolveDNS
                  /\ verdict.ip # NoAddr =>
                        /\ ClassOf[verdict.ip] \in Open
                        /\ \A p \in cfg.blocklist : verdict.ip \notin CidrOf[p]

\* A request never hangs on DNS, a dial, a handshake or a banner, however
\* silent the peer: it ends, or it is in one of the SMTP exchanges that have
\* no deadline.
OnlyPlainSMTPHangs ==
    pc \in {"lookup"} \cup Bounded ~> pc \in {"done"} \cup Unbounded
=============================================================================
