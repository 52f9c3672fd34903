------------------------ MODULE HostFunctions_proofs ------------------------
(***************************************************************************)
(* Proofs about the host functions of HostFunctions: for any hosts, ports, *)
(* addresses, patterns and options of a filter, any DNS answers, any       *)
(* environments and any limit of the output.                               *)
(***************************************************************************)
EXTENDS HostFunctions, TLAPS

-----------------------------------------------------------------------------
(* tcp_connect, smtp_connect and ValidateAddress.                          *)

\* The reference of VerdictMatchesReference, for a request and a verdict.
Covers(r, list) ==
    \E p \in list : \/ r.host \in HostsOf[p] /\ ~Swallowed(r.host, r.port)
                    \/ Parsed(r).literal \in CidrOf[p]

OpenClasses(cfg) ==
    {"public"} \cup (IF cfg.blockPrivate THEN {} ELSE {"private"})
               \cup (IF cfg.blockLocalhost THEN {} ELSE {"loopback"})
               \cup (IF cfg.blockLinkLocal THEN {} ELSE {"linklocal"})

PortPermitted(r) ==
    LET cfg  == Config(r)
        port == IF FormOf[r.host] = "v6" THEN 0 ELSE r.port
    IN  /\ port \in {0} \cup cfg.allowedPorts \/ cfg.allowedPorts = {}
        /\ port \notin cfg.blockedPorts

Passable(r, a) ==
    LET cfg == Config(r)
    IN  /\ ~Covers(r, cfg.blocklist)
        /\ a = NoAddr => ~cfg.resolveDNS
        /\ a # NoAddr => /\ ClassOf[a] \in OpenClasses(cfg)
                         /\ \A p \in cfg.blocklist : a \notin CidrOf[p]

Reference(r, v) ==
    v.allowed =>
        PortPermitted(r) /\ (Covers(r, Config(r).allowlist) \/ Passable(r, v.ip))

\* A request that is waited for has been let in by the checks before it.
Asked ==
    pc = "lookup" =>
        /\ Filters(req) /\ Config(req).resolveDNS
        /\ beforeLookup(Parsed(req), Config(req)) = "go"

Connects == pc \in Bounded \cup Unbounded => req.fn # "validate"

\* A protected dial has the address that the filter has seen.
DialsVerdict ==
    pc = "dial" /\ req.ssrf # "none" =>
        /\ verdict.ip \in Addr
        /\ checkIPSecurityRestrictions(verdict.ip,
                                       netfilterConfig(req.ssrf = "private"))

ConnectInv ==
    /\ TypeOK
    /\ pc \in {"idle", "lookup"} => verdict = Refused
    /\ Asked /\ Connects /\ DialsVerdict
    /\ Reference(req, verdict)
    /\ NoForbiddenConnect

\* The fields a request has, and the configuration it is filtered by.
FilterConfigs ==
    [allowlist : SUBSET Pattern, blocklist : SUBSET Pattern,
     allowedPorts : SUBSET Int, blockedPorts : SUBSET Int,
     blockPrivate : BOOLEAN, blockLocalhost : BOOLEAN,
     blockLinkLocal : BOOLEAN, blockMulticast : {TRUE}, resolveDNS : BOOLEAN]

LEMMA RequestFields ==
  ASSUME NEW r \in Requests
  PROVE  /\ r.host \in Host /\ r.port \in Int
         /\ r.fn \in {"validate", "tcp", "smtp"}
         /\ r.fn = "validate" => r.port \in Nat /\ r.cfg \in Configs
         /\ r.fn # "validate" => r.ssrf \in Protection
  BY PortAssumption DEF Requests

LEMMA NoRequestIsOne == NoRequest \in Requests
  <1>1. PICK h \in Host, p \in Port : TRUE
    BY PortAssumption
  <1>2. [fn |-> "tcp", host |-> h, port |-> p, ssrf |-> "none",
         useTLS |-> FALSE] \in Requests
    BY <1>1 DEF Requests, Protection
  <1> QED
    BY <1>2 DEF NoRequest

LEMMA DefaultConfigs ==
  ASSUME NEW b \in BOOLEAN
  PROVE  LET cfg == netfilterConfig(b)
         IN  /\ cfg \in FilterConfigs
             /\ cfg.allowlist = {} /\ cfg.resolveDNS = TRUE
  BY DEF netfilterConfig, defaultNetfilterConfig, FilterConfigs

LEMMA ConfigIsOne ==
  ASSUME NEW r \in Requests
  PROVE  /\ Config(r) \in FilterConfigs
         /\ r.fn # "validate" => /\ Config(r).allowlist = {}
                                 /\ Config(r).resolveDNS = TRUE
<1>1. CASE r.fn = "validate"
  BY <1>1, RequestFields, ConfigsAssumption DEF Config, FilterConfigs
<1>2. CASE r.fn # "validate"
  <2>1. Config(r) = netfilterConfig(r.ssrf = "private")
        /\ (r.ssrf = "private") \in BOOLEAN
    BY <1>2 DEF Config
  <2> QED
    BY <1>2, <2>1, DefaultConfigs
<1> QED
  BY <1>1, <1>2

\* A pattern matches what is parsed exactly when it covers the request.
LEMMA MatchIsCover ==
  ASSUME NEW r \in Requests, NEW list \in SUBSET Pattern
  PROVE  (\E p \in list : matchesPattern(Parsed(r), p)) <=> Covers(r, list)
<1>1. \A p \in list : matchesPattern(Parsed(r), p) <=>
          \/ r.host \in HostsOf[p] /\ ~Swallowed(r.host, r.port)
          \/ Parsed(r).literal \in CidrOf[p]
  BY DEF matchesPattern, Parsed, parseAddress
<1> QED
  BY <1>1 DEF Covers

\* What the checks before the lookup have established.
LEMMA EarlyIsRight ==
  ASSUME NEW r \in Requests, Filters(r),
         beforeLookup(Parsed(r), Config(r)) # "refuse"
  PROVE  LET early == beforeLookup(Parsed(r), Config(r))
         IN  /\ PortPermitted(r)
             /\ early = "allow" => Covers(r, Config(r).allowlist)
             /\ early = "go" => ~Covers(r, Config(r).blocklist)
             /\ early = "allow" => r.fn = "validate"
<1> DEFINE cfg == Config(r)
<1>1. cfg \in FilterConfigs /\ (r.fn # "validate" => cfg.allowlist = {})
  BY ConfigIsOne
<1>2. r.port \in Nat /\ r.host \in Host
  <2>1. CASE r.fn = "validate"
    BY <2>1, RequestFields
  <2>2. CASE r.fn # "validate"
    BY <2>2, RequestFields DEF Filters, Valid
  <2> QED
    BY <2>1, <2>2
<1>3. checkPortRestrictions(Parsed(r).port, cfg)
      /\ beforeLookup(Parsed(r), cfg) = checkHostLists(Parsed(r), cfg)
  BY DEF beforeLookup
<1>4. Parsed(r).port = IF FormOf[r.host] = "v6" THEN 0 ELSE r.port
  BY <1>2 DEF Parsed, parseAddress, Swallowed
<1>5. Parsed(r).port \in Nat
  BY <1>2, <1>4
<1>6. cfg.allowedPorts \subseteq Int /\ cfg.blockedPorts \subseteq Int
      /\ cfg.allowlist \in SUBSET Pattern /\ cfg.blocklist \in SUBSET Pattern
  BY <1>1 DEF FilterConfigs
<1> HIDE DEF cfg
<1>7. /\ Parsed(r).port \in {0} \cup cfg.allowedPorts \/ cfg.allowedPorts = {}
      /\ Parsed(r).port \notin cfg.blockedPorts
  BY <1>3, <1>5 DEF checkPortRestrictions
<1>8. PortPermitted(r)
  BY <1>4, <1>7 DEF PortPermitted, cfg
<1>9. /\ checkHostLists(Parsed(r), cfg) = "allow" => Covers(r, cfg.allowlist)
      /\ checkHostLists(Parsed(r), cfg) = "go" => ~Covers(r, cfg.blocklist)
  BY <1>6, MatchIsCover DEF checkHostLists
<1>10. checkHostLists(Parsed(r), cfg) = "allow" => cfg.allowlist # {}
  BY DEF checkHostLists
<1> QED
  BY <1>1, <1>3, <1>8, <1>9, <1>10 DEF cfg

\* What the checks after it establish.
LEMMA ResolvedIsRight ==
  ASSUME NEW r \in Requests, Filters(r),
         beforeLookup(Parsed(r), Config(r)) = "go",
         NEW a \in Addr \cup {NoAddr},
         NEW v, v = resolveAndValidateIP(a, Config(r))
  PROVE  /\ v \in Verdicts /\ Reference(r, v)
         /\ r.fn # "validate" /\ v.allowed =>
               v.ip \in Addr /\ checkIPSecurityRestrictions(v.ip, Config(r))
<1>1. PortPermitted(r) /\ ~Covers(r, Config(r).blocklist)
  BY EarlyIsRight
<1>2. Config(r) \in FilterConfigs
      /\ (r.fn # "validate" => Config(r).resolveDNS = TRUE)
  BY ConfigIsOne
<1>3. /\ Refused \in Verdicts /\ Refused.allowed = FALSE
      /\ AllowedAs(a) \in Verdicts /\ AllowedAs(a).ip = a
  BY DEF Refused, AllowedAs, Verdicts
<1>4. CASE v = Refused
  BY <1>3, <1>4 DEF Reference
<1>5. CASE a = NoAddr /\ v # Refused
  <2>1. ~Config(r).resolveDNS /\ v = AllowedAs(a)
    BY <1>5 DEF resolveAndValidateIP
  <2>2. Passable(r, a)
    BY <1>1, <1>5, <2>1 DEF Passable
  <2> QED
    BY <1>1, <1>2, <1>3, <2>1, <2>2 DEF Reference
<1>6. CASE a # NoAddr /\ v # Refused
  <2>1. validateIP(a, Config(r)) /\ v = AllowedAs(a) /\ a \in Addr
    BY <1>6 DEF resolveAndValidateIP
  <2>2. checkIPSecurityRestrictions(a, Config(r))
        /\ \A p \in Config(r).blocklist : a \notin CidrOf[p]
    BY <2>1 DEF validateIP
  <2>3. ClassOf[a] \in Classes /\ Config(r).blockMulticast = TRUE
    BY <1>2, <2>1, ClassAssumption DEF FilterConfigs
  <2>4. ClassOf[a] \in OpenClasses(Config(r))
    BY <2>2, <2>3 DEF checkIPSecurityRestrictions, OpenClasses, Classes
  <2>5. Passable(r, a)
    BY <1>1, <1>6, <2>2, <2>4 DEF Passable
  <2> QED
    BY <1>1, <1>3, <2>1, <2>2, <2>5 DEF Reference
<1> QED
  BY <1>4, <1>5, <1>6

LEMMA RestrictedIsNotForbidden ==
  ASSUME NEW a \in Addr, NEW b \in BOOLEAN,
         checkIPSecurityRestrictions(a, netfilterConfig(b))
  PROVE  ~Forbidden(a, b)
<1>1. ClassOf[a] \in Classes
  BY ClassAssumption
<1>2. CASE b
  BY <1>1, <1>2 DEF checkIPSecurityRestrictions, netfilterConfig,
     defaultNetfilterConfig, Forbidden, Classes
<1>3. CASE ~b
  BY <1>1, <1>3 DEF checkIPSecurityRestrictions, netfilterConfig,
     defaultNetfilterConfig, Forbidden, Classes
<1> QED
  BY <1>2, <1>3

LEMMA ConnectInitially == Init => ConnectInv
<1> SUFFICES ASSUME Init PROVE ConnectInv
  OBVIOUS
<1>1. Refused \in Verdicts /\ Refused.allowed = FALSE
  BY DEF Refused, Verdicts
<1>2. TypeOK
  BY <1>1, NoRequestIsOne DEF Init, TypeOK, Codes, Bounded, Unbounded
<1> QED
  BY <1>1, <1>2 DEF Init, ConnectInv, Asked, Connects, DialsVerdict,
     Reference, NoForbiddenConnect, Bounded, Unbounded

LEMMA ReferencePrimed ==
    Reference(req, verdict)' <=> Reference(req', verdict')
  BY DEF Reference, PortPermitted, Passable, Covers, OpenClasses, Config,
         Parsed

LEMMA DialsVerdictPrimed ==
    DialsVerdict' <=>
        (pc' = "dial" /\ req'.ssrf # "none" =>
            /\ verdict'.ip \in Addr
            /\ checkIPSecurityRestrictions(verdict'.ip,
                                       netfilterConfig(req'.ssrf = "private")))
  BY DEF DialsVerdict, checkIPSecurityRestrictions, netfilterConfig

\* A request that starts has no response and no verdict.
LEMMA Fresh ==
  ASSUME ConnectInv, pc \in {"idle", "lookup"}
  PROVE  resp = "none" /\ verdict = Refused /\ verdict \in Verdicts
         /\ verdict.allowed = FALSE
  BY DEF ConnectInv, TypeOK, Refused, Verdicts

\* The verdict is in: the request goes on to its connection or ends.
LEMMA DecidedStep ==
  ASSUME ConnectInv, pc \in {"idle", "lookup"},
         NEW r \in Requests, NEW v \in Verdicts,
         req' = r, Decided(r, v), UNCHANGED reached,
         Reference(r, v),
         r.fn # "validate" /\ v.allowed =>
             v.ip \in Addr /\ checkIPSecurityRestrictions(v.ip, Config(r))
  PROVE  ConnectInv'
<1>1. resp = "none"
  BY Fresh
<1>2. verdict' = v
  BY DEF Decided
<1>3. Reference(req, verdict)'
  BY <1>2, ReferencePrimed
<1>4. NoForbiddenConnect'
  BY DEF ConnectInv, NoForbiddenConnect, Forbidden
<1>5. CASE pc' = "done" /\ resp' \in Codes
  <2>1. DialsVerdict'
    BY <1>5, DialsVerdictPrimed
  <2> QED
    BY <1>2, <1>3, <1>4, <1>5, <2>1 DEF ConnectInv, TypeOK, Asked, Connects,
       Bounded, Unbounded
<1>6. CASE pc' = "dial" /\ resp' = resp /\ r.fn # "validate" /\ v.allowed
  <2>1. Config(r) = netfilterConfig(r.ssrf = "private")
    BY <1>6 DEF Config
  <2>2. DialsVerdict'
    BY <1>2, <1>6, <2>1, DialsVerdictPrimed
  <2> QED
    BY <1>1, <1>2, <1>3, <1>4, <1>6, <2>2 DEF ConnectInv, TypeOK, Asked,
       Connects, Bounded, Unbounded
<1> QED
  BY <1>1, <1>5, <1>6 DEF Decided, Codes

\* A step of a connection, which keeps the request and its verdict.
LEMMA ConnectionStep ==
  ASSUME ConnectInv, pc \in Bounded \cup Unbounded,
         UNCHANGED <<req, verdict>>,
         pc' \in {"done", "handshake", "banner"} \cup Unbounded,
         resp' \in Codes, pc' \notin {"quit", "done"} => resp' = "none",
         reached' \subseteq {"guarded", "private"} \X Addr,
         \A d \in reached' : ~Forbidden(d[2], d[1] = "private")
  PROVE  ConnectInv'
<1>1. Reference(req, verdict)'
  BY ReferencePrimed DEF ConnectInv
<1>2. DialsVerdict'
  BY DialsVerdictPrimed DEF Unbounded
<1>3. NoForbiddenConnect'
  BY DEF NoForbiddenConnect, Forbidden
<1> QED
  BY <1>1, <1>2, <1>3 DEF ConnectInv, TypeOK, Asked, Connects, Bounded,
     Unbounded

\* Whom a dial reaches is let through by the request's protection.
LEMMA ReachedIsPermitted ==
  ASSUME ConnectInv, pc = "dial", NEW a \in Addr, a \in Targets, Reach(a)
  PROVE  /\ reached' \subseteq {"guarded", "private"} \X Addr
         /\ \A d \in reached' : ~Forbidden(d[2], d[1] = "private")
<1>1. reached \subseteq {"guarded", "private"} \X Addr
      /\ \A d \in reached : ~Forbidden(d[2], d[1] = "private")
  BY DEF ConnectInv, TypeOK, NoForbiddenConnect
<1>2. CASE req.ssrf = "none"
  BY <1>1, <1>2 DEF Reach
<1>3. CASE req.ssrf # "none"
  <2>1. req.ssrf \in {"guarded", "private"}
    BY <1>3, RequestFields DEF ConnectInv, TypeOK, Connects, Bounded,
       Protection
  <2>2. verdict.ip \in Addr /\
        checkIPSecurityRestrictions(verdict.ip,
                                    netfilterConfig(req.ssrf = "private"))
    BY <1>3 DEF ConnectInv, DialsVerdict
  <2>3. a = verdict.ip
    BY <2>2, AddrAssumption DEF Targets
  <2>4. ~Forbidden(a, req.ssrf = "private")
    BY <2>2, <2>3, RestrictedIsNotForbidden
  <2>5. reached' = reached \cup {<<req.ssrf, a>>}
    BY <1>3 DEF Reach
  <2> QED
    BY <1>1, <2>1, <2>4, <2>5
<1> QED
  BY <1>2, <1>3

\* Whatever the caller's deadline makes of an error, it stays a code.
LEMMA ErrorCodesAreCodes ==
  ASSUME NEW codes \in SUBSET Codes
  PROVE  ErrorCodes(codes) \subseteq Codes
  BY DEF ErrorCodes, Codes

LEMMA ConnectStep == ConnectInv /\ [Next]_vars => ConnectInv'
<1> SUFFICES ASSUME ConnectInv, [Next]_vars PROVE ConnectInv'
  OBVIOUS
<1>0. TypeOK
  BY DEF ConnectInv
<1>1. ASSUME NEW r \in Requests, Invalid(r) \/ Unprotected(r)
      PROVE  ConnectInv'
  <2>1. resp = "none" /\ verdict = Refused /\ verdict \in Verdicts
        /\ verdict.allowed = FALSE /\ verdict' = verdict
        /\ req' = r /\ reached' = reached /\ r.fn # "validate"
    BY <1>1, Fresh DEF Invalid, Unprotected, Accept
  <2>2. \/ pc' = "done" /\ resp' = "INVALID_REQUEST"
        \/ pc' = "dial" /\ resp' = "none" /\ r.ssrf = "none"
    BY <1>1, <2>1 DEF Invalid, Unprotected, Accept
  <2>3. Reference(req, verdict)' /\ DialsVerdict'
    BY <2>1, <2>2, ReferencePrimed, DialsVerdictPrimed DEF Reference
  <2>4. NoForbiddenConnect'
    BY <2>1 DEF ConnectInv, NoForbiddenConnect, Forbidden
  <2> QED
    BY <1>0, <2>1, <2>2, <2>3, <2>4 DEF ConnectInv, TypeOK, Asked, Connects,
       Bounded, Unbounded, Codes
<1>2. ASSUME NEW r \in Requests, FilterEarly(r) PROVE ConnectInv'
  <2> DEFINE early == beforeLookup(Parsed(r), Config(r))
  <2>1. pc = "idle" /\ req' = r /\ UNCHANGED reached /\ Filters(r)
    BY <1>2 DEF FilterEarly
  <2>2. /\ Refused \in Verdicts /\ Refused.allowed = FALSE
        /\ AllowedAs(NoAddr) \in Verdicts
    BY DEF Refused, AllowedAs, Verdicts
  <2>3. CASE Decided(r, Refused)
    BY <2>1, <2>2, <2>3, DecidedStep DEF Reference
  <2>4. CASE early = "allow" /\ Decided(r, AllowedAs(NoAddr))
    <3>1. PortPermitted(r) /\ Covers(r, Config(r).allowlist)
          /\ r.fn = "validate"
      BY <2>1, <2>4, EarlyIsRight
    <3> QED
      BY <2>1, <2>2, <2>4, <3>1, DecidedStep DEF Reference
  <2>5. CASE early = "go"
             /\ Decided(r, resolveAndValidateIP(Parsed(r).literal, Config(r)))
    <3>1. Parsed(r).literal \in Addr \cup {NoAddr}
      BY RequestFields, HostAssumption DEF Parsed, parseAddress
    <3> QED
      BY <2>1, <2>5, <3>1, ResolvedIsRight, DecidedStep
  <2> QED
    BY <1>2, <2>3, <2>4, <2>5 DEF FilterEarly
<1>3. ASSUME NEW r \in Requests, StartLookup(r) PROVE ConnectInv'
  <2>1. resp = "none" /\ verdict = Refused /\ verdict \in Verdicts
        /\ verdict.allowed = FALSE /\ verdict' = verdict /\ resp' = resp
        /\ req' = r /\ reached' = reached /\ pc' = "lookup"
    BY <1>3, Fresh DEF StartLookup, Accept
  <2>2. Reference(req, verdict)' /\ DialsVerdict'
    BY <2>1, ReferencePrimed, DialsVerdictPrimed DEF Reference
  <2>3. NoForbiddenConnect'
    BY <2>1 DEF ConnectInv, NoForbiddenConnect, Forbidden
  <2>4. Asked'
    BY <1>3, <2>1 DEF StartLookup, Asked, Filters, Valid, Config, Parsed
  <2> QED
    BY <1>0, <2>1, <2>2, <2>3, <2>4 DEF ConnectInv, TypeOK, Connects,
       Bounded, Unbounded
<1>4. CASE Taken
  <2>1. Refused \in Verdicts /\ Refused.allowed = FALSE
    BY DEF Refused, Verdicts
  <2>2. pc' = "idle" /\ req' = NoRequest /\ verdict' = Refused
        /\ resp' = "none" /\ reached' = {}
    BY <1>4 DEF Taken
  <2>3. Reference(req, verdict)' /\ DialsVerdict'
    BY <2>1, <2>2, ReferencePrimed, DialsVerdictPrimed DEF Reference
  <2> QED
    BY <2>1, <2>2, <2>3, NoRequestIsOne DEF ConnectInv, TypeOK, Asked,
       Connects, NoForbiddenConnect, Bounded, Unbounded, Codes, Refused
<1>5. ASSUME NEW a \in Addr \cup {NoAddr}, LookupIP(a) PROVE ConnectInv'
  <2>1. Filters(req) /\ beforeLookup(Parsed(req), Config(req)) = "go"
    BY <1>5 DEF LookupIP, ConnectInv, Asked
  <2> QED
    BY <1>0, <1>5, <2>1, ResolvedIsRight, DecidedStep DEF LookupIP, TypeOK
<1>6. ASSUME NEW a \in Addr, Connected(a) \/ DialRefused(a)
      PROVE  ConnectInv'
  <2>1. /\ reached' \subseteq {"guarded", "private"} \X Addr
        /\ \A d \in reached' : ~Forbidden(d[2], d[1] = "private")
    BY <1>6, ReachedIsPermitted DEF Connected, DialRefused
  <2>2. pc = "dial" /\ resp = "none"
    BY <1>0, <1>6 DEF Connected, DialRefused, TypeOK
  <2>3. ErrorCodes({"CONNECTION_REFUSED", "CONNECTION_FAILED"}) \subseteq Codes
    BY ErrorCodesAreCodes DEF Codes
  <2>4. CASE Connected(a)
    BY <2>1, <2>2, <2>4, ConnectionStep DEF Connected, Bounded, Unbounded,
       Codes
  <2>5. CASE DialRefused(a)
    BY <2>1, <2>2, <2>3, <2>5, ConnectionStep DEF DialRefused, Bounded
  <2> QED
    BY <1>6, <2>4, <2>5
<1>7. reached \subseteq {"guarded", "private"} \X Addr
      /\ \A d \in reached : ~Forbidden(d[2], d[1] = "private")
  BY DEF ConnectInv, TypeOK, NoForbiddenConnect
<1>8. CASE DialFails \/ HandshakeFails \/ BannerRead \/ Quit
  <2>1. /\ ErrorCodes({"CONNECTION_FAILED"}) \subseteq Codes
        /\ ErrorCodes({"HOST_NOT_FOUND"}) \subseteq Codes
        /\ \A c \in {"TLS_ERROR", "TLS_CERTIFICATE_ERROR"} :
               ErrorCodes({c, "CONNECTION_FAILED"}) \subseteq Codes
    BY ErrorCodesAreCodes DEF Codes
  <2>2. PICK code \in Codes : Respond(code) /\ pc \in Bounded \cup Unbounded
    BY <1>0, <1>8, <2>1 DEF DialFails, HandshakeFails, BannerRead, Quit,
       Bounded, Unbounded, Codes, TypeOK
  <2> QED
    BY <1>7, <2>2, ConnectionStep DEF Respond
<1>9. CASE HandshakeDone
  BY <1>0, <1>7, <1>9, ConnectionStep DEF HandshakeDone, Respond, Bounded,
     Unbounded, Codes, TypeOK
<1>10. CASE DialTimesOut
  <2>1. PICK a \in Targets : Reach(a)
    BY <1>10 DEF DialTimesOut
  <2>2. a \in Addr
    BY <1>0, <2>1, IPv4Assumption, HostAssumption, RequestFields
       DEF Targets, TypeOK, Verdicts
  <2>3. /\ reached' \subseteq {"guarded", "private"} \X Addr
        /\ \A d \in reached' : ~Forbidden(d[2], d[1] = "private")
    BY <1>10, <2>1, <2>2, ReachedIsPermitted DEF DialTimesOut
  <2> QED
    BY <1>10, <2>3, ConnectionStep DEF DialTimesOut, Bounded, Codes
<1>11. CASE TimesOut /\ ~DialTimesOut
  <2>1. ErrorCodes({"CONNECTION_FAILED"}) \subseteq Codes
    BY ErrorCodesAreCodes DEF Codes
  <2>2. PICK code \in Codes : Respond(code) /\ pc \in Bounded
    BY <1>11, <2>1 DEF TimesOut, Bounded, Codes
  <2> QED
    BY <1>7, <2>2, ConnectionStep DEF Respond
<1>12. CASE Greeted \/ StartTLS
  BY <1>0, <1>7, <1>12, ConnectionStep DEF Greeted, StartTLS, Respond,
     Bounded, Unbounded, Codes, TypeOK
<1>13. CASE UNCHANGED vars
  <2>1. Reference(req, verdict)' /\ DialsVerdict'
    BY <1>13, ReferencePrimed, DialsVerdictPrimed
       DEF vars, ConnectInv, DialsVerdict
  <2>2. NoForbiddenConnect' /\ Asked'
    BY <1>13 DEF vars, ConnectInv, NoForbiddenConnect, Forbidden, Asked,
       Filters, Valid, Config, Parsed
  <2> QED
    BY <1>0, <1>13, <2>1, <2>2 DEF vars, ConnectInv, TypeOK, Connects
<1> QED
  BY <1>1, <1>2, <1>3, <1>4, <1>5, <1>6, <1>8, <1>9, <1>10, <1>11, <1>12,
     <1>13 DEF Next

-----------------------------------------------------------------------------
(* dns_lookup.                                                             *)

DnsInv == DnsTypeOK

LEMMA EmptyResponse ==
  ASSUME NEW code
  PROVE  NoRecords(code).code = code /\ NoRecords(code).records = {}
  BY DEF NoRecords

LEMMA DnsInitially == DnsInit => DnsInv
<1> SUFFICES ASSUME DnsInit PROVE DnsInv
  OBVIOUS
<1>1. NoLookup \in Lookups
  BY DEF NoLookup, Lookups, RecordType, Nameserver
<1>2. dnsResp = NoRecords("none") /\ dnsResp.code = "none"
      /\ dnsResp.records = {}
  BY EmptyResponse DEF DnsInit
<1> QED
  BY <1>1, <1>2 DEF DnsInit, DnsInv, DnsTypeOK

LEMMA DnsStep == DnsInv /\ [DnsNext]_dnsVars => DnsInv'
<1> SUFFICES ASSUME DnsInv, [DnsNext]_dnsVars PROVE DnsInv'
  OBVIOUS
<1> USE DEF DnsInv, DnsTypeOK
<1>1. ASSUME NEW l \in Lookups, DnsCall(l) PROVE DnsInv'
  <2>1. CASE ToUpper(l.type) = "X"
    <3>1. dnsResp'.code = "UNSUPPORTED_TYPE" /\ dnsResp'.records = {}
      BY <1>1, <2>1, EmptyResponse DEF DnsCall
    <3> QED
      BY <1>1, <2>1, <3>1 DEF DnsCall
  <2>2. CASE ToUpper(l.type) # "X"
    BY <1>1, <2>2 DEF DnsCall
  <2> QED
    BY <2>1, <2>2
<1>2. CASE DnsTaken
  <2>1. NoLookup \in Lookups
    BY DEF NoLookup, Lookups, RecordType, Nameserver
  <2>2. dnsResp'.code = "none" /\ dnsResp'.records = {}
    BY <1>2, EmptyResponse DEF DnsTaken
  <2> QED
    BY <1>2, <2>1, <2>2 DEF DnsTaken
<1>3. ASSUME NEW found \in DnsAnswers, Found(found) PROVE DnsInv'
  <2>1. dnsResp' = [code |-> "OK", records |-> Records(lookup.type, found)]
        /\ found \subseteq Record /\ dnsPc' = "done" /\ lookup' = lookup
    BY <1>3, DnsAnswersAssumption DEF Found
  <2>2. Records(lookup.type, found) \subseteq Record
    BY <2>1 DEF Records
  <2> QED
    BY <2>1, <2>2
<1>4. CASE LookupFails \/ DnsTimesOut
  <2>1. dnsResp'.code = "LOOKUP_FAILED" /\ dnsResp'.records = {}
    BY <1>4, EmptyResponse DEF LookupFails, DnsTimesOut
  <2> QED
    BY <1>4, <2>1 DEF LookupFails, DnsTimesOut
<1>5. CASE UNCHANGED dnsVars
  BY <1>5 DEF dnsVars
<1> QED
  BY <1>1, <1>2, <1>3, <1>4, <1>5 DEF DnsNext

-----------------------------------------------------------------------------
(* exec_command.                                                           *)

\* What runs, and when.
RunsInTurn ==
    /\ status = "alive" => execPc = "run"
    /\ held => execPc \in {"run", "drain"}
    /\ execPc \in {"idle", "start"} => status = "none" /\ ~watchErr
    /\ execPc = "run" => status # "none"
    /\ watchErr => ctxErr # "none"

\* A buffer holds what has been copied, up to the limit.
Buffers == [written : 0..MaxWritten, unread : 0..MaxWritten,
            kept : 0..MaxOutput, truncated : BOOLEAN]

HoldsCopied(o) ==
    /\ o.unread <= o.written
    /\ o.kept = UpToLimit(o.written - o.unread)
    /\ o.truncated <=> o.written - o.unread > MaxOutput

CopiedOutput ==
    \A s \in Stream :
        /\ HoldsCopied(out[s])
        /\ execPc \notin {"run", "drain"} => out[s].unread = 0

\* What cmd.Run returns says how the command ended.
RunErrTells ==
    /\ execPc \in {"idle", "start", "run"} => runErr = "nil" /\ ~inTime
    /\ execPc \in {"drain", "ran"} =>
          /\ runErr = "nil" => status = "zero"
          /\ runErr = "exit" => status \in {"nonzero", "killed"}
          /\ runErr = "other" => status \in {"none", "zero"} /\ ~inTime
    /\ execPc # "done" => execResp = "none"

ExecInv ==
    /\ ExecTypeOK
    /\ RunsInTurn /\ CopiedOutput /\ RunErrTells
    /\ execPc = "idle" => childEnv = {}
    /\ NothingInherited
    /\ ReportIsTruthful

LEMMA NothingCopied == NoOutput \in Buffers /\ HoldsCopied(NoOutput)
                       /\ NoOutput.unread = 0
  BY OutputAssumption DEF NoOutput, Buffers, HoldsCopied, UpToLimit

\* Whatever the size of a write, the buffer holds what has been copied.
LEMMA WriteHoldsCopied ==
  ASSUME NEW o \in Buffers, HoldsCopied(o),
         NEW n \in 1..MaxWritten, n <= o.unread,
         NEW read, read = [o EXCEPT !.unread = @ - n],
         NEW w, w = Write(read, n)
  PROVE  w \in Buffers /\ HoldsCopied(w)
<1> USE OutputAssumption
<1>1. /\ o.written \in 0..MaxWritten /\ o.unread \in 0..MaxWritten
      /\ o.kept \in 0..MaxOutput /\ o.truncated \in BOOLEAN
  BY DEF Buffers
<1>2. o.unread - n \in 0..MaxWritten
  BY <1>1
<1>3. /\ read \in Buffers
      /\ read.written = o.written /\ read.unread = o.unread - n
      /\ read.kept = o.kept /\ read.truncated = o.truncated
  BY <1>2 DEF Buffers
<1>4. /\ o.unread <= o.written
      /\ o.kept = UpToLimit(o.written - o.unread)
      /\ o.truncated <=> o.written - o.unread > MaxOutput
  BY DEF HoldsCopied
<1>5. CASE o.kept >= MaxOutput
  <2>1. w = [read EXCEPT !.truncated = TRUE]
    BY <1>3, <1>5 DEF Write
  <2>2. w \in Buffers /\ w.written = o.written /\ w.unread = o.unread - n
        /\ w.kept = o.kept /\ w.truncated = TRUE
    BY <1>3, <2>1 DEF Buffers
  <2>3. o.written - o.unread >= MaxOutput /\ o.kept = MaxOutput
    BY <1>1, <1>4, <1>5 DEF UpToLimit
  <2>4. o.written - (o.unread - n) > MaxOutput
        /\ o.unread - n <= o.written
    BY <1>1, <1>4, <2>3
  <2> QED
    BY <2>2, <2>3, <2>4 DEF HoldsCopied, UpToLimit
<1>6. CASE o.kept < MaxOutput
  <2>1. o.written - o.unread = o.kept /\ ~o.truncated
    BY <1>1, <1>4, <1>6 DEF UpToLimit
  <2>2. CASE n > MaxOutput - o.kept
    <3>1. w = [read EXCEPT !.truncated = TRUE,
                           !.kept = @ + (MaxOutput - read.kept)]
      BY <1>1, <1>3, <1>6, <2>2 DEF Write
    <3>2. o.kept + (MaxOutput - o.kept) = MaxOutput
          /\ MaxOutput \in 0..MaxOutput
      BY <1>1
    <3>3. w \in Buffers /\ w.written = o.written /\ w.unread = o.unread - n
          /\ w.kept = MaxOutput /\ w.truncated = TRUE
      <4>1. read.kept + (MaxOutput - read.kept) = MaxOutput
        BY <1>3, <3>2
      <4>2. w = [read EXCEPT !.truncated = TRUE, !.kept = MaxOutput]
        BY <3>1, <4>1
      <4> QED
        BY <1>3, <3>2, <4>2 DEF Buffers
    <3>4. o.written - (o.unread - n) > MaxOutput
          /\ o.unread - n <= o.written
      BY <1>1, <1>4, <2>1, <2>2
    <3> QED
      BY <3>3, <3>4 DEF HoldsCopied, UpToLimit
  <2>3. CASE n <= MaxOutput - o.kept
    <3>1. w = [read EXCEPT !.kept = @ + n]
      BY <1>1, <1>3, <1>6, <2>3 DEF Write
    <3>2. o.kept + n \in 0..MaxOutput
      BY <1>1, <2>3
    <3>3. w \in Buffers /\ w.written = o.written /\ w.unread = o.unread - n
          /\ w.kept = o.kept + n /\ w.truncated = o.truncated
      BY <1>3, <3>1, <3>2 DEF Buffers
    <3>4. o.written - (o.unread - n) = o.kept + n
          /\ o.unread - n <= o.written /\ ~(o.kept + n > MaxOutput)
      BY <1>1, <1>4, <2>1, <2>3
    <3> QED
      BY <2>1, <3>3, <3>4 DEF HoldsCopied, UpToLimit
  <2> QED
    BY <1>1, <2>2, <2>3
<1> QED
  BY <1>1, <1>5, <1>6

LEMMA NoCommandIsOne == NoCommand \in Commands
  <1>1. PICK env \in Envs : TRUE
    BY EnvAssumption
  <1>2. [empty |-> TRUE, env |-> env, sanitizeEnv |-> FALSE,
         getter |-> FALSE] \in Commands
    BY <1>1 DEF Commands
  <1> QED
    BY <1>2 DEF NoCommand

LEMMA ExecInitially == ExecInit => ExecInv
<1> SUFFICES ASSUME ExecInit PROVE ExecInv
  OBVIOUS
<1>1. out \in [Stream -> Buffers]
      /\ \A s \in Stream : HoldsCopied(out[s]) /\ out[s].unread = 0
  BY NothingCopied DEF ExecInit
<1>2. ExecTypeOK
  BY <1>1, NoCommandIsOne DEF ExecInit, ExecTypeOK, Buffers
<1> QED
  BY <1>1, <1>2 DEF ExecInit, ExecInv, RunsInTurn, CopiedOutput, RunErrTells,
     NothingInherited, Entries, ReportIsTruthful

\* Both streams of a step that writes to, or reads from, one of them.
LEMMA StreamStep ==
  ASSUME ExecInv, NEW s \in Stream, NEW o,
         o \in Buffers, HoldsCopied(o),
         execPc \notin {"run", "drain"} => o.unread = 0,
         out' = [out EXCEPT ![s] = o], UNCHANGED run
  PROVE  ExecInv'
<1>1. out \in [Stream -> Buffers]
  BY DEF ExecInv, ExecTypeOK, Buffers
<1>2. out' \in [Stream -> Buffers]
      /\ \A t \in Stream : out'[t] = IF t = s THEN o ELSE out[t]
  BY <1>1
<1>3. CopiedOutput'
  <2> SUFFICES ASSUME NEW t \in Stream
               PROVE  /\ HoldsCopied(out'[t])
                      /\ execPc \notin {"run", "drain"} => out'[t].unread = 0
    BY DEF CopiedOutput, run, HoldsCopied
  <2> QED
    BY <1>2 DEF ExecInv, CopiedOutput
<1>4. ExecTypeOK'
  BY <1>2 DEF ExecInv, ExecTypeOK, run, Buffers
<1> QED
  BY <1>3, <1>4 DEF ExecInv, RunsInTurn, RunErrTells, NothingInherited,
     ReportIsTruthful, run

\* A step that leaves the streams alone, and the pipes open.
LEMMA OutputStays ==
  ASSUME ExecInv, UNCHANGED out,
         execPc' \notin {"run", "drain"} =>
             \/ execPc \notin {"run", "drain"}
             \/ \A s \in Stream : out[s].unread = 0
  PROVE  out' \in [Stream -> Buffers] /\ CopiedOutput'
  BY DEF ExecInv, ExecTypeOK, CopiedOutput, Buffers, HoldsCopied

\* The environment of a started command is what the request is left with,
\* and never the host's.
LEMMA EnvironIsRequested ==
  ASSUME NEW c \in Commands
  PROVE  Environ(CmdEnv(c)) \subseteq Entries(c.env) \cap Entry
<1>1. c.env = NilEnv \/ c.env \subseteq Entry
  BY EnvAssumption DEF Commands
<1>2. Entries(Sanitized(c)) \subseteq Entries(c.env) \cap Entry
      /\ (Sanitized(c) = NilEnv \/ Sanitized(c) \subseteq Entry)
  BY <1>1 DEF Sanitized, SanitizeEnv, Entries
<1>3. CmdEnv(c) = Entries(Sanitized(c)) /\ CmdEnv(c) \subseteq Entry
  BY <1>2 DEF CmdEnv, Entries
<1> QED
  BY <1>2, <1>3, EnvAssumption DEF Environ

LEMMA ExecStep == ExecInv /\ [ExecNext]_execVars => ExecInv'
<1> SUFFICES ASSUME ExecInv, [ExecNext]_execVars PROVE ExecInv'
  OBVIOUS
<1>0. ExecTypeOK /\ RunsInTurn /\ RunErrTells
      /\ NothingInherited /\ ReportIsTruthful
      /\ (execPc = "idle" => childEnv = {})
  BY DEF ExecInv
<1>1. ASSUME NEW c \in Commands, ExecCall(c) PROVE ExecInv'
  <2>1. out' \in [Stream -> Buffers] /\ CopiedOutput'
    BY <1>1, OutputStays DEF ExecCall
  <2>2. CASE c.empty
    BY <1>0, <1>1, <2>1, <2>2 DEF ExecCall, ExecInv, ExecTypeOK, RunsInTurn,
       RunErrTells, NothingInherited, Entries, ReportIsTruthful, Buffers
  <2>3. CASE ~c.empty
    <3>1. NothingInherited' /\ childEnv' \subseteq Entry
      BY <1>1, <2>3, EnvironIsRequested DEF ExecCall, NothingInherited, Entries
    <3> QED
      BY <1>0, <1>1, <2>1, <2>3, <3>1 DEF ExecCall, ExecInv, ExecTypeOK,
         RunsInTurn, RunErrTells, ReportIsTruthful, Buffers
  <2> QED
    BY <2>2, <2>3
<1>2. CASE ExecTaken
  <2>1. out' \in [Stream -> Buffers] /\ CopiedOutput'
    BY <1>2, NothingCopied DEF ExecTaken, CopiedOutput, HoldsCopied
  <2> QED
    BY <1>0, <1>2, <2>1, NoCommandIsOne DEF ExecTaken, ExecInv, ExecTypeOK,
       RunsInTurn, RunErrTells, NothingInherited, Entries, ReportIsTruthful, Buffers
<1>3. CASE DeadlinePasses \/ CallerCancels
  <2>1. out' \in [Stream -> Buffers] /\ CopiedOutput'
    BY <1>3, OutputStays DEF DeadlinePasses, CallerCancels
  <2> QED
    BY <1>0, <1>3, <2>1 DEF DeadlinePasses, CallerCancels, ExecInv,
       ExecTypeOK, RunsInTurn, RunErrTells, NothingInherited,
       ReportIsTruthful, Buffers
<1>4. CASE Start
  <2>1. out' \in [Stream -> Buffers] /\ CopiedOutput'
    BY <1>4, OutputStays DEF Start
  <2> QED
    BY <1>0, <1>4, <2>1 DEF Start, ExecInv, ExecTypeOK, RunsInTurn,
       RunErrTells, NothingInherited, Entries, ReportIsTruthful, Buffers
<1>5. ASSUME NEW s \in Stream, NEW n \in 1..MaxWritten, Output(s, n)
      PROVE  ExecInv'
  <2> DEFINE o == [out[s] EXCEPT !.written = @ + n, !.unread = @ + n]
  <2>1. out[s] \in Buffers /\ HoldsCopied(out[s])
    BY <1>0 DEF ExecInv, CopiedOutput, ExecTypeOK, Buffers
  <2>2. execPc \in {"run", "drain"}
    BY <1>0, <1>5 DEF Output, RunsInTurn
  <2>3. out[s].written + n \in 0..MaxWritten
        /\ out[s].unread + n \in 0..MaxWritten
        /\ out[s].unread + n <= out[s].written + n
        /\ (out[s].written + n) - (out[s].unread + n)
              = out[s].written - out[s].unread
    BY <1>5, <2>1, OutputAssumption DEF Output, Buffers, HoldsCopied
  <2>4. /\ o.written = out[s].written + n /\ o.unread = out[s].unread + n
        /\ o.kept = out[s].kept /\ o.truncated = out[s].truncated
        /\ o \in Buffers
    BY <2>1, <2>3 DEF Buffers
  <2>5. out' = [out EXCEPT ![s] = o] /\ UNCHANGED run
    BY <1>5 DEF Output
  <2> HIDE DEF o
  <2>6. HoldsCopied(o)
    BY <2>1, <2>3, <2>4 DEF HoldsCopied
  <2> QED
    BY <2>2, <2>4, <2>5, <2>6, StreamStep
<1>6. ASSUME NEW s \in Stream, NEW n \in 1..MaxWritten, Copy(s, n)
      PROVE  ExecInv'
  <2> DEFINE read == [out[s] EXCEPT !.unread = @ - n]
             w    == Write(read, n)
  <2>1. out[s] \in Buffers /\ HoldsCopied(out[s])
    BY <1>0 DEF ExecInv, CopiedOutput, ExecTypeOK, Buffers
  <2>2. UNCHANGED run /\ execPc \in {"run", "drain"} /\ n <= out[s].unread
    BY <1>6 DEF Copy
  <2>3. out' = [out EXCEPT ![s] = w]
    BY <1>6 DEF Copy
  <2>4. w \in Buffers /\ HoldsCopied(w)
    BY <2>1, <2>2, WriteHoldsCopied
  <2> HIDE DEF w
  <2> QED
    BY <2>2, <2>3, <2>4, StreamStep
<1>7. CASE Descendants
  <2>1. out' \in [Stream -> Buffers] /\ CopiedOutput'
    BY <1>7, OutputStays DEF Descendants
  <2> QED
    BY <1>0, <1>7, <2>1 DEF Descendants, ExecInv, ExecTypeOK, RunsInTurn,
       RunErrTells, NothingInherited, Entries, ReportIsTruthful, Buffers
<1>8. ASSUME NEW ended \in {"zero", "nonzero"}, Exit(ended) PROVE ExecInv'
  <2>1. out' \in [Stream -> Buffers] /\ CopiedOutput'
    BY <1>8, OutputStays DEF Exit
  <2> QED
    BY <1>0, <1>8, <2>1 DEF Exit, ExecInv, ExecTypeOK, RunsInTurn,
       RunErrTells, NothingInherited, Entries, ReportIsTruthful, Buffers
<1>9. CASE Kill
  <2>1. out' \in [Stream -> Buffers] /\ CopiedOutput'
    BY <1>9, OutputStays DEF Kill
  <2> QED
    BY <1>0, <1>9, <2>1 DEF Kill, ExecInv, ExecTypeOK, RunsInTurn,
       RunErrTells, NothingInherited, Entries, ReportIsTruthful, Buffers
<1>10. CASE Collect
  <2>1. out' \in [Stream -> Buffers] /\ CopiedOutput'
    BY <1>10, OutputStays DEF Collect
  <2> QED
    BY <1>0, <1>10, <2>1 DEF Collect, ExecInv, ExecTypeOK, RunsInTurn,
       RunErrTells, NothingInherited, Entries, ReportIsTruthful, Buffers
<1>11. CASE Drained
  <2>1. out' \in [Stream -> Buffers] /\ CopiedOutput'
    BY <1>11, OutputStays DEF Drained
  <2> QED
    BY <1>0, <1>11, <2>1 DEF Drained, ExecInv, ExecTypeOK, RunsInTurn,
       RunErrTells, NothingInherited, Entries, ReportIsTruthful, Buffers
<1>12. CASE Report
  <2>1. out' \in [Stream -> Buffers] /\ CopiedOutput'
    BY <1>12, OutputStays DEF Report
  <2>2. CASE runErr = "nil"
    <3>1. execResp' = "zero" /\ status = "zero"
      BY <1>0, <1>12, <2>2 DEF Report, RunErrTells
    <3> QED
      BY <1>0, <1>12, <2>1, <3>1 DEF Report, ExecInv, ExecTypeOK, RunsInTurn,
         RunErrTells, NothingInherited, Entries, ReportIsTruthful, Buffers
  <2>3. CASE runErr # "nil" /\ ctxErr = "deadline"
    <3>1. execResp' = "timeout" /\ ~(status = "zero" /\ inTime)
      BY <1>0, <1>12, <2>3 DEF Report, RunErrTells, ExecTypeOK
    <3> QED
      BY <1>0, <1>12, <2>1, <2>3, <3>1 DEF Report, ExecInv, ExecTypeOK,
         RunsInTurn, RunErrTells, NothingInherited, Entries, ReportIsTruthful, Buffers
  <2>4. CASE runErr = "exit" /\ ctxErr # "deadline"
    <3>1. execResp' = status /\ status \in {"nonzero", "killed"}
      BY <1>0, <1>12, <2>4 DEF Report, RunErrTells
    <3> QED
      BY <1>0, <1>12, <2>1, <2>4, <3>1 DEF Report, ExecInv, ExecTypeOK,
         RunsInTurn, RunErrTells, NothingInherited, Entries, ReportIsTruthful, Buffers
  <2>5. CASE runErr = "other" /\ ctxErr # "deadline"
    <3>1. execResp' = "EXECUTION_FAILED" /\ ~(status = "zero" /\ inTime)
      BY <1>0, <1>12, <2>5 DEF Report, RunErrTells
    <3> QED
      BY <1>0, <1>12, <2>1, <2>5, <3>1 DEF Report, ExecInv, ExecTypeOK,
         RunsInTurn, RunErrTells, NothingInherited, Entries, ReportIsTruthful, Buffers
  <2> QED
    BY <1>0, <2>2, <2>3, <2>4, <2>5 DEF ExecTypeOK
<1>13. CASE UNCHANGED execVars
  <2>1. out' \in [Stream -> Buffers] /\ CopiedOutput'
    BY <1>13, OutputStays DEF execVars
  <2> QED
    BY <1>0, <1>13, <2>1 DEF execVars, ExecInv, ExecTypeOK, RunsInTurn,
       RunErrTells, NothingInherited, Entries, ReportIsTruthful, Buffers
<1> QED
  BY <1>1, <1>2, <1>3, <1>4, <1>5, <1>6, <1>7, <1>8, <1>9, <1>10, <1>11,
     <1>12, <1>13 DEF ExecNext

-----------------------------------------------------------------------------
(* The bundle.                                                             *)

LEMMA EachInTurn ==
    [HostNext]_hostVars =>
        [Next]_vars /\ [DnsNext]_dnsVars /\ [ExecNext]_execVars
  BY DEF HostNext, hostVars

\* The three invariants hold together, whatever function is called.
THEOREM HostInvariant == HostSpec => [](ConnectInv /\ DnsInv /\ ExecInv)
<1> DEFINE I == ConnectInv /\ DnsInv /\ ExecInv
<1>1. HostInit => I
  BY ConnectInitially, DnsInitially, ExecInitially DEF HostInit
<1>2. I /\ [HostNext]_hostVars => I'
  BY EachInTurn, ConnectStep, DnsStep, ExecStep
<1> HIDE DEF I
<1>3. HostSpec => []I
  BY <1>1, <1>2, PTL DEF HostSpec
<1> QED
  BY <1>3 DEF I

\* tcp_connect, smtp_connect, ssrf_check, dns_lookup and exec_command keep
\* the types of their variables.
THEOREM HostTypesHold == HostSpec => []HostTypeOK
<1>1. ConnectInv /\ DnsInv /\ ExecInv => HostTypeOK
  BY DEF ConnectInv, DnsInv, ExecInv, HostTypeOK
<1> QED
  BY <1>1, HostInvariant, PTL

\* DNS rebinding: PerformTCPConnect and PerformSMTPConnect dial the address
\* their filter has judged, so that whatever DNS answers in between, no
\* protected connection goes to an address that its request does not allow.
THEOREM NoForbiddenHolds == HostSpec => []NoForbiddenConnect
<1>1. ConnectInv => NoForbiddenConnect
  BY DEF ConnectInv
<1> QED
  BY <1>1, HostInvariant, PTL

\* ValidateAddress decides as the reference does, for every spelling of a
\* host, every port, every option and every answer of DNS.
THEOREM VerdictHolds == HostSpec => []VerdictMatchesReference
<1>1. ConnectInv => VerdictMatchesReference
  <2> SUFFICES ASSUME ConnectInv PROVE VerdictMatchesReference
    OBVIOUS
  <2>1. Reference(req, verdict)
    BY DEF ConnectInv
  <2> QED
    BY <2>1 DEF VerdictMatchesReference, Reference, PortPermitted, Passable,
       Covers, OpenClasses
<1> QED
  BY <1>1, HostInvariant, PTL

\* The bounded buffers of PerformExecCommand lose nothing below the limit
\* and say so above it, however the output is cut into writes.
THEOREM OutputHolds == HostSpec => []OutputIsWholeOrFlagged
<1>1. ExecInv => OutputIsWholeOrFlagged
  <2> SUFFICES ASSUME ExecInv, execPc = "done", NEW s \in Stream
               PROVE  /\ out[s].kept = UpToLimit(out[s].written)
                      /\ out[s].truncated <=> out[s].written > MaxOutput
    BY DEF OutputIsWholeOrFlagged
  <2>1. HoldsCopied(out[s]) /\ out[s].unread = 0
    BY DEF ExecInv, CopiedOutput
  <2>2. out[s].written \in Int
    BY OutputAssumption DEF ExecInv, ExecTypeOK
  <2>3. out[s].written - out[s].unread = out[s].written
    BY <2>1, <2>2
  <2> QED
    BY <2>1, <2>3 DEF HoldsCopied
<1> QED
  BY <1>1, HostInvariant, PTL

\* PerformExecCommand starts no command with a variable of the host's own
\* environment that was not asked for, nil slices included.
THEOREM InheritanceHolds == HostSpec => []NothingInherited
<1>1. ExecInv => NothingInherited
  BY DEF ExecInv
<1> QED
  BY <1>1, HostInvariant, PTL

\* PerformExecCommand reports how the command ended in every order of the
\* deadline, the cancellation, the command's end and its descendants'.
THEOREM ReportHolds == HostSpec => []ReportIsTruthful
<1>1. ExecInv => ReportIsTruthful
  BY DEF ExecInv
<1> QED
  BY <1>1, HostInvariant, PTL
=============================================================================
