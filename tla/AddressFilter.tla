--------------------------- MODULE AddressFilter ---------------------------
(***************************************************************************)
(* ValidateAddress of netutil/netfilter.go: from the text of an address to *)
(* a verdict.  A text is a host, as a guest spells it, and a port joined   *)
(* to it by a colon, or no port (0).  How a text parses depends on the     *)
(* form of its host:                                                       *)
(*   "name", "v4"   no colon of its own                                    *)
(*   "bracketed"    an IPv6 literal in brackets                            *)
(*   "v6"           an IPv6 literal without them: with a port the text is  *)
(*                  an IPv6 literal again, but another one, or none        *)
(*   "broken"       net.SplitHostPort fails on it with a port              *)
(*   "empty"        the empty string                                       *)
(***************************************************************************)
EXTENDS Netfilter, Integers

CONSTANTS
    Host,       \* hosts as they are spelled
    FormOf,     \* the form of each
    LiteralOf,  \* the address a host spells, or NoAddr
    JoinedOf,   \* the address a "v6" host spells with a small port after it
    NoAddr,
    Pattern,    \* entries of an allowlist or a blocklist
    HostsOf,    \* the hosts a pattern names, or matches as *.suffix
    CidrOf      \* the addresses of a pattern that is a CIDR, else none

Forms == {"name", "v4", "bracketed", "v6", "broken", "empty"}

ASSUME AddrAssumption == NoAddr \notin Addr
ASSUME HostAssumption ==
    /\ FormOf \in [Host -> Forms]
    /\ LiteralOf \in [Host -> Addr \cup {NoAddr}]
    /\ JoinedOf \in [Host -> Addr \cup {NoAddr}]
    /\ \A h \in Host : LiteralOf[h] = NoAddr <=>
                           FormOf[h] \notin {"v4", "bracketed", "v6"}
ASSUME PatternAssumption ==
    /\ HostsOf \in [Pattern -> SUBSET Host]
    /\ CidrOf \in [Pattern -> SUBSET Addr]

-----------------------------------------------------------------------------
\* A group of an IPv6 literal has at most four digits.
MaxGroup == 9999

\* A port after a bare IPv6 literal is read as its last group.
Swallowed(h, port) == FormOf[h] = "v6" /\ port > 0

\* parseAddress: whether the text parses, the hosts it may be listed as, the
\* address it spells and its port.  Brackets come off only with a port.
parseAddress(h, port) ==
    [ok      |-> FormOf[h] = "broken" => port = 0,
     names   |-> IF Swallowed(h, port) THEN {} ELSE {h},
     literal |-> IF Swallowed(h, port)
                 THEN IF port <= MaxGroup THEN JoinedOf[h] ELSE NoAddr
                 ELSE IF FormOf[h] = "bracketed" /\ port = 0 THEN NoAddr
                 ELSE LiteralOf[h],
     port    |-> IF Swallowed(h, port) THEN 0 ELSE port]

checkPortRestrictions(port, cfg) ==
    /\ cfg.allowedPorts # {} /\ port > 0 => port \in cfg.allowedPorts
    /\ port \notin cfg.blockedPorts

matchesPattern(parsed, p) ==
    parsed.names \cap HostsOf[p] # {} \/ parsed.literal \in CidrOf[p]

\* checkHostLists: the allowlist first; "go" leaves the decision to others.
checkHostLists(parsed, cfg) ==
    IF \E p \in cfg.allowlist : matchesPattern(parsed, p) THEN "allow"
    ELSE IF \E p \in cfg.blocklist : matchesPattern(parsed, p) THEN "refuse"
    ELSE "go"

\* What ValidateAddress decides before it resolves the host.
beforeLookup(parsed, cfg) ==
    IF parsed.ok /\ checkPortRestrictions(parsed.port, cfg)
    THEN checkHostLists(parsed, cfg) ELSE "refuse"

MutantValidateIP(a, cfg) == checkIPSecurityRestrictions(a, cfg)

\* validateIP; its walk through the CIDRs of the allowlist decides nothing.
validateIP(a, cfg) ==
    /\ \A p \in cfg.blocklist : a \notin CidrOf[p]
    /\ checkIPSecurityRestrictions(a, cfg)

-----------------------------------------------------------------------------
Verdicts == [allowed : BOOLEAN, ip : Addr \cup {NoAddr}]
Refused == [allowed |-> FALSE, ip |-> NoAddr]
AllowedAs(a) == [allowed |-> TRUE, ip |-> a]

\* resolveAndValidateIP once ip is known.  Without DNS a name has no address
\* and passes; LookupIP gives at least one address or an error, so that with
\* DNS there is an address or the verdict is Refused.
resolveAndValidateIP(a, cfg) ==
    IF a = NoAddr
    THEN IF cfg.resolveDNS THEN Refused ELSE AllowedAs(NoAddr)
    ELSE IF validateIP(a, cfg) THEN AllowedAs(a) ELSE Refused

\* What net.LookupIP may answer first, NoAddr for an error: itself for a
\* literal, and only a name is asked of DNS.
Answers(h, parsed) ==
    IF parsed.literal # NoAddr THEN {parsed.literal}
    ELSE IF FormOf[h] = "name" THEN Addr \cup {NoAddr} ELSE {NoAddr}
=============================================================================
