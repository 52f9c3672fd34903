----------------------------- MODULE Netfilter -----------------------------
(***************************************************************************)
(* The configuration of netutil/netfilter.go and its judgement of an IP    *)
(* address by the kind of network it is in.  The kinds of package net are  *)
(* disjoint.  AddressFilter adds what ValidateAddress does around it.      *)
(***************************************************************************)
CONSTANTS
    Addr,       \* IP addresses
    ClassOf     \* the kind of network of each address

Classes == {"public", "loopback", "private", "linklocal", "multicast",
            "unspecified"}

ASSUME ClassAssumption == ClassOf \in [Addr -> Classes]

defaultNetfilterConfig ==
    [allowlist      |-> {},
     blocklist      |-> {},
     allowedPorts   |-> {},
     blockedPorts   |-> {},
     blockPrivate   |-> TRUE,
     blockLocalhost |-> TRUE,
     blockLinkLocal |-> TRUE,
     blockMulticast |-> TRUE,
     resolveDNS     |-> TRUE]

\* The options SecureDialer, tcp_connect and smtp_connect build from
\* allowPrivate: WithBlockPrivate(false) and WithBlockLocalhost(false).
netfilterConfig(allowPrivate) ==
    IF allowPrivate
    THEN [defaultNetfilterConfig EXCEPT !.blockPrivate = FALSE,
                                        !.blockLocalhost = FALSE]
    ELSE defaultNetfilterConfig

\* checkIPSecurityRestrictions: is the address allowed?
checkIPSecurityRestrictions(a, cfg) ==
    /\ ~(cfg.blockLocalhost /\ ClassOf[a] = "loopback")
    /\ ~(cfg.blockPrivate /\ ClassOf[a] = "private")
    /\ ~(cfg.blockLinkLocal /\ ClassOf[a] = "linklocal")
    /\ ~(cfg.blockMulticast /\ ClassOf[a] = "multicast")
    /\ ClassOf[a] # "unspecified"

\* The addresses that no dial may reach, stated apart from the code above:
\* everything off the public internet, except private and loopback networks
\* when they have been allowed.
Forbidden(a, allowPrivate) ==
    ClassOf[a] \notin IF allowPrivate THEN {"public", "loopback", "private"}
                                      ELSE {"public"}
=============================================================================
