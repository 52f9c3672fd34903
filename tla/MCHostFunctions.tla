----------------------------- MODULE MCHostFunctions ------------------------
(***************************************************************************)
(* An instance of HostFunctions for TLC.  "lo6" stands for ::1, and        *)
(* "pub6" for what ::1:25 spells, an address of no special network.        *)
(***************************************************************************)
EXTENDS HostFunctions

MCAddr == {"pub", "pub6", "lo", "lo6", "ll"}
MCClassOf == [a \in Addr |-> CASE a \in {"lo", "lo6"} -> "loopback"
                               [] a = "ll" -> "linklocal"
                               [] OTHER -> "public"]
MCIPv4 == {"pub", "lo", "ll"}

MCHost == {"name", "127.0.0.1", "[::1]", "::1", "1:2:3:4:5:6:7:8", "x]", ""}
MCFormOf == [h \in Host |-> CASE h = "name" -> "name"
                              [] h = "127.0.0.1" -> "v4"
                              [] h = "[::1]" -> "bracketed"
                              [] h = "x]" -> "broken"
                              [] h = "" -> "empty"
                              [] OTHER -> "v6"]
MCLiteralOf == [h \in Host |-> CASE h = "127.0.0.1" -> "lo"
                                 [] h \in {"[::1]", "::1"} -> "lo6"
                                 [] h = "1:2:3:4:5:6:7:8" -> "pub6"
                                 [] OTHER -> NoAddr]
MCJoinedOf == [h \in Host |-> IF h = "::1" THEN "pub6" ELSE NoAddr]

\* A host by name, a CIDR of public addresses, and one of loopback ones.
MCHostsOf == [p \in Pattern |-> IF p = "name" THEN {"name"} ELSE {}]
MCCidrOf == [p \in Pattern |-> CASE p = "net" -> {"pub", "pub6"}
                                 [] p = "local" -> {"lo", "lo6"}
                                 [] OTHER -> {}]

MCConfigs ==
    LET d == defaultNetfilterConfig
    IN  {d, [d EXCEPT !.resolveDNS = FALSE],
         [d EXCEPT !.allowedPorts = {443}],
         [d EXCEPT !.blockedPorts = {65535}, !.allowlist = {"name"}],
         [d EXCEPT !.blocklist = {"net"}, !.allowlist = {"local"}],
         [d EXCEPT !.blocklist = {"net"}, !.blockLocalhost = FALSE,
                   !.blockPrivate = FALSE],
         [d EXCEPT !.blocklist = {"name"}, !.allowlist = {"net"},
                   !.resolveDNS = FALSE],
         [d EXCEPT !.blocklist = {"name", "local"},
                   !.allowlist = {"name", "local"},
                   !.allowedPorts = {25, 443}]}

\* DNS: no answer at all, one family, and both.
MCDnsAnswers == {{}, {"192.0.2.1"}, {"::1"}, {"::1", "192.0.2.1"}}

\* Environments: none, an empty one, one with every kind of entry, and one
\* of which nothing may be left.  The key of an entry is its own name here.
MCKeyOf == [e \in Entry |-> IF e = "bare" THEN NoKey ELSE e]
MCUpperKey == [k \in Key |-> CASE k = "ld_audit" -> "LD_AUDIT"
                               [] k = "path" -> "PATH"
                               [] OTHER -> k]
MCEnvs == {NilEnv, {}, {"FOO", "ld_audit", "IFS", "path", "HOME"},
           {"bare", "PATH"}}
=============================================================================
