-------------------------------- MODULE Dns ---------------------------------
(***************************************************************************)
(* PerformDNSLookup (dns.go), one lookup at a time.  The resolver of       *)
(* package net is external: it settles literals and the names of the hosts *)
(* file by itself, and otherwise asks a server, which answers, fails or    *)
(* stays silent until the context's timer fires; for addresses it asks     *)
(* for both families at once.  An answer is the set of its records.        *)
(***************************************************************************)

CONSTANTS
    Record,     \* what DNS may answer with: addresses and names
    IPv4Record, \* the addresses with a To4 form
    DnsAnswers  \* the answers considered: sets of records

ASSUME RecordAssumption == IPv4Record \subseteq Record
ASSUME DnsAnswersAssumption == DnsAnswers \subseteq SUBSET Record

\* The record types, as they are spelled and as strings.ToUpper folds them.
RecordType == {"", "A", "a", "AAAA", "aaaa", "CNAME", "MX", "TXT", "NS", "X"}
ToUpper(type) == CASE type = "a" -> "A" [] type = "aaaa" -> "AAAA"
                   [] OTHER -> type

\* A nameserver: not given, without a port, with one, or an IPv6 address
\* without one, whose colons pass for a port.
Nameserver == {"", "host", "host:53", "2001:db8::1"}
HasColon == {"host:53", "2001:db8::1"}

\* A request, with the nameserver of an embedder's WithDNSNameserver.
Lookups == [type : RecordType, nameserver : Nameserver, option : Nameserver]

VARIABLES
    dnsPc,      \* where the call is
    lookup,     \* its request
    dnsResp     \* the code and the records of the response

dnsVars == <<dnsPc, lookup, dnsResp>>

NoLookup == [type |-> "", nameserver |-> "", option |-> ""]
NoRecords(code) == [code |-> code, records |-> {}]

-----------------------------------------------------------------------------
\* The request's nameserver goes before the option's.
nameserver(l) == IF l.nameserver # "" THEN l.nameserver ELSE l.option

\* The address the resolver dials: as net.Dial reads it, an IPv6 address
\* without a port has too many colons.
ServerOf(l) ==
    LET ns == nameserver(l)
    IN  IF ns = "" THEN "system"
        ELSE IF ns \notin HasColon THEN "host:53"
        ELSE IF ns = "host:53" THEN ns ELSE "none"

DnsInit ==
    /\ dnsPc = "idle"
    /\ lookup = NoLookup
    /\ dnsResp = NoRecords("none")

\* PerformDNSLookup up to the resolver.
DnsCall(l) ==
    /\ dnsPc = "idle"
    /\ lookup' = l
    /\ IF ToUpper(l.type) = "X"
       THEN dnsPc' = "done" /\ dnsResp' = NoRecords("UNSUPPORTED_TYPE")
       ELSE dnsPc' = "resolve" /\ UNCHANGED dnsResp

\* The caller has the response; the next lookup starts afresh.
DnsTaken ==
    /\ dnsPc = "done" /\ dnsPc' = "idle"
    /\ lookup' = NoLookup
    /\ dnsResp' = NoRecords("none")

\* performHostLookup keeps the family that was asked for, going by the type
\* as it is spelled; the other lookups keep everything.
Records(type, found) ==
    {r \in found : /\ type = "A" => r \in IPv4Record
                   /\ type = "AAAA" => r \notin IPv4Record}

\* The lookups that may be settled without a server.
Local == {"", "A", "AAAA", "CNAME"}

\* The resolver returns an answer, its own or that of the server it dials.
Found(found) ==
    /\ dnsPc = "resolve"
    /\ ToUpper(lookup.type) \in Local \/ ServerOf(lookup) # "none"
    /\ dnsPc' = "done"
    /\ dnsResp' = [code |-> "OK", records |-> Records(lookup.type, found)]
    /\ UNCHANGED lookup

\* It returns an error: the server cannot be dialled or says that there is
\* nothing.
LookupFails ==
    /\ dnsPc = "resolve" /\ dnsPc' = "done"
    /\ dnsResp' = NoRecords("LOOKUP_FAILED")
    /\ UNCHANGED lookup

\* The context's timer fires, or the caller's context ends.
DnsTimesOut ==
    /\ dnsPc = "resolve" /\ dnsPc' = "done"
    /\ dnsResp' = NoRecords("LOOKUP_FAILED")
    /\ UNCHANGED lookup

DnsNext ==
    \/ \E l \in Lookups : DnsCall(l)
    \/ DnsTaken
    \/ \E found \in DnsAnswers : Found(found)
    \/ LookupFails
    \/ DnsTimesOut

DnsSpec == DnsInit /\ [][DnsNext]_dnsVars

\* The timer of context.WithTimeout fires.  Nothing is assumed of a server.
DnsFairness == WF_dnsVars(DnsTimesOut)

-----------------------------------------------------------------------------
\* Every variable keeps its type.
DnsTypeOK ==
    /\ dnsPc \in {"idle", "resolve", "done"}
    /\ lookup \in Lookups
    /\ dnsResp.code \in {"none", "OK", "LOOKUP_FAILED", "UNSUPPORTED_TYPE"}
    /\ dnsResp.records \subseteq Record

\* A lookup ends, however silent its server.
LookupReturns == dnsPc = "resolve" ~> dnsPc = "done"
=============================================================================
