--------------------------- MODULE HostFunctions ---------------------------
(***************************************************************************)
(* The host functions a bundle registers beside http_request: tcp_connect, *)
(* smtp_connect and ssrf_check (Connect), dns_lookup (Dns) and             *)
(* exec_command (Exec).  Their calls share no state, so what holds of one  *)
(* at a time holds of all, and a behaviour keeps to the one it begins      *)
(* with.                                                                   *)
(***************************************************************************)
EXTENDS Connect, Dns, Exec

VARIABLE fn     \* the host function called

hostVars == <<fn, vars, dnsVars, execVars>>

\* The functions that are not called stay as they are.
HostInit ==
    /\ fn \in {"connect", "dns_lookup", "exec_command"}
    /\ Init /\ DnsInit /\ ExecInit

HostNext ==
    /\ UNCHANGED fn
    /\ \/ fn = "connect" /\ Next /\ UNCHANGED <<dnsVars, execVars>>
       \/ fn = "dns_lookup" /\ DnsNext /\ UNCHANGED <<vars, execVars>>
       \/ fn = "exec_command" /\ ExecNext /\ UNCHANGED <<vars, dnsVars>>

\* A function that is not called has nothing to be fair about.
HostSpec ==
    /\ HostInit /\ [][HostNext]_hostVars
    /\ Fairness /\ DnsFairness /\ ExecFairness

\* Every variable of the three modules keeps its type.
HostTypeOK == TypeOK /\ DnsTypeOK /\ ExecTypeOK

\* Every call of a host function returns: a lookup by its deadline, a command
\* once nobody holds its pipes, a connection unless a silent peer meets the
\* SMTP exchange, which sets none.
HostFunctionsReturn ==
    OnlyPlainSMTPHangs /\ LookupReturns /\ CommandReturns
=============================================================================
