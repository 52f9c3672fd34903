------------------------------- MODULE MCHttp -------------------------------
(***************************************************************************)
(* Instances of Http for TLC: a DNS name and a loopback address written    *)
(* out; a public and a loopback address in the answers.                    *)
(***************************************************************************)
EXTENDS Http

MCClassOf == [a \in Addr |-> IF a = "lo" THEN "loopback" ELSE "public"]
MCLiteralOf == [h \in Host |-> IF h = "literal" THEN "lo" ELSE NoAddr]
MCIPv4 == Addr \ {"v6"}
MCSays == [h \in Host |-> IF h = "literal" THEN {"redirect"} ELSE {}]

Plain == [url |-> "name", follow |-> "unset", maxRedirects |-> 0, timeout |-> 0,
          optRedirects |-> DefaultRedirects, protected |-> TRUE]
MCRequests ==
    {Plain,
     [Plain EXCEPT !.url = NoURL],
     [Plain EXCEPT !.follow = "no", !.timeout = 1],
     [Plain EXCEPT !.timeout = CacheTTL + 1],
     [Plain EXCEPT !.optRedirects = 0, !.timeout = 1],
     [Plain EXCEPT !.maxRedirects = 1],
     [Plain EXCEPT !.url = "literal", !.timeout = 1],
     [Plain EXCEPT !.protected = FALSE, !.timeout = 1]}
=============================================================================
