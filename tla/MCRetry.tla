------------------------------ MODULE MCRetry ------------------------------
(***************************************************************************)
(* Instances of Retry for TLC.  A Duration has four bits, so that doubling *)
(* overflows at the third attempt.                                         *)
(***************************************************************************)
EXTENDS Retry

MCClassOf == [a \in Addr |-> IF a = "lo" THEN "loopback" ELSE "public"]
MCLiteralOf == [h \in Host |-> IF h = "literal" THEN "lo" ELSE NoAddr]

MCTransports ==
    {[MaxRetries |-> 0, InitialBackoff |-> 0, MaxBackoff |-> 0],
     [MaxRetries |-> 1, InitialBackoff |-> 3, MaxBackoff |-> 2],
     [MaxRetries |-> 0 - 1, InitialBackoff |-> 1, MaxBackoff |-> 1]}
MCRetryAfter == {0 - 1, 9}
=============================================================================
