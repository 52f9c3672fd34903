------------------------------ MODULE MCPolicy ------------------------------
EXTENDS Policy, TLC

CONSTANTS a, b, bad

MCPattern == {a, b, bad}
MCValid == {a, b}
\* Pattern a matches both texts, pattern b only the second.
MCMatch == {<<a, 1>>, <<a, 2>>, <<b, 2>>}
\* The first path is a symbolic link to the second.
MCResolved == [x \in {1, 2} |-> 2]
MCRelative == {1}

net(h, ps) == [kind |-> "network", op |-> "any", patterns |-> h, ports |-> ps]
other(k, o, h) == [kind |-> k, op |-> o, patterns |-> h, ports |-> {}]

\* Two network rules that must not be mixed with every other kind of rule,
\* specifications that do not parse or are dropped, and every port.
MCGrantSets == {
    {net({a}, {<<1>>}), net({b}, {<<2, 3>>}),
     other("fs", "read", {b}), other("kv", "read-write", {b}),
     other("kv", "read", {a}), other("kv", "any", {a}), other("env", "any", {b}),
     other("exec", "any", {bad})},
    {net({a, bad}, {<<Word, 2>>, <<1, 2, 3>>, <<4, Huge>>})},
    {net({b}, {Star})}}

MCRequests ==
    {[kind |-> "network", op |-> "any", text |-> x[1], port |-> x[2]] :
        x \in {<<1, 0>>, <<1, 1>>, <<1, 3>>, <<2, 3>>, <<2, 4>>, <<2, 5>>}}
    \cup {[kind |-> "fs", op |-> o, text |-> 1, port |-> 0] :
        o \in {"read", "write"}}
    \cup {[kind |-> "kv", op |-> "write", text |-> t, port |-> 0] :
        t \in {1, 2}}
    \cup {[kind |-> k, op |-> "any", text |-> 2, port |-> 0] :
        k \in {"env", "exec"}}

Symmetry == Permutations(Goroutine) \cup Permutations(Obj)
=============================================================================
