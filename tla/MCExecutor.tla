----------------------------- MODULE MCExecutor -----------------------------
EXTENDS Executor, TLC

CONSTANTS w1, w2, w3, n, loop, t

\* The capability middleware first, last and twice, behind a recovery and
\* without one.
MCChains == {<<"recovery", "useragent", "capability">>,
             <<"capability", "logging", "useragent", "capability">>}

MCGrantSets == {{loop}, {t}}

\* Two binaries of one name, with an _initialize and without; and one without
\* a name that has the older name of the schema.
MCNameOf == w1 :> n @@ w2 :> n @@ w3 :> Anonymous

MCExports == w1 :> {"_initialize", "_manifest", "allocate"} @@
             w2 :> {"_observe", "allocate"} @@
             w3 :> {"schema"}

Symmetry == Permutations(Instance)
=============================================================================
