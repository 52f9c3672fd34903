-------------------------------- MODULE Policy --------------------------------
(***************************************************************************)
(* policy/policy.go: the Engine that decides requests against grant sets,  *)
(* asked by several goroutines.  It compiles a grant set on first use and  *)
(* caches the result under the grant set's POINTER, for good; the owner of *)
(* the grant set may still change what the pointer leads to.               *)
(*                                                                         *)
(* A grant set is a set of rules: evaluation asks for some rule that       *)
(* allows the request, so their order is no matter, and a filesystem rule  *)
(* is one rule for its read and one for its write patterns.                *)
(***************************************************************************)
EXTENDS Naturals, Sequences

CONSTANTS
    Goroutine,
    Obj,         \* addresses of grant sets
    NoObj,       \* the nil pointer
    Pattern,
    ValidPattern,\* doublestar.ValidatePattern
    Text,        \* hosts, cleaned paths, variables, commands and keys
    Match,       \* doublestar.Match: pairs of a pattern and a text
    Relative,    \* the texts that are relative paths
    Cwd,         \* is a working directory configured?
    Resolved,    \* a path made absolute, its symlinks resolved
    Star,        \* the port specification "*"
    Word,        \* a part of a port specification that is no number
    Huge,        \* a part whose number no int holds
    MaxPort,     \* 65535 in the code
    MaxInt,      \* the largest int
    GrantSets,   \* the contents a grant set may have
    Requests     \* the requests made

RuleKinds == {"network", "fs", "env", "exec", "kv"}
\* "any" is the operation of a kind that has none, and any other word.
Ops == {"any", "read", "write", "read-write"}
Number == 0..MaxInt

\* A port specification is "*" or its parts between the dashes.
Part == Number \cup {Word, Huge}
PortSpec == {Star} \cup Seq(Part)
Rule(pattern, port) ==
    [kind : RuleKinds, op : Ops, patterns : SUBSET pattern, ports : SUBSET port]
Request == [kind : RuleKinds, op : {"any", "read", "write"}, text : Text,
            port : Number]

ASSUME NoObjAssumption == NoObj \notin Obj
ASSUME PatternAssumption == ValidPattern \subseteq Pattern
ASSUME ResolvedAssumption == Resolved \in [Text -> Text]
ASSUME PortAssumption ==
    /\ MaxInt \in Nat /\ MaxPort \in Number
    /\ Word \notin Number /\ Huge \notin Number /\ Word # Huge
    /\ Star \notin Seq(Part)
ASSUME GrantSetsAssumption == GrantSets \subseteq SUBSET Rule(Pattern, PortSpec)
ASSUME RequestsAssumption == Requests \subseteq Request

VARIABLES
    content,  \* content[o]: the grant set at address o
    cache,    \* cache[o]: at most one compiled grant set
    stage,    \* where each goroutine is in getCompiled
    ptr,      \* the pointer it was given
    copy,     \* what it has compiled
    last,     \* the last decision of all, until its grant set changes
    held,     \* history: what each address has ever held
    changed   \* history: addresses changed after a compilation read them

policyVars == <<content, cache, stage, ptr, copy, last, held, changed>>

-----------------------------------------------------------------------------
(* Compilation.                                                            *)

\* strconv.Atoi with its error dropped: out of range it gives the nearest int.
Atoi(part) ==
    CASE part = Word -> 0
      [] part = Huge -> MaxInt
      [] OTHER       -> part

MutantPorts(spec) ==
    IF spec = Star THEN {[min |-> 0, max |-> MaxPort]}
    ELSE IF Len(spec) \in {1, 2}
         THEN {[min |-> 0, max |-> Atoi(spec[Len(spec)])]}
         ELSE {}

\* compilePorts on one specification; one with two dashes is dropped.
compilePorts(spec) ==
    IF spec = Star THEN {[min |-> 0, max |-> MaxPort]}
    ELSE IF Len(spec) \in {1, 2}
         THEN {[min |-> Atoi(spec[1]), max |-> Atoi(spec[Len(spec)])]}
         ELSE {}

portRange == [min : Number, max : Number]

MutantCompile(G) ==
    {[r EXCEPT !.ports = UNION {compilePorts(s) : s \in @}] : r \in G}

\* compileNetworkRules and its siblings; compilePatterns drops what does not
\* validate.
compile(G) ==
    {[r EXCEPT !.patterns = @ \cap ValidPattern,
               !.ports = UNION {compilePorts(s) : s \in @}] : r \in G}

-----------------------------------------------------------------------------
(* Evaluation.                                                             *)

\* The operation of a filesystem rule is the list it came from; a key-value
\* rule with none of the three words allows nothing.
OpAllowed(r, q) ==
    CASE r.kind = "fs" -> r.op \in {"read", "write"} /\ q.op = r.op
      [] r.kind = "kv" -> \/ r.op = "read-write"
                          \/ r.op \in {"read", "write"} /\ q.op = r.op
      [] OTHER         -> TRUE

\* Paths are resolved before they are matched; the other kinds are not.
Subject(q) == IF q.kind = "fs" THEN Resolved[q.text] ELSE q.text

\* A relative path without a working directory is denied.
Answerable(q) == q.kind = "fs" /\ q.text \in Relative => Cwd

\* EvaluateNetwork, -FileSystem, -Environment, -Exec and -KeyValue.
EvaluateRules(C, q) ==
    /\ Answerable(q)
    /\ \E r \in C :
          /\ r.kind = q.kind
          /\ OpAllowed(r, q)
          /\ \E p \in r.patterns : <<p, Subject(q)>> \in Match
          /\ q.kind = "network" => \E s \in r.ports : q.port \in s.min..s.max

-----------------------------------------------------------------------------
PolicyInit ==
    /\ content \in [Obj -> GrantSets]
    /\ cache = [o \in Obj |-> {}]
    /\ stage = [g \in Goroutine |-> "idle"]
    /\ ptr = [g \in Goroutine |-> NoObj]
    /\ copy = [g \in Goroutine |-> {}]
    /\ last = {}
    /\ held = [o \in Obj |-> {content[o]}]
    /\ changed = {}

Decision(o, q, ok) == [obj |-> o, req |-> q, allowed |-> ok]

\* getCompiled on nil: denied.
EvaluateNil(g, q) ==
    /\ stage[g] = "idle"
    /\ last' = {Decision(NoObj, q, FALSE)}
    /\ UNCHANGED <<content, cache, stage, ptr, copy, held, changed>>

MutantHit(g, o, q) ==
    /\ stage[g] = "idle"
    /\ \E u \in Obj : \E C \in cache[u] :
          last' = {Decision(o, q, EvaluateRules(C, q))}
    /\ UNCHANGED <<content, cache, stage, ptr, copy, held, changed>>

\* The pointer is in the cache: decided on what was compiled once.
CacheHit(g, o, q) ==
    /\ stage[g] = "idle"
    /\ \E C \in cache[o] :
          last' = {Decision(o, q, EvaluateRules(C, q))}
    /\ UNCHANGED <<content, cache, stage, ptr, copy, held, changed>>

\* It is not: the grant set is read and compiled, whatever the request.
CacheMiss(g, o) ==
    /\ stage[g] = "idle"
    /\ cache[o] = {}
    /\ stage' = [stage EXCEPT ![g] = "store"]
    /\ ptr' = [ptr EXCEPT ![g] = o]
    /\ copy' = [copy EXCEPT ![g] = compile(content[o])]
    /\ UNCHANGED <<content, cache, last, held, changed>>

\* It is stored, over what another goroutine may have stored meanwhile, and
\* the request is decided on it.
CacheStore(g, q) ==
    /\ stage[g] = "store"
    /\ stage' = [stage EXCEPT ![g] = "idle"]
    /\ cache' = [cache EXCEPT ![ptr[g]] = {copy[g]}]
    /\ last' = {Decision(ptr[g], q, EvaluateRules(copy[g], q))}
    /\ ptr' = [ptr EXCEPT ![g] = NoObj]
    /\ copy' = [copy EXCEPT ![g] = {}]
    /\ UNCHANGED <<content, held, changed>>

\* The owner changes the grant set in place.
Mutate(o, G) ==
    /\ content' = [content EXCEPT ![o] = G]
    /\ held' = [held EXCEPT ![o] = @ \cup {G}]
    /\ changed' = IF \/ cache[o] # {}
                     \/ \E g \in Goroutine : ptr[g] = o
                  THEN changed \cup {o} ELSE changed
    /\ last' = {d \in last : d.obj # o}
    /\ UNCHANGED <<cache, stage, ptr, copy>>

PolicyNext ==
    \/ \E g \in Goroutine, q \in Requests :
          \/ EvaluateNil(g, q)
          \/ \E o \in Obj : CacheHit(g, o, q)
          \/ CacheStore(g, q)
    \/ \E g \in Goroutine, o \in Obj : CacheMiss(g, o)
    \/ \E o \in Obj, G \in GrantSets : Mutate(o, G)

PolicySpec == PolicyInit /\ [][PolicyNext]_policyVars

-----------------------------------------------------------------------------
\* Every variable keeps its type; in particular no pattern that failed to
\* validate is ever in the cache, or compiled for it.
PolicyTypeOK ==
    /\ content \in [Obj -> GrantSets]
    /\ cache \in [Obj -> SUBSET SUBSET Rule(ValidPattern, portRange)]
    /\ stage \in [Goroutine -> {"idle", "store"}]
    /\ ptr \in [Goroutine -> Obj \cup {NoObj}]
    /\ copy \in [Goroutine -> SUBSET Rule(ValidPattern, portRange)]
    /\ last \subseteq [obj : Obj \cup {NoObj}, req : Requests, allowed : BOOLEAN]
    /\ held \in [Obj -> SUBSET GrantSets]
    /\ changed \subseteq Obj

\* The reference: what a grant set permits, read off its rules as written.
WellFormed(spec) == spec = Star \/ (Len(spec) \in {1, 2} /\
                                    \A i \in DOMAIN spec : spec[i] \in Number)
Names(spec, port) ==
    IF spec = Star THEN port <= MaxPort
    ELSE IF Len(spec) = 1 THEN port = spec[1]
    ELSE spec[1] <= port /\ port <= spec[2]
Operations(r) ==
    CASE r.kind \in {"fs", "kv"} /\ r.op \in {"read", "write"} -> {r.op}
      [] r.kind = "kv" /\ r.op = "read-write"                  -> Ops
      [] r.kind \notin {"fs", "kv"}                             -> Ops
      [] OTHER                                                 -> {}
Permits(G, q) ==
    /\ Answerable(q)
    /\ \E r \in G, p \in ValidPattern :
          /\ r.kind = q.kind
          /\ p \in r.patterns /\ <<p, Subject(q)>> \in Match
          /\ q.op \in Operations(r)
          /\ q.kind = "network" => \E s \in r.ports : Names(s, q.port)

\* EvaluateNetwork and its siblings: as long as nobody changes a grant set
\* after its first use, however goroutines race through getCompiled, every
\* decision is what the rules as written permit: one rule's hosts with the
\* same rule's ports, nothing for nil.
DecisionMatchesGrants ==
    \A d \in last :
        IF d.obj = NoObj THEN ~d.allowed
        ELSE /\ d.obj \notin changed
             /\ \A r \in content[d.obj] : \A s \in r.ports : WellFormed(s)
             => (d.allowed <=> Permits(content[d.obj], d.req))

\* getCompiled with a grant set changed in place: a decision may be out of
\* date, but is never about a grant set that was not at that address.
DecisionWasOnceTrue ==
    \A d \in last :
        d.obj # NoObj =>
            \E G \in held[d.obj] :
                d.allowed <=> EvaluateRules(compile(G), d.req)
=============================================================================
