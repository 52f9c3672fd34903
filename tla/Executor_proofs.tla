--------------------------- MODULE Executor_proofs ---------------------------
(***************************************************************************)
(* Proofs about Executor and the host function calls it extends, for any   *)
(* middleware chains, grant sets, plugins, binaries and goroutines.        *)
(***************************************************************************)
EXTENDS Executor, TLAPS

USE NoPluginAssumption, TargetAssumption, GrantSetsAssumption,
    RegisteredAssumption, ChainsAssumption

-----------------------------------------------------------------------------
(* The steps of a call keep the types of HostCall.                         *)

\* A host function runs at the end of the chain, with a payload it accepts.
RunsAtEnd ==
    \A c \in Call : pc[c] = "running" =>
        at[c] = Len(chain) + 1 /\ req[c].payload.forHandler

\* A call that is checked stands at a capability middleware.
ChecksInChain ==
    \A c \in Call : pc[c] = "check" =>
        at[c] \in DOMAIN chain /\ chain[at[c]] = "capability"

CallInv == TypeOK /\ RunsAtEnd /\ ChecksInChain

LEMMA ChainIsSeq ==
    ASSUME TypeOK
    PROVE  chain \in Seq(Middleware) /\ Len(chain) \in Nat
                /\ DOMAIN chain = 1..Len(chain)
  BY DEF TypeOK

LEMMA CallInit == Init => CallInv
<1> SUFFICES ASSUME Init PROVE CallInv
  OBVIOUS
<1>1. NoRequest \in Request
  BY DEF NoRequest, Request, Name, Payload
<1>2. chain \in Seq(Middleware) /\ 1 \in 1..(Len(chain) + 1)
  BY DEF Init
<1> QED BY <1>1, <1>2 DEF Init, CallInv, TypeOK, RunsAtEnd, ChecksInChain

LEMMA HeadedIsPayload ==
    ASSUME NEW r \in Payload, NEW checkable \in BOOLEAN, NEW decodable \in BOOLEAN
    PROVE  Headed(r, checkable, decodable) \in Payload
  BY DEF Headed, Payload

LEMMA LeaveKeeps ==
    ASSUME NEW c \in Call, CallInv, NEW res \in {"answered", "broken", "trap"},
           Leave(c, res), UNCHANGED world
    PROVE  CallInv'
<1>1. NoRequest \in Request
  BY DEF NoRequest, Request, Name, Payload
<1>2. 1 \in 1..(Len(chain) + 1)
  BY ChainIsSeq DEF CallInv
<1> QED BY <1>1, <1>2 DEF Leave, CallInv, TypeOK, RunsAtEnd, ChecksInChain, world

LEMMA PanicKeeps ==
    ASSUME NEW c \in Call, CallInv, NEW n \in Nat, Panic(c, n), UNCHANGED world
    PROVE  CallInv'
<1> DEFINE Enclosed == \E i \in DOMAIN chain : i < n /\ chain[i] = "recovery"
<1>1. CASE ~Enclosed
  BY <1>1, LeaveKeeps DEF Panic
<1>2. CASE Enclosed
  <2>1. /\ pc' = [pc EXCEPT ![c] = "respond"]
        /\ UNCHANGED <<req, at, hostCtx, private, fname, seen, undecoded, result>>
    BY <1>2 DEF Panic
  <2> QED BY <2>1 DEF CallInv, TypeOK, RunsAtEnd, ChecksInChain, world
<1> QED BY <1>1, <1>2

LEMMA EntersKeeps ==
    ASSUME NEW c \in Call, NEW p \in Plugin \cup {NoPlugin}, CallInv, Enters(c, p)
    PROVE  CallInv'
<1> USE DEF CallInv, TypeOK, RunsAtEnd, ChecksInChain, world
<1>1. ASSUME NEW f \in Registered, NEW r \in Payloads(f), Invoke(c, f, p, r)
      PROVE  CallInv'
  <2>1. [fn |-> f, plugin |-> p, payload |-> r] \in Request
    BY DEF Request, Payloads
  <2>2. GrantsOf(p) \in SUBSET Target
    BY DEF GrantsOf
  <2> QED BY <1>1, <2>1, <2>2 DEF Invoke
<1>2. CASE Reject(c)
  <2>1. CASE pc' = [pc EXCEPT ![c] = "respond"] /\ UNCHANGED result
    BY <1>2, <2>1 DEF Reject
  <2>2. CASE result' = [result EXCEPT ![c] = "broken"] /\ UNCHANGED pc
    BY <1>2, <2>2 DEF Reject
  <2> QED BY <1>2, <2>1, <2>2 DEF Reject
<1> QED BY <1>1, <1>2 DEF Enters

LEMMA GoesOnKeeps ==
    ASSUME NEW c \in Call, CallInv, GoesOn(c)
    PROVE  CallInv'
<1> USE DEF CallInv, RunsAtEnd, ChecksInChain, world
<1>0. /\ chain \in Seq(Middleware) /\ Len(chain) \in Nat
      /\ DOMAIN chain = 1..Len(chain)
      /\ at[c] \in Nat
  BY ChainIsSeq DEF TypeOK
<1>1. ASSUME at[c] \in DOMAIN chain
      PROVE  at[c] + 1 \in 1..(Len(chain) + 1)
  BY <1>0, <1>1
<1>2. CASE PassThrough(c)
  BY <1>0, <1>1, <1>2 DEF PassThrough, In, Advance, TypeOK
<1>3. CASE UserAgentAdds(c)
  <2>1. PICK checkable \in BOOLEAN, decodable \in BOOLEAN :
           req' = [req EXCEPT ![c].payload = Headed(@, checkable, decodable)]
    BY <1>3 DEF UserAgentAdds
  <2>2. req[c] \in Request /\ req[c].payload \in Payload
    BY DEF TypeOK, Request
  <2>3. Headed(req[c].payload, checkable, decodable) \in Payload
    BY <2>2, HeadedIsPayload
  <2>4. req' \in [Call -> Request]
    BY <2>1, <2>2, <2>3 DEF TypeOK, Request
  <2> QED BY <1>0, <1>1, <1>3, <2>4 DEF UserAgentAdds, In, Advance, TypeOK
<1>4. CASE UserAgentPanics(c)
  BY <1>0, <1>4, PanicKeeps DEF UserAgentPanics
<1>5. CASE UserAgentSkips(c)
  BY <1>0, <1>1, <1>5 DEF UserAgentSkips, In, Advance, TypeOK
<1>6. CASE CapabilityUnnamed(c)
  BY <1>0, <1>1, <1>6 DEF CapabilityUnnamed, In, Advance, TypeOK
<1>7. CASE CapabilityPrivate(c)
  <2>1. req[c].fn \in Name
    BY DEF TypeOK, Request
  <2> QED BY <1>0, <1>7, <2>1 DEF CapabilityPrivate, In, TypeOK
<1>8. CASE CapabilitySkips(c)
  BY <1>0, <1>1, <1>8 DEF CapabilitySkips, Advance, TypeOK
<1>9. CASE CapabilityPasses(c)
  BY <1>0, <1>1, <1>9 DEF CapabilityPasses, Advance, TypeOK
<1>10. CASE CapabilityDenies(c)
  BY <1>10 DEF CapabilityDenies, TypeOK
<1>11. CASE HandlerRejects(c)
  BY <1>11 DEF HandlerRejects, TypeOK
<1>12. CASE HandlerStarts(c)
  BY <1>12 DEF HandlerStarts, AtHandler, TypeOK
<1>13. CASE HandlerReturns(c)
  BY <1>13 DEF HandlerReturns, TypeOK
<1>14. CASE HandlerPanics(c)
  BY <1>0, <1>14, PanicKeeps DEF HandlerPanics
<1>15. CASE WriteResponse(c)
  BY <1>15, LeaveKeeps DEF WriteResponse
<1>16. CASE MapRace(c)
  BY <1>16 DEF MapRace, TypeOK
<1> QED BY <1>2, <1>3, <1>4, <1>5, <1>6, <1>7, <1>8, <1>9, <1>10, <1>11, <1>12,
     <1>13, <1>14, <1>15, <1>16, GoesOn(c) DEF GoesOn

LEMMA RegisterKeeps ==
    ASSUME CallInv, RegisterGrants
    PROVE  CallInv'
<1> USE DEF CallInv, TypeOK, RunsAtEnd, ChecksInChain
<1>1. ASSUME NEW p \in Plugin, NEW G \in GrantSets, RegisterBegin(p, G)
      PROVE  CallInv'
  BY <1>1 DEF RegisterBegin
<1>2. CASE RegisterEnd
  <2>1. PICK w \in writer :
           /\ grants' = [grants EXCEPT ![w.plugin] = w.grants]
           /\ seen' = [c \in Call |->
                          IF pc[c] # "idle" /\ req[c].plugin = w.plugin
                          THEN seen[c] \cup {w.grants} ELSE seen[c]]
    BY <1>2 DEF RegisterEnd
  <2>2. w.plugin \in Plugin /\ w.grants \in GrantSets
    OBVIOUS
  <2> QED BY <1>2, <2>1, <2>2 DEF RegisterEnd
<1> QED BY <1>1, <1>2 DEF RegisterGrants

-----------------------------------------------------------------------------
(* The runtime.  A goroutine in _start or _initialize has an instance that *)
(* nobody else has; in the other guest functions it uses one that is held. *)

GuestType ==
    /\ module \in [Instance -> Wasm \cup {NoWasm}]
    /\ open \subseteq Instance /\ held \subseteq Instance
    /\ closed \in BOOLEAN
    /\ guest \in [Call -> [fn : Export \cup {"_start", "none"},
                           inst : Instance \cup {NoInstance},
                           plugin : Plugin \cup {NoPlugin}]]
    /\ outcome \in [Call -> {"none", "ok", "empty", "error", "panic"}]

Made == \A i \in open \cup held : module[i] # NoWasm

LoadsAlone ==
    \A c \in Call : Loading(c) =>
        /\ guest[c].inst \in Instance \ held
        /\ module[guest[c].inst] # NoWasm
        /\ \A d \in Call : Loading(d) /\ guest[d].inst = guest[c].inst => d = c

InitializeExported ==
    \A c \in Call : guest[c].fn = "_initialize" => HasInitialize(guest[c].inst)

RuntimeInv == /\ GuestType /\ Made /\ LoadsAlone /\ InitializeExported
              /\ OnlyInitializeLeaks

ExecutorInv == CallInv /\ RuntimeInv

LEMMA RuntimeInit == ExecutorInit => RuntimeInv
<1> SUFFICES ASSUME ExecutorInit PROVE RuntimeInv
  OBVIOUS
<1>1. GuestType
  BY DEF ExecutorInit, GuestType, Outside
<1>2. Made /\ OnlyInitializeLeaks
  BY DEF ExecutorInit, Made, OnlyInitializeLeaks
<1>3. LoadsAlone /\ InitializeExported
  BY DEF ExecutorInit, LoadsAlone, InitializeExported, Loading, Outside
<1> QED BY <1>1, <1>2, <1>3 DEF RuntimeInv

\* The goroutine c leaves LoadPlugin with its instance held, or closed and its
\* place free, or with an _initialize; the others' instances are not touched.
LEMMA LoadEnds ==
    ASSUME RuntimeInv, NEW c \in Call, NEW how \in {"ok", "error"}, Loading(c),
           End(c, how), open' \in {open, open \ {guest[c].inst}}, UNCHANGED closed,
           \/ held' = held \cup {guest[c].inst} /\ UNCHANGED module
           \/ /\ UNCHANGED <<held, module>>
              /\ guest[c].inst \in open'
              /\ HasInitialize(guest[c].inst)
           \/ /\ UNCHANGED held
              /\ guest[c].inst \notin open'
              /\ module' = [module EXCEPT ![guest[c].inst] = NoWasm]
    PROVE  RuntimeInv'
<1> DEFINE i == guest[c].inst
<1> USE DEF RuntimeInv
<1>1. /\ i \in Instance \ held /\ module[i] # NoWasm
      /\ \A d \in Call \ {c} : Loading(d) => guest[d].inst # i
  BY DEF LoadsAlone
<1>2. /\ \A d \in Call \ {c} : guest'[d] = guest[d]
      /\ guest'[c] = Outside /\ ~Loading(c)'
      /\ \A d \in Call : Loading(d)' <=> d # c /\ Loading(d)
  BY DEF End, GuestType, Loading, Outside
<1>3. \A j \in Instance \ {i} : module'[j] = module[j]
  BY DEF GuestType
<1>4. GuestType'
  BY <1>1 DEF GuestType, End, Outside
<1>5. Made'
  BY <1>1, <1>3 DEF Made, GuestType
<1>6. LoadsAlone'
  BY <1>1, <1>2, <1>3 DEF LoadsAlone
<1>7. InitializeExported'
  <2> SUFFICES ASSUME NEW d \in Call, guest'[d].fn = "_initialize"
               PROVE  HasInitialize(guest[d].inst)' /\ d # c
    BY DEF InitializeExported, HasInitialize
  <2>1. d # c /\ Loading(d) /\ guest[d].inst # i /\ guest'[d] = guest[d]
    BY <1>1, <1>2 DEF Outside, Loading
  <2>2. guest[d].inst \in Instance /\ HasInitialize(guest[d].inst)
    BY <2>1 DEF LoadsAlone, InitializeExported
  <2> QED BY <1>3, <2>1, <2>2 DEF HasInitialize
<1>8. OnlyInitializeLeaks'
  <2> SUFFICES ASSUME NEW j \in open'
               PROVE  \/ j \in held'
                      \/ \E d \in Call : Loading(d)' /\ guest'[d].inst = j
                      \/ HasInitialize(j)'
    BY DEF OnlyInitializeLeaks
  <2>1. j \in open /\ j \in Instance
    BY DEF GuestType
  <2>2. CASE j = i
    BY <2>1, <2>2 DEF HasInitialize
  <2>3. CASE j # i
    <3>1. module'[j] = module[j]
      BY <1>3, <2>1, <2>3
    <3>2. CASE \E d \in Call : Loading(d) /\ guest[d].inst = j
      BY <1>2, <2>3, <3>2
    <3> QED BY <2>1, <3>1, <3>2 DEF OnlyInitializeLeaks, HasInitialize
  <2> QED BY <2>2, <2>3
<1> QED BY <1>4, <1>5, <1>6, <1>7, <1>8

\* A step of a goroutine that loads nothing, before and after it: it may close
\* its module.
LEMMA OperationSteps ==
    ASSUME RuntimeInv, NEW c \in Call, GuestType', UNCHANGED <<module, held>>,
           open' \subseteq open,
           \A d \in Call \ {c} : guest'[d] = guest[d],
           ~Loading(c), ~Loading(c)'
    PROVE  RuntimeInv'
<1> USE DEF RuntimeInv
<1>1. ASSUME NEW d \in Call
      PROVE  /\ Loading(d)' <=> Loading(d)
             /\ Loading(d) => guest'[d] = guest[d]
  <2>1. CASE d = c
    BY <2>1
  <2>2. CASE d # c
    <3>1. guest'[d] = guest[d]
      BY <2>2
    <3> QED BY <3>1 DEF Loading
  <2> QED BY <2>1, <2>2
<1>2. Made'
  BY DEF Made
<1>3. LoadsAlone'
  <2> SUFFICES ASSUME NEW d \in Call, Loading(d)'
               PROVE  /\ guest'[d].inst \in Instance \ held
                      /\ module[guest'[d].inst] # NoWasm
                      /\ \A e \in Call : Loading(e)' /\ guest'[e].inst = guest'[d].inst
                                             => e = d
    BY DEF LoadsAlone
  <2>1. Loading(d) /\ guest'[d] = guest[d]
    BY <1>1
  <2>2. \A e \in Call : Loading(e)' => Loading(e) /\ guest'[e] = guest[e]
    BY <1>1
  <2> QED BY <2>1, <2>2 DEF LoadsAlone
<1>4. InitializeExported'
  BY <1>1 DEF InitializeExported, HasInitialize, Loading
<1>5. OnlyInitializeLeaks'
  <2> SUFFICES ASSUME NEW j \in open'
               PROVE  \/ j \in held
                      \/ \E d \in Call : Loading(d)' /\ guest'[d].inst = j
                      \/ HasInitialize(j)
    BY DEF OnlyInitializeLeaks, HasInitialize
  <2>1. ASSUME NEW d \in Call, Loading(d), guest[d].inst = j
        PROVE  Loading(d)' /\ guest'[d].inst = j
    BY <1>1, <2>1
  <2> QED BY <2>1 DEF OnlyInitializeLeaks
<1> QED BY <1>2, <1>3, <1>4, <1>5

LEMMA RuntimeStep ==
    ASSUME RuntimeInv, [ExecutorNext]_execVars
    PROVE  RuntimeInv'
<1> USE WasmAssumption, InstanceAssumption
<1>0. GuestType /\ Made /\ LoadsAlone /\ InitializeExported /\ OnlyInitializeLeaks
  BY DEF RuntimeInv
<1>1. ASSUME NEW c \in Call, NEW p \in Plugin \cup {NoPlugin}, NEW w \in Wasm,
             Load(c, p, w)
      PROVE  RuntimeInv'
  <2>1. PICK i \in Instance :
           /\ module[i] = NoWasm
           /\ module' = [module EXCEPT ![i] = w]
           /\ open' = open \cup {i}
           /\ guest' = [guest EXCEPT ![c] =
                           [fn |-> "_start", inst |-> i, plugin |-> p]]
           /\ outcome' = [outcome EXCEPT ![c] = "none"]
    BY <1>1 DEF Load, Begin
  <2>2. UNCHANGED <<held, closed>> /\ guest[c].fn = "none"
    BY <1>1 DEF Load, AtRest
  <2>3. i \notin open \cup held /\ \A d \in Call : Loading(d) => guest[d].inst # i
    BY <1>0, <2>1 DEF Made, LoadsAlone
  <2>4. GuestType'
    BY <1>0, <2>1, <2>2 DEF GuestType
  <2>5. /\ \A j \in Instance \ {i} : module'[j] = module[j]
        /\ \A d \in Call \ {c} : guest'[d] = guest[d]
        /\ guest'[c] = [fn |-> "_start", inst |-> i, plugin |-> p]
        /\ module'[i] = w
    BY <1>0, <2>1 DEF GuestType
  <2>6. Made'
    BY <1>0, <2>1, <2>2, <2>3, <2>5 DEF Made, GuestType
  <2>7. LoadsAlone'
    BY <1>0, <2>2, <2>3, <2>5 DEF LoadsAlone, Loading
  <2>8. InitializeExported'
    BY <1>0, <2>3, <2>5 DEF InitializeExported, HasInitialize, LoadsAlone, Loading
  <2>9. OnlyInitializeLeaks'
    <3> SUFFICES ASSUME NEW j \in open'
                 PROVE  \/ j \in held'
                        \/ \E d \in Call : Loading(d)' /\ guest'[d].inst = j
                        \/ HasInitialize(j)'
      BY DEF OnlyInitializeLeaks
    <3>1. CASE j = i
      BY <2>5, <3>1 DEF Loading
    <3>2. CASE j # i
      <4>1. j \in open /\ j \in Instance /\ module'[j] = module[j]
        BY <1>0, <2>1, <2>5, <3>2 DEF GuestType
      <4>2. ASSUME NEW d \in Call, Loading(d), guest[d].inst = j
            PROVE  Loading(d)' /\ guest'[d].inst = j
        BY <2>2, <2>5, <4>2 DEF Loading
      <4> QED BY <1>0, <2>2, <4>1, <4>2 DEF OnlyInitializeLeaks, HasInitialize
    <3> QED BY <3>1, <3>2
  <2> QED BY <2>4, <2>6, <2>7, <2>8, <2>9 DEF RuntimeInv
<1>2. ASSUME NEW c \in Call, NEW p \in Plugin \cup {NoPlugin},
             NEW i \in Instance, NEW f \in Operation, Operate(c, p, i, f)
      PROVE  RuntimeInv'
  <2>1. PICK fn \in Export \ {"_initialize"} :
           guest' = [guest EXCEPT ![c] = [fn |-> fn, inst |-> i, plugin |-> p]]
    BY <1>2 DEF Operate, Begin, Operation, Export
  <2>2. fn # "_start"
    BY DEF Export
  <2>3. /\ outcome' = [outcome EXCEPT ![c] = "none"] /\ UNCHANGED runtime
        /\ guest[c].fn = "none"
    BY <1>2 DEF Operate, Begin, AtRest
  <2>4. GuestType'
    BY <1>0, <2>1, <2>3 DEF GuestType, runtime
  <2>5. ~Loading(c) /\ ~Loading(c)' /\ \A d \in Call \ {c} : guest'[d] = guest[d]
    BY <1>0, <2>1, <2>2, <2>3 DEF Loading, GuestType
  <2> QED BY <2>3, <2>4, <2>5, OperationSteps DEF runtime
<1>3. ASSUME UNCHANGED <<runtime, guest>>, outcome' \in
                {outcome} \cup {[outcome EXCEPT ![c] = "error"] : c \in Call}
      PROVE  RuntimeInv'
  BY <1>0, <1>3 DEF RuntimeInv, GuestType, Made, LoadsAlone, InitializeExported,
     OnlyInitializeLeaks, HasInitialize, Loading, runtime
<1>4. ASSUME NEW c \in Call, Loading(c), Hold(c), UNCHANGED <<module, closed>>,
             open' \in {open, open \ {guest[c].inst}}
      PROVE  RuntimeInv'
  BY <1>4, LoadEnds DEF Hold
<1>5. ASSUME NEW c \in Call, StartReturns(c)
      PROVE  RuntimeInv'
  <2>1. /\ guest[c].fn = "_start" /\ UNCHANGED <<module, closed>>
        /\ open' \in {open, open \ {guest[c].inst}}
    BY <1>5 DEF StartReturns, Runs, CloseModule
  <2>2. CASE Hold(c)
    BY <1>4, <2>1, <2>2 DEF Loading
  <2>3. CASE HasInitialize(guest[c].inst) /\ CallNext(c, "_initialize") /\ UNCHANGED held
    <3>1. /\ guest'[c].fn = "_initialize" /\ guest'[c].inst = guest[c].inst
          /\ \A d \in Call \ {c} : guest'[d] = guest[d]
          /\ GuestType'
      BY <1>0, <2>1, <2>3 DEF CallNext, Export, GuestType
    <3>2. \A d \in Call : /\ Loading(d)' <=> Loading(d)
                           /\ guest'[d].inst = guest[d].inst
      BY <2>1, <3>1 DEF Loading
    <3>3. Made'
      BY <1>0, <2>1, <2>3 DEF Made
    <3>4. LoadsAlone'
      BY <1>0, <2>1, <2>3, <3>2 DEF LoadsAlone
    <3>5. InitializeExported'
      BY <1>0, <2>1, <2>3, <3>1 DEF InitializeExported, HasInitialize
    <3>6. OnlyInitializeLeaks'
      <4> SUFFICES ASSUME NEW j \in open'
                   PROVE  \/ j \in held
                          \/ \E d \in Call : Loading(d)' /\ guest'[d].inst = j
                          \/ HasInitialize(j)
        BY <2>1, <2>3 DEF OnlyInitializeLeaks, HasInitialize
      <4>1. j \in open
        BY <2>1
      <4>2. ASSUME NEW d \in Call, Loading(d), guest[d].inst = j
            PROVE  Loading(d)' /\ guest'[d].inst = j
        <5>1. CASE d = c
          BY <3>1, <4>2, <5>1 DEF Loading
        <5>2. CASE d # c
          <6>1. guest'[d] = guest[d]
            BY <3>1, <5>2
          <6> QED BY <4>2, <6>1 DEF Loading
        <5> QED BY <5>1, <5>2
      <4> QED BY <1>0, <4>1, <4>2 DEF OnlyInitializeLeaks
    <3> QED BY <3>1, <3>3, <3>4, <3>5, <3>6 DEF RuntimeInv
  <2> QED BY <1>5, <2>2, <2>3 DEF StartReturns
<1>6. ASSUME NEW c \in Call, InitializeReturns(c)
      PROVE  RuntimeInv'
  BY <1>4, <1>6 DEF InitializeReturns, CanReturn, Runs, Loading
<1>7. ASSUME NEW c \in Call, NEW how \in {"ok", "empty", "error", "panic"},
             End(c, how), ~Loading(c), UNCHANGED <<module, held, closed>>,
             open' \subseteq open
      PROVE  RuntimeInv'
  <2>1. GuestType'
    BY <1>0, <1>7 DEF GuestType, End, Outside
  <2>2. ~Loading(c)' /\ \A d \in Call \ {c} : guest'[d] = guest[d]
    BY <1>0, <1>7 DEF GuestType, End, Outside, Loading
  <2> QED BY <1>7, <2>1, <2>2, OperationSteps
<1>8. ASSUME NEW c \in Call, AllocateReturns(c)
      PROVE  RuntimeInv'
  <2>1. guest[c].fn = "allocate" /\ UNCHANGED runtime
    BY <1>8 DEF AllocateReturns, CanReturn, Runs
  <2>2. CASE CallNext(c, "_observe")
    <3>1. GuestType' /\ guest'[c].fn = "_observe"
          /\ \A d \in Call \ {c} : guest'[d] = guest[d]
      BY <1>0, <2>1, <2>2 DEF CallNext, Export, GuestType, runtime
    <3> QED BY <2>1, <3>1, OperationSteps DEF Loading, runtime
  <2>3. CASE \E how \in {"error", "panic"} : End(c, how)
    BY <1>7, <2>1, <2>3 DEF Loading, runtime
  <2> QED BY <1>8, <2>2, <2>3 DEF AllocateReturns
<1>9. ASSUME NEW c \in Call, OperationReturns(c)
      PROVE  RuntimeInv'
  BY <1>7, <1>9 DEF OperationReturns, CanReturn, Runs, Operation, Loading, runtime
<1>10. ASSUME NEW c \in Call, Fails(c),
              open' \in {open, open \ {guest[c].inst}},
              guest[c].fn = "_start" => guest[c].inst \notin open'
       PROVE  RuntimeInv'
  <2>1. End(c, "error") /\ UNCHANGED <<held, closed>>
    BY <1>10 DEF Fails
  <2>2. CASE ~Loading(c)
    BY <1>7, <1>10, <2>1, <2>2 DEF Fails
  <2>3. CASE Loading(c) /\ guest[c].inst \notin open'
    <3>1. module' = [module EXCEPT ![guest[c].inst] = NoWasm]
      BY <1>10, <2>3 DEF Fails
    <3> QED BY <1>10, <2>1, <2>3, <3>1, LoadEnds
  <2>4. CASE Loading(c) /\ guest[c].inst \in open'
    <3>1. module' = module /\ guest[c].fn = "_initialize"
      BY <1>10, <2>4 DEF Fails, Loading
    <3>2. HasInitialize(guest[c].inst)
      BY <1>0, <3>1 DEF InitializeExported
    <3> QED BY <1>10, <2>1, <2>4, <3>1, <3>2, LoadEnds
  <2> QED BY <2>2, <2>3, <2>4
<1>11. ASSUME NEW c \in Call, GuestFails(c) \/ GuestExits(c)
       PROVE  RuntimeInv'
  BY <1>10, <1>11 DEF GuestFails, GuestExits, CloseModule
<1>12. ASSUME open' \subseteq open, UNCHANGED <<module, held, guest, outcome>>,
              closed' \in BOOLEAN
       PROVE  RuntimeInv'
  BY <1>0, <1>12 DEF RuntimeInv, GuestType, Made, LoadsAlone, InitializeExported,
     OnlyInitializeLeaks, HasInitialize, Loading
<1>13. CASE Close
  BY <1>12, <1>13 DEF Close
<1>14. ASSUME NEW c \in Call, AllocateExits(c)
       PROVE  RuntimeInv'
  BY <1>0, <1>12, <1>14 DEF AllocateExits, CloseModule, GuestType
<1>15. CASE \/ \E c \in Call : Refuse(c) \/ HostCallStep(c)
            \/ RegisterGrants /\ UNCHANGED <<runtime, guest, outcome>>
            \/ UNCHANGED execVars
  BY <1>3, <1>15 DEF Refuse, HostCallStep, execVars
<1> QED BY <1>1, <1>2, <1>5, <1>6, <1>8, <1>9, <1>11, <1>13, <1>14, <1>15,
     [ExecutorNext]_execVars DEF ExecutorNext

\* What the steps of the executor do to the calls: a call steps, a grant is
\* registered, or only a result is forgotten.
LEMMA CallStep ==
    ASSUME ExecutorInv, [ExecutorNext]_execVars
    PROVE  \/ \E c \in Call, p \in Plugin \cup {NoPlugin} : Enters(c, p)
           \/ \E c \in Call : GoesOn(c)
           \/ \E c \in Call : Leave(c, "answered") /\ UNCHANGED world
           \/ RegisterGrants
           \/ /\ UNCHANGED <<world, pc, req, at, hostCtx, private, fname, seen, undecoded>>
              /\ \/ UNCHANGED result
                 \/ \E c \in Call : result' = [result EXCEPT ![c] = "none"]
<1>1. ASSUME NEW c \in Call, HostCallStep(c)
      PROVE  Enters(c, guest[c].plugin) \/ GoesOn(c)
  BY <1>1 DEF HostCallStep
<1>2. \A c \in Call : guest[c].plugin \in Plugin \cup {NoPlugin}
  BY DEF ExecutorInv, RuntimeInv, GuestType
<1>3. CASE \E c \in Call : HostCallStep(c)
  BY <1>1, <1>2, <1>3
<1>4. CASE UNCHANGED execVars
  BY <1>4 DEF execVars, vars, world
<1>5. CASE RegisterGrants
  BY <1>5
<1>6. CASE Close
  BY <1>6 DEF Close, vars, world
<1>7. ASSUME NEW c \in Call, NEW how, End(c, how) \/ CallNext(c, how)
      PROVE  UNCHANGED vars
  BY <1>7 DEF End, CallNext
<1>8. ASSUME NEW c \in Call,
             \/ Refuse(c) \/ StartReturns(c) \/ InitializeReturns(c)
             \/ AllocateReturns(c) \/ OperationReturns(c)
             \/ GuestFails(c) \/ GuestExits(c)
      PROVE  UNCHANGED vars
  BY <1>7, <1>8 DEF Refuse, StartReturns, InitializeReturns, AllocateReturns,
     OperationReturns, GuestFails, GuestExits, Fails, Hold
<1>9. ASSUME NEW c \in Call, NEW p, NEW i, NEW f, Begin(c, p, i, f)
      PROVE  /\ UNCHANGED <<world, pc, req, at, hostCtx, private, fname, seen, undecoded>>
             /\ result' = [result EXCEPT ![c] = "none"]
  BY <1>9 DEF Begin
<1>10. ASSUME NEW c \in Call, NEW p, NEW w, Load(c, p, w)
       PROVE  \E i, f : Begin(c, p, i, f)
  BY <1>10 DEF Load
<1>11. ASSUME NEW c \in Call, NEW p, NEW i, NEW f, Operate(c, p, i, f)
       PROVE  \E j, g : Begin(c, p, j, g)
  BY <1>11 DEF Operate
<1>12. UNCHANGED vars => UNCHANGED <<world, pc, req, at, hostCtx, private, fname,
                                      seen, undecoded, result>>
  BY DEF vars, world
<1>13. ASSUME NEW c \in Call, AllocateExits(c)
       PROVE  Leave(c, "answered") /\ UNCHANGED world
  BY <1>13 DEF AllocateExits
<1> QED BY <1>3, <1>4, <1>5, <1>6, <1>8, <1>9, <1>10, <1>11, <1>12, <1>13,
     [ExecutorNext]_execVars DEF ExecutorNext

LEMMA ExecutorInvariant == ExecutorSpec => []ExecutorInv
<1>1. ExecutorInit => ExecutorInv
  BY CallInit, RuntimeInit DEF ExecutorInit, ExecutorInv
<1>2. ExecutorInv /\ [ExecutorNext]_execVars => ExecutorInv'
  <2> SUFFICES ASSUME ExecutorInv, [ExecutorNext]_execVars PROVE ExecutorInv'
    OBVIOUS
  <2>1. CallInv /\ RuntimeInv
    BY DEF ExecutorInv
  <2>2. RuntimeInv'
    BY <2>1, RuntimeStep
  <2>3. ASSUME UNCHANGED <<world, pc, req, at, hostCtx, private, fname, seen, undecoded>>,
               \/ UNCHANGED result
               \/ \E c \in Call : result' = [result EXCEPT ![c] = "none"]
        PROVE  CallInv'
    BY <2>1, <2>3 DEF CallInv, TypeOK, RunsAtEnd, ChecksInChain, world
  <2>4. CallInv'
    BY <2>1, <2>3, CallStep, EntersKeeps, GoesOnKeeps, LeaveKeeps, RegisterKeeps
  <2> QED BY <2>2, <2>4 DEF ExecutorInv
<1> QED BY <1>1, <1>2, PTL DEF ExecutorSpec

\* The executor and the host function calls keep their state well-formed: no
\* call runs off its chain, and an instance that is open or held was made of a
\* binary, whichever guests fail or exit.
THEOREM TypeCorrect == ExecutorSpec => []ExecutorTypeOK
<1>1. ExecutorInv => ExecutorTypeOK
  BY DEF ExecutorInv, CallInv, RuntimeInv, GuestType, Made, ExecutorTypeOK
<1> QED BY <1>1, ExecutorInvariant, PTL

\* LoadPlugin: a module left open without a PluginInstance is of a plugin that
\* has an _initialize, for any number of goroutines, binaries and failures.
THEOREM LeaksHold == ExecutorSpec => []OnlyInitializeLeaks
<1>1. ExecutorInv => OnlyInitializeLeaks
  BY DEF ExecutorInv, RuntimeInv
<1> QED BY <1>1, ExecutorInvariant, PTL

-----------------------------------------------------------------------------
(* Recovery.  Past its first position a call panics inside the recovery    *)
(* that stands there.                                                      *)

LEMMA EnclosedPanic ==
    ASSUME NEW c \in Call, NEW n \in Nat, TypeOK, n > 1,
           chain # <<>>, chain[1] = "recovery", Panic(c, n)
    PROVE  UNCHANGED result
<1>1. 1 \in DOMAIN chain
  BY ChainIsSeq
<1> QED BY <1>1 DEF Panic

LEMMA RecoveryStep ==
    ASSUME ExecutorInv, RecoveryFirstNeverTraps, [ExecutorNext]_execVars
    PROVE  RecoveryFirstNeverTraps'
<1>0. CallInv /\ TypeOK /\ chain \in Seq(Middleware) /\ DOMAIN chain = 1..Len(chain)
  BY ChainIsSeq DEF ExecutorInv, CallInv
<1>1. UNCHANGED chain
  BY CallStep DEF Enters, Invoke, Reject, GoesOn, PassThrough, UserAgentAdds,
     UserAgentPanics, UserAgentSkips, CapabilityUnnamed, CapabilityPrivate,
     CapabilitySkips, CapabilityPasses, CapabilityDenies, HandlerRejects,
     HandlerStarts, HandlerReturns, HandlerPanics, WriteResponse, MapRace,
     RegisterGrants, RegisterBegin, RegisterEnd, world
<1> SUFFICES ASSUME chain # <<>>, chain[1] = "recovery",
                    \A c \in Call : result[c] # "trap"
             PROVE  \A c \in Call : result'[c] # "trap"
  BY <1>1 DEF RecoveryFirstNeverTraps
<1>6. ASSUME NEW c \in Call, Leave(c, "answered")
      PROVE  \A d \in Call : result'[d] # "trap"
  BY <1>0, <1>6 DEF Leave, TypeOK
<1>2. ASSUME NEW c \in Call, NEW p \in Plugin \cup {NoPlugin}, Enters(c, p)
      PROVE  \A d \in Call : result'[d] # "trap"
  BY <1>0, <1>2 DEF Enters, Invoke, Reject, TypeOK
<1>3. ASSUME NEW c \in Call, GoesOn(c)
      PROVE  \A d \in Call : result'[d] # "trap"
  <2>1. at[c] \in Nat /\ Len(chain) \in Nat /\ Len(chain) > 0
    BY <1>0 DEF TypeOK
  <2>2. CASE UserAgentPanics(c)
    <3>1. at[c] > 1
      BY <1>0, <2>1, <2>2 DEF UserAgentPanics, In
    <3> QED BY <1>0, <2>1, <2>2, <3>1, EnclosedPanic DEF UserAgentPanics
  <2>3. CASE HandlerPanics(c)
    <3>1. at[c] > 1
      BY <1>0, <2>1, <2>3 DEF HandlerPanics, CallInv, RunsAtEnd
    <3> QED BY <1>0, <2>1, <2>3, <3>1, EnclosedPanic DEF HandlerPanics
  <2>4. CASE WriteResponse(c)
    BY <1>0, <2>4 DEF WriteResponse, Leave, TypeOK
  <2>5. CASE ~(UserAgentPanics(c) \/ HandlerPanics(c) \/ WriteResponse(c))
    BY <1>3, <2>5 DEF GoesOn, PassThrough, UserAgentAdds, UserAgentSkips,
       CapabilityUnnamed, CapabilityPrivate, CapabilitySkips, CapabilityPasses,
       CapabilityDenies, HandlerRejects, HandlerStarts, HandlerReturns, MapRace
  <2> QED BY <2>2, <2>3, <2>4, <2>5
<1>4. CASE RegisterGrants
  BY <1>4 DEF RegisterGrants, RegisterBegin, RegisterEnd
<1>5. ASSUME NEW c \in Call, result' = [result EXCEPT ![c] = "none"]
      PROVE  \A d \in Call : result'[d] # "trap"
  BY <1>0, <1>5 DEF TypeOK
<1> QED BY <1>2, <1>3, <1>4, <1>5, <1>6, CallStep

\* PanicRecoveryMiddleware registered first: no panic of a host function or of
\* another middleware ever fails the guest's call, under any chain behind it.
THEOREM RecoveryHolds == ExecutorSpec => []RecoveryFirstNeverTraps
<1>1. ExecutorInit => RecoveryFirstNeverTraps
  BY DEF ExecutorInit, Init, RecoveryFirstNeverTraps
<1>2. ExecutorInv /\ RecoveryFirstNeverTraps /\ [ExecutorNext]_execVars
        => RecoveryFirstNeverTraps'
  BY RecoveryStep
<1> QED BY <1>1, <1>2, ExecutorInvariant, PTL DEF ExecutorSpec

-----------------------------------------------------------------------------
(* Enforcement.  Until a capability middleware takes its context a call of *)
(* a plugin has passed none; from then on it is told about private         *)
(* networks, and its target is granted, is about to be looked up, or could *)
(* not be decoded.                                                         *)

InCall(c) == pc[c] \in {"chain", "check", "running"}

Granted(c) == \E G \in seen[c] : req[c].payload.target \in G

PassedNone(c) ==
    pc[c] # "check" /\ \A i \in DOMAIN chain : i < at[c] => chain[i] # "capability"

PassedOne(c) ==
    /\ private[c] # "unset"
    /\ private[c] = "allowed" => \E G \in seen[c] : Loopback \in G
    /\ req[c].fn \in Guarded =>
          \/ Granted(c) \/ undecoded[c]
          \/ pc[c] = "check" /\ fname[c] = req[c].fn

EnforcedCall(c) ==
    /\ pc[c] = "idle" => private[c] = "unset" /\ at[c] = 1
    /\ InCall(c) =>
          /\ req[c].plugin = NoPlugin => private[c] = "unset" /\ pc[c] # "check"
          /\ req[c].plugin # NoPlugin =>
                /\ grants[req[c].plugin] \in seen[c]
                /\ IF hostCtx[c] THEN PassedNone(c) /\ private[c] = "unset" ELSE PassedOne(c)

EnforceInv == \A c \in Call : EnforcedCall(c)

LEMMA EnforceFrame ==
    ASSUME NEW d \in Call, EnforcedCall(d), UNCHANGED <<chain, grants>>,
           pc'[d] = pc[d], req'[d] = req[d], at'[d] = at[d],
           hostCtx'[d] = hostCtx[d], private'[d] = private[d],
           fname'[d] = fname[d], seen'[d] = seen[d], undecoded'[d] = undecoded[d]
    PROVE  EnforcedCall(d)'
  BY DEF EnforcedCall, InCall, PassedNone, PassedOne, Granted

\* The call c steps and no grant is registered: only c has to be looked at.
LEMMA EnforceOne ==
    ASSUME NEW c \in Call, TypeOK, EnforceInv, UNCHANGED <<chain, grants>>,
           \A d \in Call \ {c} :
               /\ pc'[d] = pc[d] /\ req'[d] = req[d] /\ at'[d] = at[d]
               /\ hostCtx'[d] = hostCtx[d] /\ private'[d] = private[d]
               /\ fname'[d] = fname[d] /\ seen'[d] = seen[d]
               /\ undecoded'[d] = undecoded[d],
           EnforcedCall(c)'
    PROVE  EnforceInv'
<1>1. ASSUME NEW d \in Call \ {c} PROVE EnforcedCall(d)'
  BY EnforceFrame DEF EnforceInv
<1> QED BY <1>1 DEF EnforceInv

LEMMA EnforceEnters ==
    ASSUME NEW c \in Call, NEW p \in Plugin \cup {NoPlugin}, CallInv, EnforceInv,
           Enters(c, p)
    PROVE  EnforceInv'
<1>0. TypeOK /\ EnforcedCall(c) /\ chain \in Seq(Middleware)
  BY DEF CallInv, EnforceInv, TypeOK
<1>1. ASSUME NEW f \in Registered, NEW r \in Payloads(f), Invoke(c, f, p, r)
      PROVE  EnforceInv'
  <2>1. /\ pc'[c] = "chain" /\ hostCtx'[c] = TRUE
        /\ req'[c] = [fn |-> f, plugin |-> p, payload |-> r]
        /\ seen'[c] = {GrantsOf(p)}
        /\ at'[c] = 1 /\ private'[c] = "unset"
        /\ UNCHANGED <<chain, grants>>
    BY <1>0, <1>1 DEF Invoke, world, TypeOK, EnforcedCall
  <2>3. PassedNone(c)'
    BY <1>0, <2>1 DEF PassedNone
  <2>5. p # NoPlugin => grants'[p] \in seen'[c]
    BY <2>1 DEF GrantsOf
  <2>6. EnforcedCall(c)'
    BY <2>1, <2>3, <2>5 DEF EnforcedCall
  <2> QED BY <1>0, <1>1, <2>1, <2>6, EnforceOne DEF Invoke, TypeOK
<1>2. CASE Reject(c)
  <2>1. EnforcedCall(c)'
    BY <1>0, <1>2 DEF Reject, EnforcedCall, InCall, TypeOK
  <2> QED BY <1>0, <1>2, <2>1, EnforceOne DEF Reject, TypeOK, world
<1> QED BY <1>1, <1>2 DEF Enters

\* A call that is answered or over is no longer in the chain.
LEMMA EnforceLeaves ==
    ASSUME NEW c \in Call, CallInv, EnforceInv, UNCHANGED world,
           \/ \E res : Leave(c, res)
           \/ /\ pc' = [pc EXCEPT ![c] = "respond"]
              /\ UNCHANGED <<req, at, hostCtx, private, fname, seen, undecoded>>
    PROVE  EnforceInv'
<1>0. TypeOK /\ UNCHANGED <<chain, grants>>
  BY DEF CallInv, world
<1>1. EnforcedCall(c)'
  BY <1>0 DEF Leave, EnforcedCall, InCall, TypeOK
<1> QED BY <1>0, <1>1, EnforceOne DEF Leave, TypeOK

LEMMA EnforcePanics ==
    ASSUME NEW c \in Call, NEW n \in Nat, CallInv, EnforceInv, Panic(c, n),
           UNCHANGED world
    PROVE  EnforceInv'
<1>1. CASE \E i \in DOMAIN chain : i < n /\ chain[i] = "recovery"
  BY <1>1, EnforceLeaves DEF Panic
<1>2. CASE ~(\E i \in DOMAIN chain : i < n /\ chain[i] = "recovery")
  BY <1>2, EnforceLeaves DEF Panic
<1> QED BY <1>1, <1>2

\* A middleware that is none of capability passes the call on; what it may do
\* to the payload it does while the context is still a HostContext.
LEMMA EnforcePasses ==
    ASSUME NEW c \in Call, CallInv, EnforceInv, Advance(c),
           pc[c] = "chain", at[c] \in DOMAIN chain,
           \/ chain[at[c]] # "capability"
           \/ req[c].plugin = NoPlugin,
           UNCHANGED <<world, pc, hostCtx, private, fname, seen, undecoded>>,
           \/ UNCHANGED req
           \/ /\ hostCtx[c]
              /\ \E checkable \in BOOLEAN, decodable \in BOOLEAN :
                    req' = [req EXCEPT ![c].payload = Headed(@, checkable, decodable)]
    PROVE  EnforceInv'
<1>0. /\ TypeOK /\ UNCHANGED <<chain, grants>> /\ EnforcedCall(c)
      /\ chain \in Seq(Middleware) /\ DOMAIN chain = 1..Len(chain)
      /\ at[c] \in Nat /\ at'[c] = at[c] + 1 /\ pc'[c] = "chain"
  BY ChainIsSeq DEF CallInv, world, EnforceInv, TypeOK, Advance
<1>1. req[c].plugin # NoPlugin /\ PassedNone(c) => PassedNone(c)'
  BY <1>0 DEF PassedNone
<1>2. CASE UNCHANGED req
  <2>1. EnforcedCall(c)'
    BY <1>0, <1>1, <1>2 DEF EnforcedCall, InCall, PassedOne, Granted
  <2> QED BY <1>0, <1>2, <2>1, EnforceOne DEF Advance, TypeOK
<1>3. ASSUME hostCtx[c], NEW checkable \in BOOLEAN, NEW decodable \in BOOLEAN,
             req' = [req EXCEPT ![c].payload = Headed(@, checkable, decodable)]
      PROVE  EnforceInv'
  <2>1. req[c] \in Request /\ req[c].payload \in Payload
    BY <1>0 DEF TypeOK, Request
  <2>2. req'[c].fn = req[c].fn /\ req'[c].plugin = req[c].plugin
    BY <1>0, <1>3, <2>1 DEF TypeOK, Request
  <2>4. EnforcedCall(c)'
    BY <1>0, <1>1, <1>3, <2>2 DEF EnforcedCall, InCall
  <2>5. \A d \in Call \ {c} : req'[d] = req[d] /\ at'[d] = at[d]
    BY <1>0, <1>3 DEF TypeOK, Advance
  <2> QED BY <1>0, <2>4, <2>5, EnforceOne
<1> QED BY <1>2, <1>3

LEMMA EnforceGoesOn ==
    ASSUME NEW c \in Call, CallInv, EnforceInv, GoesOn(c)
    PROVE  EnforceInv'
<1>0. /\ TypeOK /\ EnforcedCall(c)
      /\ chain \in Seq(Middleware) /\ DOMAIN chain = 1..Len(chain)
      /\ at[c] \in Nat /\ req[c] \in Request
  BY ChainIsSeq DEF CallInv, EnforceInv, TypeOK
<1>2. CASE PassThrough(c)
  BY <1>2, EnforcePasses DEF PassThrough, In
<1>3. CASE UserAgentAdds(c)
  BY <1>3, EnforcePasses DEF UserAgentAdds, In, SeesHTTP
<1>4. CASE UserAgentPanics(c)
  BY <1>0, <1>4, EnforcePanics DEF UserAgentPanics
<1>5. CASE UserAgentSkips(c)
  BY <1>5, EnforcePasses DEF UserAgentSkips, In
<1>6. CASE CapabilityUnnamed(c)
  BY <1>6, EnforcePasses DEF CapabilityUnnamed, In
<1>7. CASE CapabilityPrivate(c)
  <2>1. /\ pc[c] = "chain" /\ pc'[c] = "check" /\ ~hostCtx'[c]
        /\ req[c].plugin # NoPlugin /\ UNCHANGED <<req, at, seen, undecoded, chain, grants>>
        /\ fname'[c] = IF hostCtx[c] THEN req[c].fn ELSE "none"
        /\ private'[c] = IF Loopback \in grants[req[c].plugin] THEN "allowed"
                                                                ELSE "refused"
    BY <1>0, <1>7 DEF CapabilityPrivate, In, TypeOK, world
  <2>2. grants[req[c].plugin] \in seen[c]
    BY <1>0, <2>1 DEF EnforcedCall, InCall
  <2>3. private'[c] = "allowed" => \E G \in seen[c] : Loopback \in G
    BY <2>1, <2>2
  <2>4. req'[c].fn \in Guarded =>
           Granted(c)' \/ undecoded'[c] \/ fname'[c] = req'[c].fn
    BY <1>0, <2>1 DEF EnforcedCall, InCall, PassedOne, Granted
  <2>5. PassedOne(c)'
    BY <2>1, <2>3, <2>4 DEF PassedOne
  <2>6. EnforcedCall(c)'
    BY <1>0, <2>1, <2>2, <2>5 DEF EnforcedCall, InCall
  <2> QED BY <1>0, <1>7, <2>1, <2>6, EnforceOne DEF CapabilityPrivate, TypeOK
<1>8. ASSUME pc[c] = "check", Advance(c),
             fname[c] \in Guarded => Granted(c) \/ undecoded'[c],
             undecoded[c] => undecoded'[c],
             \A d \in Call \ {c} : undecoded'[d] = undecoded[d],
             pc' = [pc EXCEPT ![c] = "chain"],
             UNCHANGED <<world, req, hostCtx, private, fname, result, seen>>
      PROVE  EnforceInv'
  <2>1. pc'[c] = "chain" /\ UNCHANGED <<chain, grants>>
    BY <1>0, <1>8 DEF TypeOK, world
  <2>2. req[c].plugin # NoPlugin /\ ~hostCtx[c] /\ PassedOne(c)
    BY <1>0, <1>8 DEF EnforcedCall, InCall, PassedNone
  <2>3. req[c].fn \in Guarded => Granted(c) \/ undecoded'[c]
    BY <1>8, <2>2 DEF PassedOne
  <2>4. PassedOne(c)'
    BY <1>8, <2>2, <2>3 DEF PassedOne, Granted
  <2>5. EnforcedCall(c)'
    BY <1>0, <1>8, <2>1, <2>2, <2>4 DEF EnforcedCall, InCall
  <2> QED BY <1>0, <1>8, <2>1, <2>5, EnforceOne DEF Advance, TypeOK
<1>9. CASE CapabilitySkips(c)
  <2>1. undecoded'[c] = (undecoded[c] \/ fname[c] \in Guarded)
        /\ \A d \in Call \ {c} : undecoded'[d] = undecoded[d]
    BY <1>0, <1>9 DEF CapabilitySkips, TypeOK
  <2> QED BY <1>8, <1>9, <2>1 DEF CapabilitySkips
<1>10. CASE CapabilityPasses(c)
  <2>1. grants[req[c].plugin] \in seen[c]
    BY <1>0, <1>10 DEF CapabilityPasses, EnforcedCall, InCall
  <2>2. Granted(c)
    BY <1>10, <2>1 DEF CapabilityPasses, Granted
  <2> QED BY <1>8, <1>10, <2>2 DEF CapabilityPasses
<1>11. CASE CapabilityDenies(c) \/ HandlerRejects(c) \/ HandlerReturns(c)
  BY <1>11, EnforceLeaves DEF CapabilityDenies, HandlerRejects, HandlerReturns
<1>12. CASE HandlerStarts(c)
  <2>1. /\ pc[c] = "chain" /\ pc'[c] = "running"
        /\ UNCHANGED <<req, at, hostCtx, private, fname, seen, undecoded,
                       chain, grants>>
    BY <1>0, <1>12 DEF HandlerStarts, AtHandler, TypeOK, world
  <2>2. EnforcedCall(c)'
    BY <1>0, <2>1 DEF EnforcedCall, InCall, PassedNone, PassedOne,
       Granted
  <2> QED BY <1>0, <1>12, <2>1, <2>2, EnforceOne DEF HandlerStarts, TypeOK
<1>14. CASE HandlerPanics(c)
  BY <1>0, <1>14, EnforcePanics DEF HandlerPanics
<1>15. CASE WriteResponse(c)
  BY <1>15, EnforceLeaves DEF WriteResponse
<1>16. CASE MapRace(c)
  BY <1>0, <1>16, EnforceOne, EnforceFrame DEF MapRace
<1> QED BY <1>2, <1>3, <1>4, <1>5, <1>6, <1>7, <1>9, <1>10, <1>11, <1>12,
     <1>14, <1>15, <1>16, GoesOn(c) DEF GoesOn

LEMMA EnforceRegister ==
    ASSUME CallInv, EnforceInv, RegisterGrants
    PROVE  EnforceInv'
<1>0. TypeOK
  BY DEF CallInv
<1>1. ASSUME NEW p \in Plugin, NEW G \in GrantSets, RegisterBegin(p, G),
             NEW c \in Call
      PROVE  EnforcedCall(c)'
  BY <1>1, EnforceFrame DEF RegisterBegin, EnforceInv
<1>2. ASSUME RegisterEnd, NEW c \in Call
      PROVE  EnforcedCall(c)'
  <2>1. PICK w \in writer :
           /\ grants' = [grants EXCEPT ![w.plugin] = w.grants]
           /\ seen' = [d \in Call |->
                          IF pc[d] # "idle" /\ req[d].plugin = w.plugin
                          THEN seen[d] \cup {w.grants} ELSE seen[d]]
    BY <1>2 DEF RegisterEnd
  <2>2. UNCHANGED <<chain, pc, req, at, hostCtx, private, fname, undecoded>>
    BY <1>2 DEF RegisterEnd
  <2>3. w.plugin \in Plugin /\ seen[c] \subseteq seen'[c] /\ EnforcedCall(c)
    BY <1>0, <2>1 DEF TypeOK, EnforceInv
  <2>4. req[c].plugin \in Plugin \cup {NoPlugin}
    BY <1>0 DEF TypeOK, Request
  <2>5. InCall(c) /\ req[c].plugin # NoPlugin => grants'[req[c].plugin] \in seen'[c]
    BY <1>0, <2>1, <2>3, <2>4 DEF TypeOK, EnforcedCall, InCall
  <2>6. PassedOne(c) => PassedOne(c)'
    BY <2>2, <2>3 DEF PassedOne, Granted
  <2> QED BY <2>2, <2>3, <2>5, <2>6 DEF EnforcedCall, InCall, PassedNone
<1> QED BY <1>1, <1>2 DEF RegisterGrants, EnforceInv

LEMMA EnforceInvariant == ExecutorSpec => []EnforceInv
<1>1. ExecutorInit => EnforceInv
  <2> SUFFICES ASSUME ExecutorInit, NEW c \in Call PROVE EnforcedCall(c)
    BY DEF EnforceInv
  <2>1. pc[c] = "idle" /\ private[c] = "unset" /\ at[c] = 1
    BY DEF ExecutorInit, Init
  <2> QED BY <2>1 DEF EnforcedCall, InCall
<1>2. ExecutorInv /\ EnforceInv /\ [ExecutorNext]_execVars => EnforceInv'
  <2> SUFFICES ASSUME ExecutorInv, EnforceInv, [ExecutorNext]_execVars
               PROVE  EnforceInv'
    OBVIOUS
  <2>1. CallInv
    BY DEF ExecutorInv
  <2>2. ASSUME UNCHANGED <<world, pc, req, at, hostCtx, private, fname, seen, undecoded>>,
               NEW c \in Call
        PROVE  EnforcedCall(c)'
    BY <2>2, EnforceFrame DEF EnforceInv, world
  <2>3. CASE UNCHANGED <<world, pc, req, at, hostCtx, private, fname, seen, undecoded>>
    BY <2>2, <2>3 DEF EnforceInv
  <2> QED BY <2>1, <2>3, CallStep, EnforceEnters, EnforceGoesOn, EnforceLeaves,
          EnforceRegister
<1> QED BY <1>1, <1>2, ExecutorInvariant, PTL DEF ExecutorSpec

LEMMA EnforcedPassedOne ==
    ASSUME ExecutorInv, EnforceInv, NEW c \in Call, Enforced(c)
    PROVE  PassedOne(c)
<1>1. /\ InCall(c) /\ req[c].plugin # NoPlugin /\ EnforcedCall(c)
      /\ at[c] = Len(chain) + 1
  BY DEF Enforced, InCall, EnforceInv, ExecutorInv, CallInv, RunsAtEnd
<1>2. DOMAIN chain = 1..Len(chain) /\ Len(chain) \in Nat
  BY ChainIsSeq DEF ExecutorInv, CallInv
<1>3. ~PassedNone(c)
  BY <1>1, <1>2 DEF Enforced, HasMiddleware, PassedNone
<1> QED BY <1>1, <1>3 DEF EnforcedCall

\* CapabilityMiddleware: wherever it stands and however often, whatever other
\* middleware surrounds it and whatever is registered meanwhile, a standard
\* host function of a named plugin that runs was granted, or had a payload the
\* middleware could not decode when it came to check it.
THEOREM GuardedHolds == ExecutorSpec => []GuardedHandlerIsGranted
<1>1. ExecutorInv /\ EnforceInv => GuardedHandlerIsGranted
  <2> SUFFICES ASSUME ExecutorInv, EnforceInv, NEW c \in Call, Enforced(c),
                      req[c].fn \in Guarded
               PROVE  Granted(c) \/ undecoded[c]
    BY DEF GuardedHandlerIsGranted, Granted
  <2>1. pc[c] = "running"
    BY DEF Enforced
  <2> QED BY <2>1, EnforcedPassedOne DEF PassedOne
<1> QED BY <1>1, ExecutorInvariant, EnforceInvariant, PTL

\* ssrf_allow_private in a running host function's context: allowed only by a
\* grant of loopback during the call, and set whenever the plugin is known.
THEOREM PrivateHolds == ExecutorSpec => []PrivateIsGranted
<1>1. ExecutorInv /\ EnforceInv => PrivateIsGranted
  <2> SUFFICES ASSUME ExecutorInv, EnforceInv, NEW c \in Call, pc[c] = "running"
               PROVE  /\ private[c] = "allowed" => \E G \in seen[c] : Loopback \in G
                      /\ Enforced(c) => private[c] # "unset"
    BY DEF PrivateIsGranted, Enforced
  <2>1. InCall(c) /\ EnforcedCall(c)
    BY DEF InCall, EnforceInv
  <2>2. private[c] = "allowed" => \E G \in seen[c] : Loopback \in G
    BY <2>1 DEF EnforcedCall, PassedOne
  <2> QED BY <2>2, EnforcedPassedOne DEF PassedOne
<1> QED BY <1>1, ExecutorInvariant, EnforceInvariant, PTL
=============================================================================
