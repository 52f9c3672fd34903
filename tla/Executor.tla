------------------------------ MODULE Executor ------------------------------
(***************************************************************************)
(* host.Executor: LoadPlugin, the operations (Manifest, Schema, Check)     *)
(* of a PluginInstance, and Close, by the goroutines whose guest code      *)
(* makes the host function calls of HostCall.                              *)
(*                                                                         *)
(* wazero and its WASI are external.  What the executor relies on: a       *)
(* runtime has one open module of a name; a guest that exits (proc_exit)   *)
(* closes its module, which frees the name; guest code of a closed module  *)
(* may still run, but its call fails; a module whose _start fails is       *)
(* closed, and a _start that exits with 0 counts as successful; a host     *)
(* function that panics fails the guest's call; Close closes every module  *)
(* with exit code 0, and nothing is instantiated after it.                 *)
(***************************************************************************)
EXTENDS HostCall

CONSTANTS
    Wasm,      \* plugin binaries
    NoWasm,
    NameOf,    \* the module name in each binary's name section
    Anonymous, \* the name of a binary that has none
    Exports,   \* the functions each exports
    Instance,  \* bound: the instances there is room for
    NoInstance

Export == {"_initialize", "_manifest", "_schema", "schema", "_observe",
           "allocate"}

Operation == {"_manifest", "_schema", "_observe"}

ASSUME WasmAssumption == NoWasm \notin Wasm
ASSUME ExportsAssumption == Exports \in [Wasm -> SUBSET Export]
ASSUME InstanceAssumption == NoInstance \notin Instance

VARIABLES
    module,    \* the binary each instance was made of
    open,      \* the instances whose module is open in the runtime
    held,      \* those a caller has as PluginInstance, open or not
    closed,    \* has the runtime been closed?
    guest,     \* the guest function each goroutine is in, and of what
    outcome    \* how its last operation ended

runtime == <<module, open, held, closed>>
execVars == <<vars, runtime, guest, outcome>>

Outside == [fn |-> "none", inst |-> NoInstance, plugin |-> NoPlugin]

ExecutorInit ==
    /\ Init
    /\ module = [i \in Instance |-> NoWasm]
    /\ open = {} /\ held = {}
    /\ closed = FALSE
    /\ guest = [c \in Call |-> Outside]
    /\ outcome = [c \in Call |-> "none"]

AtRest(c) == guest[c].fn = "none"

\* The guest itself runs, and no host function of it.
Runs(c, fn) == guest[c].fn = fn /\ pc[c] = "idle"

HostFailed(c) == result[c] \in {"trap", "broken"}

\* A call of a closed module fails, whatever the guest's function does.
CanReturn(c, fn) == Runs(c, fn) /\ ~HostFailed(c) /\ guest[c].inst \in open

\* A goroutine in LoadPlugin, whose instance nobody else has.
Loading(c) == guest[c].fn \in {"_start", "_initialize"}

\* An operation calls its first guest function.
Begin(c, p, i, fn) ==
    /\ guest' = [guest EXCEPT ![c] = [fn |-> fn, inst |-> i, plugin |-> p]]
    /\ outcome' = [outcome EXCEPT ![c] = "none"]
    /\ result' = [result EXCEPT ![c] = "none"]
    /\ UNCHANGED <<world, pc, req, at, hostCtx, private, fname, seen, undecoded>>

End(c, how) ==
    /\ guest' = [guest EXCEPT ![c] = Outside]
    /\ outcome' = [outcome EXCEPT ![c] = how]
    /\ UNCHANGED vars

CallNext(c, fn) ==
    /\ guest' = [guest EXCEPT ![c].fn = fn]
    /\ UNCHANGED <<vars, outcome>>

-----------------------------------------------------------------------------
\* Instantiate with the default configuration names the module by its name
\* section, and refuses a name that an open module has.
NameTaken(w) ==
    /\ NameOf[w] # Anonymous
    /\ \E i \in open : NameOf[module[i]] = NameOf[w]

\* LoadPlugin: Instantiate has made the module and runs its _start.
Load(c, p, w) ==
    /\ AtRest(c)
    /\ ~closed
    /\ ~NameTaken(w)
    /\ \E i \in Instance :
          /\ module[i] = NoWasm
          /\ module' = [module EXCEPT ![i] = w]
          /\ open' = open \cup {i}
          /\ Begin(c, p, i, "_start")
    /\ UNCHANGED <<held, closed>>

Hold(c) ==
    /\ held' = held \cup {guest[c].inst}
    /\ End(c, "ok")

HasInitialize(i) == "_initialize" \in Exports[module[i]]

\* The module of the goroutine's instance is closed.
CloseModule(c) == open' = open \ {guest[c].inst}

MutantStartReturns(c) ==
    /\ Runs(c, "_start") /\ ~HostFailed(c)
    /\ UNCHANGED open \/ CloseModule(c)
    /\ IF HasInitialize(guest[c].inst)
       THEN CallNext(c, "_initialize")
       ELSE End(c, "error")
    /\ UNCHANGED <<module, held, closed>>

\* Instantiate returns without an error: _start has ended, or its module was
\* closed with exit code 0, by an exit or by Close.  _initialize is called if
\* there is one.
StartReturns(c) ==
    /\ Runs(c, "_start") /\ ~HostFailed(c)
    /\ UNCHANGED open \/ CloseModule(c)
    /\ IF HasInitialize(guest[c].inst)
       THEN CallNext(c, "_initialize") /\ UNCHANGED held
       ELSE Hold(c)
    /\ UNCHANGED <<module, closed>>

InitializeReturns(c) ==
    /\ CanReturn(c, "_initialize")
    /\ Hold(c)
    /\ UNCHANGED <<module, open, closed>>

Lacks(i, f) ==
    LET exports == Exports[module[i]]
    IN  CASE f = "_manifest" -> "_manifest" \notin exports
          [] f = "_schema"   -> exports \cap {"_schema", "schema"} = {}
          [] f = "_observe"  -> ~({"_observe", "allocate"} \subseteq exports)

\* Manifest, Schema or Check; Check has memory allocated for its config first.
Operate(c, p, i, f) ==
    /\ AtRest(c)
    /\ i \in held
    /\ ~Lacks(i, f)
    /\ Begin(c, p, i, IF f = "_observe" THEN "allocate" ELSE f)
    /\ UNCHANGED runtime

\* No guest code runs: the binary cannot be instantiated (its name is taken,
\* the runtime closed, or it is itself at fault), the export is missing, or the
\* config cannot be marshalled.
Refuse(c) ==
    /\ AtRest(c)
    /\ outcome' = [outcome EXCEPT ![c] = "error"]
    /\ UNCHANGED <<vars, runtime, guest>>

\* Check writes the config where allocate points, and calls _observe; the
\* pointer may lie outside the memory, and an allocate that returns nothing
\* makes the index ares[0] panic.
AllocateReturns(c) ==
    /\ CanReturn(c, "allocate")
    /\ \/ CallNext(c, "_observe")
       \/ \E how \in {"error", "panic"} : End(c, how)
    /\ UNCHANGED runtime

\* The result is read and decoded; a length of 0 leaves it empty, without an
\* error.  No result, a range outside the memory and bad JSON are errors.
OperationReturns(c) ==
    /\ \E f \in Operation : CanReturn(c, f)
    /\ \E how \in {"ok", "empty", "error"} : End(c, how)
    /\ UNCHANGED runtime

\* The operation's call of the guest fails.  Of a LoadPlugin the instance is
\* nobody's then; its place is free once its module is closed.
Fails(c) ==
    /\ \E fn \in Export \cup {"_start"} : Runs(c, fn)
    /\ End(c, "error")
    /\ module' = IF Loading(c) /\ guest[c].inst \notin open'
                 THEN [module EXCEPT ![guest[c].inst] = NoWasm] ELSE module
    /\ UNCHANGED <<held, closed>>

\* The guest traps, its module is closed, or a host function it called has
\* panicked: an error.  Instantiate closes the module it made; LoadPlugin,
\* when _initialize fails, does not.
GuestFails(c) ==
    /\ IF guest[c].fn = "_start" THEN CloseModule(c) ELSE UNCHANGED open
    /\ Fails(c)

\* The guest exits, in a _start with a code other than 0: its module is closed
\* and its call has failed.
GuestExits(c) ==
    /\ ~HostFailed(c)
    /\ CloseModule(c)
    /\ Fails(c)

\* The guest's allocate exits under WriteResponse, which answers 0: the guest
\* goes on with its module closed.
AllocateExits(c) ==
    /\ pc[c] = "respond"
    /\ "allocate" \in Exports[module[guest[c].inst]]
    /\ CloseModule(c)
    /\ Leave(c, "answered")
    /\ UNCHANGED <<world, module, held, closed, guest, outcome>>

Close ==
    /\ closed' = TRUE
    /\ open' = {}
    /\ UNCHANGED <<vars, module, held, guest, outcome>>

\* The guest is in a host function, or calls one in the context it was called
\* with.
HostCallStep(c) ==
    /\ \/ ~AtRest(c) /\ ~HostFailed(c) /\ Enters(c, guest[c].plugin)
       \/ GoesOn(c)
    /\ UNCHANGED <<runtime, guest, outcome>>

ExecutorNext ==
    /\ ~dead
    /\ \/ \E c \in Call :
            \/ \E p \in Plugin \cup {NoPlugin} :
                  \/ \E w \in Wasm : Load(c, p, w)
                  \/ \E i \in Instance, f \in Operation : Operate(c, p, i, f)
            \/ Refuse(c)
            \/ StartReturns(c)
            \/ InitializeReturns(c)
            \/ AllocateReturns(c)
            \/ OperationReturns(c)
            \/ GuestFails(c)
            \/ GuestExits(c)
            \/ AllocateExits(c)
            \/ HostCallStep(c)
       \/ RegisterGrants /\ UNCHANGED <<runtime, guest, outcome>>
       \/ Close

ExecutorSpec == ExecutorInit /\ [][ExecutorNext]_execVars

-----------------------------------------------------------------------------
\* Every variable keeps its type; in particular an instance that is open or
\* held is one that was made of a binary.
ExecutorTypeOK ==
    /\ TypeOK
    /\ module \in [Instance -> Wasm \cup {NoWasm}]
    /\ open \cup held \subseteq {i \in Instance : module[i] # NoWasm}
    /\ closed \in BOOLEAN
    /\ guest \in [Call -> [fn : Export \cup {"_start", "none"},
                           inst : Instance \cup {NoInstance},
                           plugin : Plugin \cup {NoPlugin}]]
    /\ outcome \in [Call -> {"none", "ok", "empty", "error", "panic"}]

\* LoadPlugin: a module that is open in the runtime, and keeps its name from
\* other loads, is a caller's PluginInstance or being loaded, whatever failed,
\* trapped or exited before; the only modules left open without an owner are
\* of plugins that have an _initialize to fail.
OnlyInitializeLeaks ==
    \A i \in open :
        \/ i \in held
        \/ \E c \in Call : Loading(c) /\ guest[c].inst = i
        \/ HasInitialize(i)
=============================================================================
