----------------------------- MODULE Gatekeeper -----------------------------
(***************************************************************************)
(* Capability granting: capability/gatekeeper/gatekeeper.go on top of the  *)
(* file grant store capability/grantstore/file_store.go.                   *)
(*                                                                         *)
(* Each element of Proc is a thread of control that calls                  *)
(* GrantCapabilities: a host process, or a goroutine of one.  They share   *)
(* nothing but the grants file.  A capability of Cap is one promptable     *)
(* unit: a network rule, one file read or write path, one environment      *)
(* variable, one command, one key-value rule.                              *)
(*                                                                         *)
(* Saving is three steps of the operating system (open with truncation,    *)
(* write, possibly a short write), between which other processes read the  *)
(* file or write it, and a process may die.                                *)
(***************************************************************************)
EXTENDS Naturals, FiniteSets

CONSTANTS
    Proc,       \* callers of GrantCapabilities
    Cap,        \* capabilities a plugin may require
    KindOf,     \* the kind of each capability
    Broad,      \* the capabilities that req.IsBroad flags
    Faults      \* what may go wrong in a run: "crash", "io"

Kinds == {"network", "fs", "env", "exec", "kv"}
Levels == {"strict", "standard", "permissive"}

ASSUME KindAssumption == KindOf \in [Cap -> Kinds]
ASSUME BroadAssumption == Broad \subseteq Cap
ASSUME FaultsAssumption == Faults \subseteq {"crash", "io"}

VARIABLES
    file,       \* the grants file
    level,      \* level[p]: the security level of p's gatekeeper
    pc,         \* where p is in GrantCapabilities
    trustAll,   \* the arguments of p's current call
    required,
    existing,   \* existingGrants of p's current call
    todo,       \* missing capabilities p has still to evaluate
    newGrants,  \* newGrants, and the value returned once p is done
    shouldSave,
    approved,   \* history: capabilities some call granted by policy or prompt
    always,     \* history: capabilities some prompt answered with "always"
    saved,      \* history: everything a Save that returned nil has written
    wasTorn,    \* history: some write has left a torn file
    disturbed   \* history: a save met another call under way, a load met a
                \* save or failed, or a save was cut short

vars == <<file, level, pc, trustAll, required, existing, todo, newGrants,
          shouldSave, approved, always, saved, wasTorn, disturbed>>
locals == <<level, trustAll, required, existing, todo, newGrants, shouldSave>>
history == <<approved, always, saved, wasTorn, disturbed>>

-----------------------------------------------------------------------------
(* The grants file.  A truncated file is empty YAML, which parses to the   *)
(* empty grant set.  A torn file ends in a cut-off rule, or in the tail of *)
(* a longer file under it: yaml.Unmarshal rejects it or reads what nobody  *)
(* wrote (a cut path is another path).                                     *)

Absent == [state |-> "absent", grants |-> {}]
Torn == [state |-> "torn", grants |-> {}]
Holding(S) == [state |-> "ok", grants |-> S]
Truncated == Holding({})
Files == [state : {"absent", "ok", "torn"}, grants : SUBSET Cap]

\* What Load leaves GrantCapabilities with: the contents of the file, or no
\* grants at all when it cannot be read or does not parse.
LoadOutcomes ==
    (IF file = Torn THEN SUBSET Cap ELSE {file.grants})
    \cup (IF "io" \in Faults THEN {{}} ELSE {})

\* What a write of S at offset 0 leaves: S if the file is still as the
\* writer truncated it or not longer than S; otherwise S and the tail of
\* what another writer put there.
AfterWrite(S) ==
    {Holding(S)} \cup (IF file = Truncated THEN {} ELSE {Torn})

\* What a write that fails part way leaves: nothing, or a prefix.
AfterShortWrite(S) == {Truncated, Torn}

-----------------------------------------------------------------------------
(* One capability.                                                         *)

\* promptForCapabilities goes through the kinds in this order; key-value
\* rules have no prompt function.
PromptRank == [network |-> 1, fs |-> 2, env |-> 3, exec |-> 4]
Prompted == {c \in Cap : KindOf[c] # "kv"}
NextPrompts(S) ==
    {c \in S : \A d \in S : PromptRank[KindOf[c]] <= PromptRank[KindOf[d]]}

MutantEvaluateStrict(lv, c) ==
    IF lv = "permissive" THEN {"auto"} ELSE {"yes", "always", "no", "error"}

\* evaluateWithSecurityLevel: "auto" grants without asking, "error" is an
\* error of the policy or of the prompt.
Evaluate(lv, c) ==
    CASE c \in Broad /\ lv = "strict" -> {"error"}
      [] lv = "permissive"            -> {"auto"}
      [] OTHER                        -> {"yes", "always", "no", "error"}

-----------------------------------------------------------------------------
Init ==
    /\ file \in {Absent} \cup {Holding(S) : S \in SUBSET Cap}
    /\ level \in [Proc -> Levels]
    /\ pc = [p \in Proc |-> "idle"]
    /\ trustAll = [p \in Proc |-> FALSE]
    /\ required = [p \in Proc |-> {}]
    /\ existing = [p \in Proc |-> {}]
    /\ todo = [p \in Proc |-> {}]
    /\ newGrants = [p \in Proc |-> {}]
    /\ shouldSave = [p \in Proc |-> FALSE]
    /\ approved = file.grants
    /\ always = file.grants
    /\ saved = file.grants
    /\ wasTorn = FALSE /\ disturbed = FALSE

Goto(p, here, there) == pc[p] = here /\ pc' = [pc EXCEPT ![p] = there]

AtRest(p) == pc[p] \in {"idle", "done", "failed"}

\* The other calls that are under way.
Others(p) == {q \in Proc \ {p} : ~AtRest(q)}

\* A call that needs no grants, or that trusts all plugins, returns at once.
ReturnUnchecked(p, R, trust) ==
    /\ AtRest(p)
    /\ R = {} \/ trust
    /\ pc' = [pc EXCEPT ![p] = "done"]
    /\ trustAll' = [trustAll EXCEPT ![p] = trust]
    /\ required' = [required EXCEPT ![p] = R]
    /\ existing' = [existing EXCEPT ![p] = {}]
    /\ todo' = [todo EXCEPT ![p] = {}]
    /\ newGrants' = [newGrants EXCEPT ![p] = R]
    /\ shouldSave' = [shouldSave EXCEPT ![p] = FALSE]
    /\ UNCHANGED <<file, level, history>>

MutantMissing(R, loaded) == R

\* What a call that requires R has to ask about: required.Difference, without
\* duplicates.
Missing(R, loaded) == R \ loaded

\* Any other call loads the store and computes what is missing.
LoadGrants(p, R) ==
    /\ AtRest(p)
    /\ R # {}
    /\ \E loaded \in LoadOutcomes :
          /\ existing' = [existing EXCEPT ![p] = loaded]
          /\ todo' = [todo EXCEPT ![p] = Missing(R, loaded)]
          /\ disturbed' = (\/ disturbed
                           \/ loaded # file.grants
                           \/ \E q \in Proc : pc[q] = "writing")
    /\ pc' = [pc EXCEPT ![p] = "loaded"]
    /\ trustAll' = [trustAll EXCEPT ![p] = FALSE]
    /\ required' = [required EXCEPT ![p] = R]
    /\ newGrants' = [newGrants EXCEPT ![p] = {}]
    /\ shouldSave' = [shouldSave EXCEPT ![p] = FALSE]
    /\ UNCHANGED <<file, level, approved, always, saved, wasTorn>>

\* missing.IsEmpty(): the stored grants are returned.
ReturnStored(p) ==
    /\ Goto(p, "loaded", "done")
    /\ todo[p] = {}
    /\ newGrants' = [newGrants EXCEPT ![p] = existing[p]]
    /\ UNCHANGED <<file, level, trustAll, required, existing, todo,
                   shouldSave, history>>

\* Missing capabilities and no terminal to ask on.
RefuseNonInteractive(p) ==
    /\ Goto(p, "loaded", "failed")
    /\ todo[p] # {}
    /\ UNCHANGED <<file, locals, history>>

MutantStartFresh(p) ==
    /\ Goto(p, "loaded", "prompting")
    /\ todo[p] # {}
    /\ todo' = [todo EXCEPT ![p] = @ \cap Prompted]
    /\ UNCHANGED <<file, level, trustAll, required, existing, newGrants,
                   shouldSave, history>>

\* newGrants starts as a copy of the stored grants.
StartPrompts(p) ==
    /\ Goto(p, "loaded", "prompting")
    /\ todo[p] # {}
    /\ todo' = [todo EXCEPT ![p] = @ \cap Prompted]
    /\ newGrants' = [newGrants EXCEPT ![p] = existing[p]]
    /\ UNCHANGED <<file, level, trustAll, required, existing, shouldSave,
                   history>>

MutantGrantMissing(p, c, d) ==
    /\ Goto(p, "prompting", "prompting")
    /\ c \in NextPrompts(todo[p])
    /\ d \in Evaluate(level[p], c) \cap {"auto", "yes", "always"}
    /\ todo' = [todo EXCEPT ![p] = {}]
    /\ newGrants' = [newGrants EXCEPT ![p] = @ \cup todo[p]]
    /\ shouldSave' = [shouldSave EXCEPT ![p] = @ \/ d = "always"]
    /\ approved' = approved \cup {c}
    /\ always' = IF d = "always" THEN always \cup {c} ELSE always
    /\ UNCHANGED <<file, level, trustAll, required, existing, saved, wasTorn,
                   disturbed>>

\* The loop body of the prompt functions when the capability is granted.
GrantOne(p, c, d) ==
    /\ Goto(p, "prompting", "prompting")
    /\ c \in NextPrompts(todo[p])
    /\ d \in Evaluate(level[p], c) \cap {"auto", "yes", "always"}
    /\ todo' = [todo EXCEPT ![p] = @ \ {c}]
    /\ newGrants' = [newGrants EXCEPT ![p] = @ \cup {c}]
    /\ shouldSave' = [shouldSave EXCEPT ![p] = @ \/ d = "always"]
    /\ approved' = approved \cup {c}
    /\ always' = IF d = "always" THEN always \cup {c} ELSE always
    /\ UNCHANGED <<file, level, trustAll, required, existing, saved, wasTorn,
                   disturbed>>

MutantSkipRefused(p, c, d) ==
    /\ Goto(p, "prompting", "prompting")
    /\ c \in NextPrompts(todo[p])
    /\ d \in Evaluate(level[p], c) \cap {"no", "error"}
    /\ todo' = [todo EXCEPT ![p] = @ \ {c}]
    /\ UNCHANGED <<file, level, trustAll, required, existing, newGrants,
                   shouldSave, history>>

\* One refusal or error ends the whole call with an error; nothing is saved.
RefuseOne(p, c, d) ==
    /\ Goto(p, "prompting", "failed")
    /\ c \in NextPrompts(todo[p])
    /\ d \in Evaluate(level[p], c) \cap {"no", "error"}
    /\ UNCHANGED <<file, locals, history>>

\* All evaluated and no answer was "always": return without saving.
ReturnSession(p) ==
    /\ Goto(p, "prompting", "done")
    /\ todo[p] = {}
    /\ ~shouldSave[p]
    /\ UNCHANGED <<file, locals, history>>

\* All evaluated and some answer was "always": Save opens the file for
\* writing with truncation.
SaveTruncate(p) ==
    /\ Goto(p, "prompting", "writing")
    /\ todo[p] = {}
    /\ shouldSave[p]
    /\ file' = Truncated
    /\ disturbed' = (disturbed \/ Others(p) # {})
    /\ UNCHANGED <<locals, approved, always, saved, wasTorn>>

\* Save fails before it touches the file.  The gatekeeper only warns.
SaveFails(p) ==
    /\ "io" \in Faults
    /\ Goto(p, "prompting", "done")
    /\ todo[p] = {}
    /\ shouldSave[p]
    /\ UNCHANGED <<file, locals, history>>

\* Save writes the whole grant set, session grants included.
SaveWrite(p) ==
    /\ Goto(p, "writing", "done")
    /\ file' \in AfterWrite(newGrants[p])
    /\ saved' = saved \cup newGrants[p]
    /\ wasTorn' = (wasTorn \/ file' = Torn)
    /\ UNCHANGED <<locals, approved, always, disturbed>>

\* The write fails part way: Save returns an error, which is only warned of.
SaveShortWrite(p) ==
    /\ "io" \in Faults
    /\ Goto(p, "writing", "done")
    /\ file' \in AfterShortWrite(newGrants[p])
    /\ wasTorn' = (wasTorn \/ file' = Torn)
    /\ disturbed' = TRUE
    /\ UNCHANGED <<locals, approved, always, saved>>

\* The process dies; a file it has truncated stays truncated.
Crash(p) ==
    /\ "crash" \in Faults
    /\ pc[p] \in {"loaded", "prompting", "writing"}
    /\ pc' = [pc EXCEPT ![p] = "idle"]
    /\ disturbed' = (disturbed \/ pc[p] = "writing")
    /\ UNCHANGED <<file, locals, approved, always, saved, wasTorn>>

\* The steps a call takes once it has started.
Step(p) ==
    \/ ReturnStored(p) \/ RefuseNonInteractive(p) \/ StartPrompts(p)
    \/ \E c \in todo[p], d \in {"auto", "yes", "always"} : GrantOne(p, c, d)
    \/ \E c \in todo[p], d \in {"no", "error"} : RefuseOne(p, c, d)
    \/ ReturnSession(p)
    \/ SaveTruncate(p) \/ SaveFails(p) \/ SaveWrite(p) \/ SaveShortWrite(p)

Next ==
    \E p \in Proc :
        \/ \E R \in SUBSET Cap, t \in BOOLEAN : ReturnUnchecked(p, R, t)
        \/ \E R \in SUBSET Cap : LoadGrants(p, R)
        \/ Step(p)
        \/ Crash(p)

Spec == Init /\ [][Next]_vars

-----------------------------------------------------------------------------
\* Every variable keeps its type; in particular what a call has still to ask
\* about was required of it and not among the grants it loaded.
TypeOK ==
    /\ file \in Files
    /\ level \in [Proc -> Levels]
    /\ pc \in [Proc -> {"idle", "loaded", "prompting", "writing", "done",
                        "failed"}]
    /\ trustAll \in [Proc -> BOOLEAN]
    /\ required \in [Proc -> SUBSET Cap]
    /\ existing \in [Proc -> SUBSET Cap]
    /\ todo \in [Proc -> SUBSET Cap]
    /\ \A p \in Proc : todo[p] \subseteq required[p] \ existing[p]
    /\ newGrants \in [Proc -> SUBSET Cap]
    /\ shouldSave \in [Proc -> BOOLEAN]
    /\ approved \subseteq Cap
    /\ always \subseteq Cap
    /\ saved \subseteq Cap
    /\ wasTorn \in BOOLEAN /\ disturbed \in BOOLEAN

\* However calls interleave or die, as long as no write was torn the store
\* holds no capability that no call granted by prompt or permissive policy.
StoreHoldsOnlyApproved == ~wasTorn => file.grants \subseteq approved

\* A call that returns without an error returns everything that was required
\* of it except key-value rules, for which there is no prompt.
ResultCoversPrompted ==
    \A p \in Proc :
        pc[p] = "done" => required[p] \cap Prompted \subseteq newGrants[p]

\* At the strict level a call adds no broad capability to what it loaded.
StrictAddsNoBroad ==
    \A p \in Proc :
        level[p] = "strict" /\ pc[p] \in {"prompting", "writing", "done"}
                            /\ ~trustAll[p]
        => newGrants[p] \cap Broad \subseteq existing[p]

\* "Always" is durable: what a Save that returned nil has written is in the
\* store whenever no process is between its truncation and its write.  Any
\* number of calls may come and go, fail or die, as long as none is under
\* way while another saves, every Load succeeds outside a save, and no save
\* is cut short.
SavedGrantsSurvive ==
    ~disturbed /\ (\A p \in Proc : pc[p] # "writing")
        => saved \subseteq file.grants

\* The store holds only what a prompt answered with "always".
StoreHoldsOnlyAlways == file.grants \subseteq always
=============================================================================
