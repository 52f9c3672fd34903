------------------------------ MODULE Lockfile ------------------------------
(***************************************************************************)
(* The plugin lockfile: plugin/lockfile_service.go over the entity         *)
(* plugin/entities/lockfile.go and its YAML file, plugin/filesystem.       *)
(*                                                                         *)
(* Callers (processes, or goroutines of one) share nothing but the file.   *)
(* Each call loads it, changes its copy in memory and saves the whole copy *)
(* by truncating and rewriting the file.                                   *)
(***************************************************************************)
EXTENDS Naturals, Sequences, FiniteSets

CONSTANTS
    Proc,       \* callers of the lockfile service
    Name,       \* plugin names
    Constraint, \* version constraints, "latest" for none among them
    URL,        \* profile URLs
    NoLock,     \* no entry for a plugin
    BadDecl,    \* a declaration ParsePluginDeclaration rejects
    MaxDecls,   \* bound: declarations in one ResolvePlugins
    Faults      \* what may go wrong in a run: "crash", "write"

ASSUME SentinelAssumption ==
    /\ NoLock \notin [requested : Constraint, digest : {"placeholder", "pinned"}]
    /\ BadDecl \notin [name : Name, constraint : Constraint]
ASSUME BoundAssumption == MaxDecls \in Nat
ASSUME FaultsAssumption == Faults \subseteq {"crash", "write"}

\* A PluginLock: "pinned" is a digest that did not come from ResolvePlugins.
Locks == [requested : Constraint, digest : {"placeholder", "pinned"}]
Plugins == [Name -> Locks \cup {NoLock}]
Decls == [name : Name, constraint : Constraint] \cup {BadDecl}
DeclLists == UNION {[1..n -> Decls] : n \in 0..MaxDecls}

VARIABLES
    file,       \* the lockfile
    pc,         \* where each call is
    decls,      \* the declarations of a ResolvePlugins
    at,         \* the next of them to resolve
    loaded,     \* the plugins Load gave the call
    plugins,    \* lock.Plugins, as the call has changed it
    profiles,   \* lock.Profiles
    updated,    \* some declaration was not satisfied
    asked,      \* the URLs a GetLockedProfile was asked for
    pinned,     \* history: profiles a LockProfile that returned nil locked
    lastSaved,  \* history: the plugins of the last Save that returned nil
    overlapped, \* history: a call loaded while another was under way
    cutShort    \* history: a Save was broken off after its truncation

locals == <<decls, at, loaded, plugins, profiles, updated, asked>>
history == <<pinned, lastSaved, overlapped, cutShort>>
vars == <<file, pc, decls, at, loaded, plugins, profiles, updated, asked,
          pinned, lastSaved, overlapped, cutShort>>

-----------------------------------------------------------------------------
(* The file.  "invalid" is a file that decodes but does not validate: an   *)
(* entry without a digest, or no generated timestamp.  A torn file was cut *)
(* off, or ends in the tail of a longer one: it fails to decode, or loads  *)
(* as what nobody wrote.                                                   *)

NoPlugins == [n \in Name |-> NoLock]
Missing == [state |-> "missing", plugins |-> NoPlugins]
Invalid == [state |-> "invalid", plugins |-> NoPlugins]
Empty == [state |-> "empty", plugins |-> NoPlugins]
Torn == [state |-> "torn", plugins |-> NoPlugins]
Holding(P) == [state |-> "ok", plugins |-> P]
Files == [state : {"missing", "invalid", "empty", "torn", "ok"},
          plugins : Plugins]

\* Load: a missing file is a new lockfile.
Load == IF file.state \in {"missing", "ok"} THEN {file.plugins}
        ELSE IF file.state = "torn" THEN Plugins ELSE {}

\* Load fails on a file that does not validate or decode, an empty one too.
Unloadable == file.state \in {"invalid", "empty", "torn"}

MutantFromEntity(P, profs) == Holding(NoPlugins)

\* FromEntity: the YAML structure has no place for profiles.
FromEntity(P, profs) == Holding(P)

\* What a write leaves, over whatever another writer has put there.
AfterWrite(f) ==
    {f} \cup (IF file = Empty THEN {} ELSE {Torn})

-----------------------------------------------------------------------------
Init ==
    /\ file \in {Missing, Invalid} \cup {Holding(P) : P \in Plugins}
    /\ pc = [p \in Proc |-> "idle"]
    /\ decls = [p \in Proc |-> <<>>]
    /\ at = [p \in Proc |-> 1]
    /\ loaded = [p \in Proc |-> NoPlugins]
    /\ plugins = [p \in Proc |-> NoPlugins]
    /\ profiles = [p \in Proc |-> {}]
    /\ updated = [p \in Proc |-> FALSE]
    /\ asked = [p \in Proc |-> {}]
    /\ pinned = {}
    /\ lastSaved = file.plugins
    /\ overlapped = FALSE
    /\ cutShort = FALSE

Goto(p, here, there) == pc[p] = here /\ pc' = [pc EXCEPT ![p] = there]

UnderWay == {"resolving", "saving", "writing"}

\* A call goes there and drops its copy of the lockfile.
Leave(p, there) ==
    /\ pc' = [pc EXCEPT ![p] = there]
    /\ decls' = [decls EXCEPT ![p] = <<>>]
    /\ at' = [at EXCEPT ![p] = 1]
    /\ loaded' = [loaded EXCEPT ![p] = NoPlugins]
    /\ plugins' = [plugins EXCEPT ![p] = NoPlugins]
    /\ profiles' = [profiles EXCEPT ![p] = {}]
    /\ updated' = [updated EXCEPT ![p] = FALSE]
    /\ asked' = [asked EXCEPT ![p] = {}]

\* Every call starts with Load; what it loads has no profiles.
Begin(p, there, D, profs, urls) ==
    /\ Goto(p, "idle", there)
    /\ decls' = [decls EXCEPT ![p] = D]
    /\ \E P \in Load :
          /\ loaded' = [loaded EXCEPT ![p] = P]
          /\ plugins' = [plugins EXCEPT ![p] = P]
    /\ profiles' = [profiles EXCEPT ![p] = profs]
    /\ asked' = [asked EXCEPT ![p] = urls]
    /\ overlapped' = (overlapped \/ \E q \in Proc : pc[q] \in UnderWay)
    /\ UNCHANGED <<file, at, updated, pinned, lastSaved, cutShort>>

ResolvePlugins(p, D) == Begin(p, "resolving", D, {}, {})

\* The copy with the new profile is to be saved.
LockProfile(p, u) == Begin(p, "saving", <<>>, {u}, {})

\* AddProfile rejects an empty digest.
LockProfileRejected(p) == Begin(p, "failed", <<>>, {}, {})

\* What it returns is what the loaded lockfile has for the URL.
GetLockedProfile(p, u) == Begin(p, "done", <<>>, {}, {u})

\* The file does not decode or does not validate: every call fails.
LoadFails(p) ==
    /\ Goto(p, "idle", "failed")
    /\ Unloadable
    /\ UNCHANGED <<file, locals, history>>

\* The caller has its result.
Return(p) ==
    /\ pc[p] \in {"done", "failed"}
    /\ Leave(p, "idle")
    /\ UNCHANGED <<file, history>>

-----------------------------------------------------------------------------
(* The loop of ResolvePlugins.                                             *)

Current(p) == decls[p][at[p]]
Satisfied(P, d) == P[d.name] # NoLock /\ P[d.name].requested = d.constraint

ParseFails(p) ==
    /\ pc[p] = "resolving"
    /\ at[p] <= Len(decls[p])
    /\ Current(p) = BadDecl
    /\ Leave(p, "failed")
    /\ UNCHANGED <<file, history>>

MutantAddUndigested(P, d) ==
    [P EXCEPT ![d.name] = [requested |-> d.constraint, digest |-> ""]]

\* AddPlugin with what ResolvePlugins has for the declaration: the constraint
\* stands for the resolved version, and the digest is a placeholder.
AddPlugin(P, d) ==
    [P EXCEPT ![d.name] = [requested |-> d.constraint,
                           digest |-> "placeholder"]]

MutantResolveOne(p) ==
    /\ Goto(p, "resolving", "resolving")
    /\ at[p] <= Len(decls[p])
    /\ Current(p) # BadDecl
    /\ plugins' = [plugins EXCEPT ![p] = AddPlugin(@, Current(p))]
    /\ updated' = [updated EXCEPT ![p] = TRUE]
    /\ at' = [at EXCEPT ![p] = @ + 1]
    /\ UNCHANGED <<file, decls, loaded, profiles, asked, history>>

MutantSkipLocked(p) ==
    /\ Goto(p, "resolving", "resolving")
    /\ at[p] <= Len(decls[p])
    /\ Current(p) # BadDecl
    /\ LET locked == plugins[p][Current(p).name] # NoLock
       IN  /\ updated' = [updated EXCEPT ![p] = @ \/ ~locked]
           /\ plugins' = [plugins EXCEPT ![p] =
                             IF locked THEN @ ELSE AddPlugin(@, Current(p))]
    /\ at' = [at EXCEPT ![p] = @ + 1]
    /\ UNCHANGED <<file, decls, loaded, profiles, asked, history>>

\* A satisfied declaration is skipped; any other gets a new entry.
ResolveOne(p) ==
    /\ Goto(p, "resolving", "resolving")
    /\ at[p] <= Len(decls[p])
    /\ Current(p) # BadDecl
    /\ IF Satisfied(plugins[p], Current(p))
       THEN UNCHANGED <<plugins, updated>>
       ELSE /\ plugins' = [plugins EXCEPT ![p] = AddPlugin(@, Current(p))]
            /\ updated' = [updated EXCEPT ![p] = TRUE]
    /\ at' = [at EXCEPT ![p] = @ + 1]
    /\ UNCHANGED <<file, decls, loaded, profiles, asked, history>>

\* The loop is over: save if something changed.
ResolveEnds(p) ==
    /\ pc[p] = "resolving"
    /\ at[p] > Len(decls[p])
    /\ pc' = [pc EXCEPT ![p] = IF updated[p] THEN "saving" ELSE "done"]
    /\ UNCHANGED <<file, locals, history>>

-----------------------------------------------------------------------------
(* FileLockfileRepository.Save.                                            *)

SaveTruncate(p) ==
    /\ Goto(p, "saving", "writing")
    /\ file' = Empty
    /\ UNCHANGED <<locals, history>>

\* The directory or the file cannot be opened.
SaveFails(p) ==
    /\ "write" \in Faults
    /\ pc[p] = "saving"
    /\ Leave(p, "failed")
    /\ UNCHANGED <<file, history>>

SaveWrite(p) ==
    /\ Goto(p, "writing", "done")
    /\ file' \in AfterWrite(FromEntity(plugins[p], profiles[p]))
    /\ pinned' = pinned \cup profiles[p]
    /\ lastSaved' = plugins[p]
    /\ UNCHANGED <<locals, overlapped, cutShort>>

\* The encoder fails part way.
SaveCut(p) ==
    /\ "write" \in Faults
    /\ pc[p] = "writing"
    /\ Leave(p, "failed")
    /\ file' \in {Empty, Torn}
    /\ cutShort' = TRUE
    /\ UNCHANGED <<pinned, lastSaved, overlapped>>

\* The process dies; a file it has truncated stays empty.
Crash(p) ==
    /\ "crash" \in Faults
    /\ pc[p] \in UnderWay
    /\ Leave(p, "idle")
    /\ cutShort' = (cutShort \/ pc[p] = "writing")
    /\ UNCHANGED <<file, pinned, lastSaved, overlapped>>

Step(p) ==
    \/ ParseFails(p) \/ ResolveOne(p) \/ ResolveEnds(p)
    \/ SaveTruncate(p) \/ SaveFails(p) \/ SaveWrite(p) \/ SaveCut(p)

Next ==
    \E p \in Proc :
        \/ \E D \in DeclLists : ResolvePlugins(p, D)
        \/ \E u \in URL : LockProfile(p, u) \/ GetLockedProfile(p, u)
        \/ LockProfileRejected(p)
        \/ LoadFails(p)
        \/ Return(p)
        \/ Step(p)
        \/ Crash(p)

Spec == Init /\ [][Next]_vars

-----------------------------------------------------------------------------
\* Every variable keeps its type; in particular what a call loads, and what
\* the file says, are entries the validation accepts or nothing.
TypeOK ==
    /\ file \in Files
    /\ pc \in [Proc -> UnderWay \cup {"idle", "done", "failed"}]
    /\ decls \in [Proc -> DeclLists]
    /\ at \in [Proc -> 1..(MaxDecls + 1)]
    /\ loaded \in [Proc -> Plugins]
    /\ plugins \in [Proc -> Plugins]
    /\ profiles \in [Proc -> SUBSET URL]
    /\ updated \in [Proc -> BOOLEAN]
    /\ asked \in [Proc -> SUBSET URL]
    /\ pinned \subseteq URL
    /\ lastSaved \in Plugins
    /\ overlapped \in BOOLEAN
    /\ cutShort \in BOOLEAN

Declared(p, n) ==
    {decls[p][i] : i \in {j \in DOMAIN decls[p] : decls[p][j] # BadDecl
                                               /\ decls[p][j].name = n}}

\* Reproducibility: a call writes back, unchanged, the entry of every plugin
\* that it was not asked for, or only under the constraint already locked;
\* in particular it keeps that entry's digest.
SatisfiedLocksAreKept ==
    \A p \in Proc, n \in Name :
        /\ pc[p] \in {"saving", "writing"}
        /\ \A d \in Declared(p, n) : Satisfied(loaded[p], d)
        => plugins[p][n] = loaded[p][n]

\* A ResolvePlugins that returns has locked the last constraint declared
\* for each plugin.
DeclaredIsLocked ==
    \A p \in Proc : pc[p] = "done" =>
        \A i \in DOMAIN decls[p] :
            (\A j \in DOMAIN decls[p] :
                j > i => decls[p][j].name # decls[p][i].name)
            => Satisfied(plugins[p], decls[p][i])

\* As long as calls have not overlapped and no Save was cut short, the file
\* holds the plugins of the last Save, and no Save has spoilt it.
SaveIsReadBack ==
    /\ ~overlapped /\ ~cutShort
    /\ \A p \in Proc : pc[p] # "writing"
    => file.state \notin {"empty", "torn"} /\ file.plugins = lastSaved

\* GetLockedProfile finds every profile that LockProfile has locked.
LockedProfileIsFound ==
    \A p \in Proc :
        ~overlapped /\ ~cutShort /\ pc[p] = "done"
        => asked[p] \cap pinned \subseteq profiles[p]
=============================================================================
