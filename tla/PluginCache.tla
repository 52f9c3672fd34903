---------------------------- MODULE PluginCache ----------------------------
(***************************************************************************)
(* Loading a plugin: plugin/service.go over the resolver chain             *)
(* (plugin/resolvers: cache, then registry) and the file-system repository *)
(* (plugin/repository/fs_repository.go).                                   *)
(*                                                                         *)
(* The state is the directory of one plugin reference, which holds         *)
(* plugin.wasm, metadata.json and digest.txt; directories of different     *)
(* references share nothing.  Each system call on the three files is a     *)
(* step, so calls of several processes (or goroutines) interleave between  *)
(* them, and a process may die between them.  The registry is the          *)
(* environment: its tag may move to another artifact at any time.          *)
(*                                                                         *)
(* An artifact and its digest are both named by a member of Version.       *)
(***************************************************************************)
EXTENDS Naturals, FiniteSets

CONSTANTS
    Proc,           \* callers of LoadPlugin, Pull and Delete
    Version,        \* artifacts the tag may name
    None,           \* no such file; no digest expected
    Empty,          \* a file truncated and not yet written
    Torn,           \* a part of an artifact, or the overlay of two
    RequireSigning, \* requireSigning of the integrity service
    Faults          \* what may go wrong in a run: a process dies, the tag
                    \* moves, a write fails, a read of a good file fails

ASSUME SentinelAssumption ==
    /\ None \notin Version /\ Empty \notin Version /\ Torn \notin Version
    /\ None # Empty /\ None # Torn /\ Empty # Torn
    /\ None # "full" /\ Empty # "full"
ASSUME SigningAssumption == RequireSigning \in BOOLEAN
ASSUME FaultsAssumption == Faults \subseteq {"crash", "move", "write", "read"}

VARIABLES
    tag,        \* the artifact the registry's tag names
    wasm,       \* plugin.wasm
    meta,       \* metadata.json: None, Empty or "full"
    digest,     \* digest.txt
    pc,         \* where each process is
    op,         \* its operation: "load" or "pull"
    expected,   \* the digest its caller expects, or None
    again,      \* it is in the second Find of LoadPlugin
    plugin,     \* the digest of the plugin it has resolved or is storing
    bytes,      \* what plugin.wasm held when it returned
    overlapped, \* history: a process missed while another was filling
    cutShort,   \* history: a Store was broken off, by an error or a crash
    raced,      \* history: a Delete met another call, or was broken off
                \* and left a digest without the files beside it
    moved       \* history: the tag moved

files == <<wasm, meta, digest>>
history == <<overlapped, cutShort, raced, moved>>
vars == <<tag, wasm, meta, digest, pc, op, expected, again, plugin, bytes,
          overlapped, cutShort, raced, moved>>

\* The steps between a cache miss and the end of Store.
Storing == {"create", "copy", "createMeta", "encodeMeta", "truncateDigest",
            "writeDigest"}
Filling == {"pull"} \cup Storing
Finding == {"stat", "loadMeta", "loadDigest"}
AtRest == {"idle", "done", "failed"}

Init ==
    /\ tag \in Version
    /\ wasm = None /\ meta = None /\ digest = None
    /\ pc = [p \in Proc |-> "idle"]
    /\ op = [p \in Proc |-> "pull"]
    /\ expected = [p \in Proc |-> None]
    /\ again = [p \in Proc |-> FALSE]
    /\ plugin = [p \in Proc |-> None]
    /\ bytes = [p \in Proc |-> None]
    /\ overlapped = FALSE /\ cutShort = FALSE
    /\ raced = FALSE /\ moved = FALSE

Goto(p, here, there) == pc[p] = here /\ pc' = [pc EXCEPT ![p] = there]

\* A call that ends without a result leaves nothing behind in memory.
End(p, there) ==
    /\ pc' = [pc EXCEPT ![p] = there]
    /\ op' = [op EXCEPT ![p] = "pull"]
    /\ expected' = [expected EXCEPT ![p] = None]
    /\ again' = [again EXCEPT ![p] = FALSE]
    /\ plugin' = [plugin EXCEPT ![p] = None]
    /\ bytes' = [bytes EXCEPT ![p] = None]

\* LoadPlugin and Pull both start by resolving: the cache is asked first.
Begin(p, o, d) ==
    /\ pc[p] \in AtRest
    /\ o = "pull" => d = None
    /\ pc' = [pc EXCEPT ![p] = "stat"]
    /\ op' = [op EXCEPT ![p] = o]
    /\ expected' = [expected EXCEPT ![p] = d]
    /\ again' = [again EXCEPT ![p] = FALSE]
    /\ plugin' = [plugin EXCEPT ![p] = None]
    /\ bytes' = [bytes EXCEPT ![p] = None]
    /\ raced' = (raced \/ \E q \in Proc : pc[q] = "delete")
    /\ UNCHANGED <<tag, files, overlapped, cutShort, moved>>

-----------------------------------------------------------------------------
(* FSPluginRepository.Find.                                                *)

\* What each of its three calls finds wrong.
Unreadable(p) ==
    \/ pc[p] = "stat" /\ wasm = None
    \/ pc[p] = "loadMeta" /\ meta # "full"
    \/ pc[p] = "loadDigest" /\ digest \notin Version

MutantFindMisses(p) ==
    /\ pc[p] \in Finding
    /\ ~again[p]
    /\ pc' = [pc EXCEPT ![p] = "pull"]
    /\ overlapped' =
          (overlapped \/ \E q \in Proc : q # p /\ pc[q] \in Filling)
    /\ UNCHANGED <<tag, files, op, expected, again, plugin, bytes, cutShort,
                   raced, moved>>

\* The first Find fails: the registry resolver takes over.
FindMisses(p) ==
    /\ pc[p] \in Finding
    /\ ~again[p]
    /\ Unreadable(p) \/ "read" \in Faults
    /\ pc' = [pc EXCEPT ![p] = "pull"]
    /\ overlapped' =
          (overlapped \/ \E q \in Proc : q # p /\ pc[q] \in Filling)
    /\ UNCHANGED <<tag, files, op, expected, again, plugin, bytes, cutShort,
                   raced, moved>>

\* The second Find fails: LoadPlugin returns an error.
FindFails(p) ==
    /\ pc[p] \in Finding
    /\ again[p]
    /\ Unreadable(p) \/ "read" \in Faults
    /\ End(p, "failed")
    /\ UNCHANGED <<tag, files, history>>

FindStat(p) ==
    /\ Goto(p, "stat", "loadMeta")
    /\ ~Unreadable(p)
    /\ UNCHANGED <<tag, files, op, expected, again, plugin, bytes, history>>

FindMeta(p) ==
    /\ Goto(p, "loadMeta", "loadDigest")
    /\ ~Unreadable(p)
    /\ UNCHANGED <<tag, files, op, expected, again, plugin, bytes, history>>

\* The first Find gives the plugin.
FindDigest(p) ==
    /\ Goto(p, "loadDigest", "verify")
    /\ ~again[p]
    /\ ~Unreadable(p)
    /\ plugin' = [plugin EXCEPT ![p] = digest]
    /\ UNCHANGED <<tag, files, op, expected, again, bytes, history>>

\* Of the second only the path is used; its digest is not looked at.
FindPath(p) ==
    /\ Goto(p, "loadDigest", "done")
    /\ again[p]
    /\ ~Unreadable(p)
    /\ bytes' = [bytes EXCEPT ![p] = wasm]
    /\ UNCHANGED <<tag, files, op, expected, again, plugin, history>>

-----------------------------------------------------------------------------
(* RegistryPluginResolver.Resolve: Pull, then FSPluginRepository.Store.    *)

\* The tag is read once; layers are fetched by digest.
RegistryPull(p) ==
    /\ Goto(p, "pull", "create")
    /\ plugin' = [plugin EXCEPT ![p] = tag]
    /\ UNCHANGED <<tag, files, op, expected, again, bytes, history>>

\* A digest that has lost one of the files beside it.
HalfDeleted == digest \in Version /\ (wasm = None \/ meta = None)

\* Store or Delete breaks off where p is: io.Copy may have written a part of the
\* binary; a part of the metadata is as unreadable as none, and the one line
\* of the digest is written whole or not at all.
BreakOff(p) ==
    /\ wasm' \in {wasm} \cup (IF pc[p] = "copy" THEN {Torn} ELSE {})
    /\ cutShort' = (cutShort \/ pc[p] \in Storing)
    /\ raced' = (raced \/ (pc[p] = "delete" /\ HalfDeleted))
    /\ UNCHANGED <<meta, digest>>

\* The pull fails, or a step of Store or Delete does; what was done stays.
FillFails(p) ==
    /\ \/ pc[p] = "pull"
       \/ pc[p] \in Filling \cup {"delete"} /\ "write" \in Faults
    /\ End(p, "failed")
    /\ BreakOff(p)
    /\ UNCHANGED <<tag, overlapped, moved>>

\* os.Create of plugin.wasm truncates what was there.
StoreCreate(p) ==
    /\ Goto(p, "create", "copy")
    /\ wasm' = Empty
    /\ UNCHANGED <<tag, meta, digest, op, expected, again, plugin, bytes,
                   history>>

MutantStoreAppend(p) ==
    /\ Goto(p, "copy", "createMeta")
    /\ wasm' = IF wasm = Empty THEN plugin[p] ELSE Torn
    /\ UNCHANGED <<tag, meta, digest, op, expected, again, plugin, bytes,
                   history>>

\* io.Copy writes from offset 0: over another process's artifact it leaves
\* its own, or its own with the tail of a longer one.
StoreCopy(p) ==
    /\ Goto(p, "copy", "createMeta")
    /\ wasm' \in {plugin[p]} \cup
                 (IF wasm \in {Empty, plugin[p]} THEN {} ELSE {Torn})
    /\ UNCHANGED <<tag, meta, digest, op, expected, again, plugin, bytes,
                   history>>

StoreCreateMeta(p) ==
    /\ Goto(p, "createMeta", "encodeMeta")
    /\ meta' = Empty
    /\ UNCHANGED <<tag, wasm, digest, op, expected, again, plugin, bytes,
                   history>>

\* The decoder reads one JSON value, so any encoded prefix will do.
StoreEncodeMeta(p) ==
    /\ Goto(p, "encodeMeta", "truncateDigest")
    /\ meta' = "full"
    /\ UNCHANGED <<tag, wasm, digest, op, expected, again, plugin, bytes,
                   history>>

\* os.WriteFile of digest.txt.
StoreTruncateDigest(p) ==
    /\ Goto(p, "truncateDigest", "writeDigest")
    /\ digest' = Empty
    /\ UNCHANGED <<tag, wasm, meta, op, expected, again, plugin, bytes,
                   history>>

MutantDigestOfFile(p) ==
    /\ Goto(p, "writeDigest", "verify")
    /\ digest' = wasm
    /\ UNCHANGED <<tag, wasm, meta, op, expected, again, plugin, bytes,
                   history>>

StoreWriteDigest(p) ==
    /\ Goto(p, "writeDigest", "verify")
    /\ digest' = plugin[p]
    /\ UNCHANGED <<tag, wasm, meta, op, expected, again, plugin, bytes,
                   history>>

-----------------------------------------------------------------------------
(* PluginService, after the plugin is resolved.                            *)

MutantNoDigestCheck(p) == TRUE

\* VerifyDigest, done only when the caller gave a digest.
DigestMatches(p) == expected[p] = None \/ expected[p] = plugin[p]

\* The recorded digest is not the expected one, or the signature is bad.
VerifyFails(p) ==
    /\ pc[p] = "verify"
    /\ ~DigestMatches(p) \/ RequireSigning
    /\ End(p, "failed")
    /\ UNCHANGED <<tag, files, history>>

\* Pull is done; LoadPlugin goes back to the repository for the path.
Verified(p) ==
    /\ pc[p] = "verify"
    /\ DigestMatches(p)
    /\ pc' = [pc EXCEPT ![p] = IF op[p] = "load" THEN "stat" ELSE "done"]
    /\ again' = [again EXCEPT ![p] = op[p] = "load"]
    /\ UNCHANGED <<tag, files, op, expected, plugin, bytes, history>>

-----------------------------------------------------------------------------
(* FSPluginRepository.Delete: os.RemoveAll lists the directory and removes *)
(* its files one by one, in the order of the directory.                    *)

DeleteBegin(p) ==
    /\ pc[p] \in AtRest
    /\ End(p, "delete")
    /\ raced' = (raced \/ \E q \in Proc \ {p} : pc[q] \notin AtRest)
    /\ UNCHANGED <<tag, files, overlapped, cutShort, moved>>

DeleteFile(p) ==
    /\ pc[p] = "delete"
    /\ \/ wasm # None /\ wasm' = None /\ UNCHANGED <<meta, digest>>
       \/ meta # None /\ meta' = None /\ UNCHANGED <<wasm, digest>>
       \/ digest # None /\ digest' = None /\ UNCHANGED <<wasm, meta>>
    /\ UNCHANGED <<tag, pc, op, expected, again, plugin, bytes, history>>

MutantDeleteEnd(p) ==
    /\ pc[p] = "delete"
    /\ wasm = None /\ meta = None
    /\ End(p, "done")
    /\ UNCHANGED <<tag, files, history>>

\* The directory is empty and goes.  One that another call has filled again
\* cannot be removed: then Delete removes that too, or fails (FillFails).
DeleteEnd(p) ==
    /\ pc[p] = "delete"
    /\ wasm = None /\ meta = None /\ digest = None
    /\ End(p, "done")
    /\ UNCHANGED <<tag, files, history>>

\* The process dies; its files stay as they are.
Crash(p) ==
    /\ "crash" \in Faults
    /\ pc[p] \notin AtRest
    /\ End(p, "idle")
    /\ BreakOff(p)
    /\ UNCHANGED <<tag, overlapped, moved>>

MoveTag(v) ==
    /\ "move" \in Faults
    /\ v # tag
    /\ tag' = v
    /\ moved' = TRUE
    /\ UNCHANGED <<files, pc, op, expected, again, plugin, bytes,
                   overlapped, cutShort, raced>>

Step(p) ==
    \/ FindStat(p) \/ FindMeta(p) \/ FindDigest(p) \/ FindPath(p)
    \/ FindMisses(p) \/ FindFails(p)
    \/ RegistryPull(p) \/ FillFails(p) \/ StoreCreate(p) \/ StoreCopy(p)
    \/ StoreCreateMeta(p) \/ StoreEncodeMeta(p)
    \/ StoreTruncateDigest(p) \/ StoreWriteDigest(p)
    \/ VerifyFails(p) \/ Verified(p)
    \/ DeleteFile(p) \/ DeleteEnd(p)

Next ==
    \/ \E p \in Proc :
          \/ \E o \in {"load", "pull"}, d \in Version \cup {None} :
                Begin(p, o, d)
          \/ DeleteBegin(p)
          \/ Step(p)
          \/ Crash(p)
    \/ \E v \in Version : MoveTag(v)

Spec == Init /\ [][Next]_vars

-----------------------------------------------------------------------------
\* Every variable keeps its type; in particular the digest file is absent,
\* empty or whole, while the binary may also be torn.
TypeOK ==
    /\ tag \in Version
    /\ wasm \in Version \cup {None, Empty, Torn}
    /\ meta \in {None, Empty, "full"}
    /\ digest \in Version \cup {None, Empty}
    /\ pc \in [Proc -> AtRest \cup Finding \cup Filling \cup {"verify", "delete"}]
    /\ op \in [Proc -> {"load", "pull"}]
    /\ expected \in [Proc -> Version \cup {None}]
    /\ again \in [Proc -> BOOLEAN]
    /\ plugin \in [Proc -> Version \cup {None}]
    /\ bytes \in [Proc -> Version \cup {None, Empty, Torn}]
    /\ overlapped \in BOOLEAN /\ cutShort \in BOOLEAN
    /\ raced \in BOOLEAN /\ moved \in BOOLEAN

\* The entry was not put at risk by its callers: no two fills overlapped, no
\* Delete met another call or left a digest alone.
Undisturbed == ~overlapped /\ ~raced
Deleting == \E p \in Proc : pc[p] = "delete"

\* As long as no two fills have overlapped and no Delete was raced, the
\* digest that Find reports is the digest of the binary beside it, whatever
\* was cut short, moved or deleted and filled again.
DigestVouchesForWasm ==
    Undisturbed /\ ~Deleting /\ digest \in Version
        => wasm = digest /\ meta = "full"

\* ... and a LoadPlugin that was given a digest returns that very artifact.
LockedLoadIsExact ==
    \A p \in Proc :
        Undisturbed /\ pc[p] = "done" /\ op[p] = "load"
                    /\ expected[p] \in Version
        => bytes[p] = expected[p]

\* Even after overlapping fills the cache comes to rest in a sound state,
\* provided that the tag never moved, no Store was cut short and no Delete
\* was raced.
OverlapHealsWhenTagIsFixed ==
    /\ ~cutShort /\ ~moved /\ ~raced /\ digest \in Version
    /\ \A p \in Proc : pc[p] \notin Filling \cup {"delete"}
    => wasm = digest

\* The entry as Find sees it: a slot that is filled while it is empty and keeps
\* its artifact until a Delete is under way, so that no load or pull, and no
\* tag that has moved, stores over a good entry.
Slot == INSTANCE WriteOnceSlot WITH
            Value <- Version,
            slot <- IF digest \in Version /\ meta = "full" /\ wasm # None
                    THEN wasm ELSE Empty,
            clearing <- Deleting,
            void <- ~Undisturbed
FilledOnce == Slot!Spec

\* A LoadPlugin that was given a digest returns that very artifact, whatever
\* other loads do (Deletes aside).
LockedLoadAlwaysExact ==
    \A p \in Proc :
        ~raced /\ pc[p] = "done" /\ op[p] = "load" /\ expected[p] \in Version
        => bytes[p] = expected[p]
=============================================================================
