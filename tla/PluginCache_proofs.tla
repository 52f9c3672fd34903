------------------------ MODULE PluginCache_proofs ------------------------
(***************************************************************************)
(* Proofs about PluginCache, for any number of processes and artifacts.    *)
(***************************************************************************)
EXTENDS PluginCache, TLAPS

USE SentinelAssumption, SigningAssumption, FaultsAssumption

-----------------------------------------------------------------------------
(* Types.  A process that is storing has an artifact to store.             *)

HasArtifact == \A p \in Proc : pc[p] \in Storing => plugin[p] \in Version

TypeInv == TypeOK /\ HasArtifact

LEMMA TypeInit == Init => TypeInv
<1> SUFFICES ASSUME Init PROVE TypeInv
  OBVIOUS
<1>1. HasArtifact
  BY DEF Init, HasArtifact, Storing
<1>2. pc \in [Proc -> AtRest]
  BY DEF Init, AtRest
<1>3. pc \in [Proc -> AtRest \cup Finding \cup Filling \cup {"verify", "delete"}]
  BY <1>2
<1>4. again \in [Proc -> BOOLEAN]
  BY DEF Init
<1>5. /\ overlapped \in BOOLEAN /\ cutShort \in BOOLEAN
      /\ raced \in BOOLEAN /\ moved \in BOOLEAN
  BY DEF Init
<1> QED BY <1>1, <1>3, <1>4, <1>5 DEF Init, TypeInv, TypeOK

LEMMA TypeStep == TypeInv /\ [Next]_vars => TypeInv'
<1> SUFFICES ASSUME TypeInv, [Next]_vars
             PROVE  TypeInv'
  OBVIOUS
<1> USE DEF TypeInv, TypeOK, HasArtifact, AtRest, Storing, Filling,
            Finding, files, history
<1>1. ASSUME NEW p \in Proc, NEW o \in {"load", "pull"},
             NEW d \in Version \cup {None}, Begin(p, o, d)
      PROVE  TypeInv'
  BY <1>1 DEF Begin
<1>2. ASSUME NEW p \in Proc, FindStat(p)
      PROVE  TypeInv'
  BY <1>2 DEF FindStat, Goto
<1>3. ASSUME NEW p \in Proc, FindMeta(p)
      PROVE  TypeInv'
  BY <1>3 DEF FindMeta, Goto
<1>4. ASSUME NEW p \in Proc, FindDigest(p)
      PROVE  TypeInv'
  BY <1>4 DEF FindDigest, Goto, Unreadable
<1>5. ASSUME NEW p \in Proc, FindPath(p)
      PROVE  TypeInv'
  BY <1>5 DEF FindPath, Goto, Unreadable
<1>6. ASSUME NEW p \in Proc, FindMisses(p)
      PROVE  TypeInv'
  BY <1>6 DEF FindMisses, Unreadable
<1>7. ASSUME NEW p \in Proc, FindFails(p)
      PROVE  TypeInv'
  BY <1>7 DEF FindFails, End
<1>8. ASSUME NEW p \in Proc, RegistryPull(p)
      PROVE  TypeInv'
  BY <1>8 DEF RegistryPull, Goto
<1>9. ASSUME NEW p \in Proc, FillFails(p)
      PROVE  TypeInv'
  BY <1>9 DEF FillFails, End, BreakOff
<1>10. ASSUME NEW p \in Proc, StoreCreate(p)
       PROVE  TypeInv'
  BY <1>10 DEF StoreCreate, Goto
<1>11. ASSUME NEW p \in Proc, StoreCopy(p)
       PROVE  TypeInv'
  BY <1>11 DEF StoreCopy, Goto
<1>12. ASSUME NEW p \in Proc, StoreCreateMeta(p)
       PROVE  TypeInv'
  BY <1>12 DEF StoreCreateMeta, Goto
<1>13. ASSUME NEW p \in Proc, StoreEncodeMeta(p)
       PROVE  TypeInv'
  BY <1>13 DEF StoreEncodeMeta, Goto
<1>14. ASSUME NEW p \in Proc, StoreTruncateDigest(p)
       PROVE  TypeInv'
  BY <1>14 DEF StoreTruncateDigest, Goto
<1>15. ASSUME NEW p \in Proc, StoreWriteDigest(p)
       PROVE  TypeInv'
  BY <1>15 DEF StoreWriteDigest, Goto
<1>16. ASSUME NEW p \in Proc, VerifyFails(p)
       PROVE  TypeInv'
  BY <1>16 DEF VerifyFails, End
<1>17. ASSUME NEW p \in Proc, Verified(p)
       PROVE  TypeInv'
  BY <1>17 DEF Verified, DigestMatches
<1>18. ASSUME NEW p \in Proc, Crash(p)
       PROVE  TypeInv'
  BY <1>18 DEF Crash, End, BreakOff
<1>19. ASSUME NEW v \in Version, MoveTag(v)
       PROVE  TypeInv'
  BY <1>19 DEF MoveTag
<1>20. ASSUME NEW p \in Proc, DeleteBegin(p)
       PROVE  TypeInv'
  BY <1>20 DEF DeleteBegin, End
<1>21. ASSUME NEW p \in Proc, DeleteFile(p)
       PROVE  TypeInv'
  BY <1>21 DEF DeleteFile
<1>22. ASSUME NEW p \in Proc, DeleteEnd(p)
       PROVE  TypeInv'
  BY <1>22 DEF DeleteEnd, End
<1>23. CASE UNCHANGED vars
  BY <1>23 DEF vars
<1> HIDE DEF TypeOK, TypeInv
<1> QED BY <1>1, <1>2, <1>3, <1>4, <1>5, <1>6, <1>7, <1>8, <1>9, <1>10,
     <1>11, <1>12, <1>13, <1>14, <1>15, <1>16, <1>17, <1>18, <1>19, <1>20,
     <1>21, <1>22, <1>23 DEF Next, Step

\* The three files of a cached plugin stay in the states the model knows:
\* digest.txt, in particular, is never the digest of a torn binary.
THEOREM TypeCorrect == Spec => []TypeOK
<1>1. TypeInv => TypeOK
  BY DEF TypeInv
<1> QED BY TypeInit, TypeStep, <1>1, PTL DEF Spec

-----------------------------------------------------------------------------
(* While no two fills have overlapped, the one process that fills the      *)
(* cache has the three files to itself, and whoever has found a digest     *)
(* keeps it.                                                               *)

OneFiller ==
    \A p, q \in Proc : pc[p] \in Filling /\ pc[q] \in Filling => p = q

FillerFoundNothing ==
    \A p \in Proc : pc[p] \in Filling => digest \notin Version

Progress ==
    \A p \in Proc :
        /\ pc[p] = "copy" => wasm = Empty
        /\ pc[p] \in Storing \ {"create", "copy"} => wasm = plugin[p]
        /\ pc[p] \in {"truncateDigest", "writeDigest"} => meta = "full"

\* A Delete has the entry for itself.
DeleterAlone ==
    \A p, q \in Proc : pc[p] = "delete" /\ p # q => pc[q] \in AtRest

\* The digest in digest.txt is the digest of plugin.wasm, unless a Delete has
\* already removed one of the files.
Vouched ==
    digest \in Version =>
        /\ wasm = digest \/ (Deleting /\ wasm = None)
        /\ meta = "full" \/ (Deleting /\ meta = None)

\* A plugin that has been resolved is the one in the cache.
Resolved ==
    \A p \in Proc :
        pc[p] = "verify" \/ (pc[p] \in Finding /\ again[p])
        => digest \in Version /\ plugin[p] = digest

\* Past the check of LoadPlugin, the resolved digest is the expected one.
Checked ==
    \A p \in Proc :
        pc[p] \in Finding /\ again[p] /\ expected[p] \in Version
        => plugin[p] = expected[p]

Delivered ==
    \A p \in Proc :
        pc[p] = "done" /\ op[p] = "load" /\ expected[p] \in Version
        => bytes[p] = expected[p]

Sound == OneFiller /\ FillerFoundNothing /\ Progress /\ DeleterAlone
         /\ Vouched /\ Resolved /\ Checked /\ Delivered

SoundInv == Undisturbed => Sound

LEMMA SoundInit == Init => SoundInv
  BY DEF Init, SoundInv, Sound, OneFiller, FillerFoundNothing, Progress,
     DeleterAlone, Vouched, Resolved, Checked, Delivered, Storing, Filling,
     Finding, Undisturbed

\* A Find that fails on a file which is not as it should be, fails because
\* no digest has been recorded yet.
LEMMA MissMeansUnfilled ==
    ASSUME TypeInv, DeleterAlone, Vouched, NEW p \in Proc, Unreadable(p)
    PROVE  digest \notin Version
<1>1. ~Deleting
  BY DEF DeleterAlone, Deleting, Unreadable, AtRest
<1> QED BY <1>1 DEF TypeInv, TypeOK, Vouched, Unreadable

LEMMA SoundStep ==
    ASSUME "read" \notin Faults
    PROVE  TypeInv /\ SoundInv /\ [Next]_vars => SoundInv'
<1> SUFFICES ASSUME TypeInv, SoundInv, [Next]_vars, Undisturbed'
             PROVE  Sound'
  BY DEF SoundInv
<1>0. Undisturbed
  BY DEF Undisturbed, TypeInv, TypeOK, Next, Step, Begin, FindStat, FindMeta, FindDigest, FindPath,
     FindMisses, FindFails, RegistryPull, FillFails, StoreCreate, StoreCopy,
     StoreCreateMeta, StoreEncodeMeta, StoreTruncateDigest,
     StoreWriteDigest, VerifyFails, Verified, DeleteBegin, DeleteFile,
     DeleteEnd, Crash, BreakOff, MoveTag, vars, history
<1> Sound /\ ~overlapped /\ ~raced /\ ~overlapped' /\ ~raced'
  BY <1>0 DEF SoundInv, Undisturbed
<1> USE DEF TypeInv, TypeOK, HasArtifact, AtRest, Storing, Filling,
            Finding, files, history, Sound, OneFiller, FillerFoundNothing,
            Progress, DeleterAlone, Vouched, Resolved, Checked, Delivered,
            Deleting
<1>1. ASSUME NEW p \in Proc, NEW o \in {"load", "pull"},
             NEW d \in Version \cup {None}, Begin(p, o, d)
      PROVE  Sound'
  <2>1. \A q \in Proc : pc[q] # "delete" /\ pc'[q] # "delete"
    BY <1>1 DEF Begin
  <2>2. OneFiller' /\ FillerFoundNothing' /\ Progress' /\ DeleterAlone'
    BY <1>1, <2>1 DEF Begin
  <2>3. Vouched' /\ Resolved' /\ Checked' /\ Delivered'
    BY <1>1, <2>1 DEF Begin
  <2> QED BY <2>2, <2>3
<1>2. ASSUME NEW p \in Proc, FindStat(p)
      PROVE  Sound'
  BY <1>2 DEF FindStat, Goto
<1>3. ASSUME NEW p \in Proc, FindMeta(p)
      PROVE  Sound'
  BY <1>3 DEF FindMeta, Goto
<1>4. ASSUME NEW p \in Proc, FindDigest(p)
      PROVE  Sound'
  BY <1>4 DEF FindDigest, Goto, Unreadable
<1>5. ASSUME NEW p \in Proc, FindPath(p)
      PROVE  Sound'
  BY <1>5 DEF FindPath, Goto, Unreadable
<1>6. ASSUME NEW p \in Proc, FindMisses(p)
      PROVE  Sound'
  <2>1. Unreadable(p)
    BY <1>6 DEF FindMisses
  <2>2. digest \notin Version
    BY <2>1, MissMeansUnfilled
  <2>3. \A q \in Proc : q # p => pc[q] \notin Filling
    BY <1>6 DEF FindMisses
  <2>4. OneFiller' /\ FillerFoundNothing'
    BY <1>6, <2>2, <2>3 DEF FindMisses
  <2>5. Progress' /\ DeleterAlone' /\ Vouched'
    BY <1>6, <2>2 DEF FindMisses
  <2>6. Resolved' /\ Checked' /\ Delivered'
    BY <1>6 DEF FindMisses
  <2> QED BY <2>4, <2>5, <2>6
<1>7. ASSUME NEW p \in Proc, FindFails(p)
      PROVE  Sound'
  BY <1>7 DEF FindFails, End
<1>8. ASSUME NEW p \in Proc, RegistryPull(p)
      PROVE  Sound'
  BY <1>8 DEF RegistryPull, Goto
<1>9. ASSUME NEW p \in Proc, FillFails(p)
      PROVE  Sound'
  <2>1. CASE pc[p] = "delete"
    <3>1. \A q \in Proc : pc'[q] \in AtRest
      BY <1>9, <2>1 DEF FillFails, End
    <3>2. digest \in Version => wasm # None /\ meta # None
      BY <1>9, <2>1 DEF FillFails, BreakOff, HalfDeleted
    <3>3. files' = files
      BY <1>9, <2>1 DEF FillFails, BreakOff
    <3>4. Delivered'
      BY <1>9, <2>1 DEF FillFails, End
    <3> QED BY <3>1, <3>2, <3>3, <3>4
  <2>2. CASE pc[p] # "delete"
    BY <1>9, <2>2 DEF FillFails, End, BreakOff
  <2> QED BY <2>1, <2>2
<1>10. ASSUME NEW p \in Proc, StoreCreate(p)
       PROVE  Sound'
  BY <1>10 DEF StoreCreate, Goto
<1>11. ASSUME NEW p \in Proc, StoreCopy(p)
       PROVE  Sound'
  BY <1>11 DEF StoreCopy, Goto
<1>12. ASSUME NEW p \in Proc, StoreCreateMeta(p)
       PROVE  Sound'
  BY <1>12 DEF StoreCreateMeta, Goto
<1>13. ASSUME NEW p \in Proc, StoreEncodeMeta(p)
       PROVE  Sound'
  BY <1>13 DEF StoreEncodeMeta, Goto
<1>14. ASSUME NEW p \in Proc, StoreTruncateDigest(p)
       PROVE  Sound'
  BY <1>14 DEF StoreTruncateDigest, Goto
<1>15. ASSUME NEW p \in Proc, StoreWriteDigest(p)
       PROVE  Sound'
  BY <1>15 DEF StoreWriteDigest, Goto
<1>16. ASSUME NEW p \in Proc, VerifyFails(p)
       PROVE  Sound'
  BY <1>16 DEF VerifyFails, End
<1>17. ASSUME NEW p \in Proc, Verified(p)
       PROVE  Sound'
  BY <1>17 DEF Verified, DigestMatches
<1>18. ASSUME NEW p \in Proc, Crash(p)
       PROVE  Sound'
  <2>1. CASE pc[p] = "delete"
    <3>1. \A q \in Proc : pc'[q] \in AtRest
      BY <1>18, <2>1 DEF Crash, End
    <3>2. digest \in Version => wasm # None /\ meta # None
      BY <1>18, <2>1 DEF Crash, BreakOff, HalfDeleted
    <3>3. files' = files
      BY <1>18, <2>1 DEF Crash, BreakOff
    <3>4. Delivered'
      BY <1>18, <2>1 DEF Crash, End
    <3> QED BY <3>1, <3>2, <3>3, <3>4
  <2>2. CASE pc[p] # "delete"
    BY <1>18, <2>2 DEF Crash, End, BreakOff
  <2> QED BY <2>1, <2>2
<1>19. ASSUME NEW v \in Version, MoveTag(v)
       PROVE  Sound'
  BY <1>19 DEF MoveTag
<1>20. ASSUME NEW p \in Proc, DeleteBegin(p)
       PROVE  Sound'
  <2>1. \A q \in Proc \ {p} : pc[q] \in AtRest /\ pc'[q] = pc[q]
    BY <1>20 DEF DeleteBegin, End
  <2>2. pc'[p] = "delete" /\ files' = files
    BY <1>20 DEF DeleteBegin, End
  <2>3. Delivered'
    BY <1>20 DEF DeleteBegin, End
  <2> QED BY <2>1, <2>2, <2>3
<1>21. ASSUME NEW p \in Proc, DeleteFile(p)
       PROVE  Sound'
  BY <1>21 DEF DeleteFile
<1>22. ASSUME NEW p \in Proc, DeleteEnd(p)
       PROVE  Sound'
  <2>1. \A q \in Proc : pc'[q] \in AtRest
    BY <1>22 DEF DeleteEnd, End
  <2>2. digest' = None
    BY <1>22 DEF DeleteEnd
  <2>3. Delivered'
    BY <1>22 DEF DeleteEnd, End
  <2> QED BY <2>1, <2>2, <2>3
<1>23. CASE UNCHANGED vars
  BY <1>23 DEF vars
<1> HIDE DEF TypeOK, Sound
<1> QED BY <1>1, <1>2, <1>3, <1>4, <1>5, <1>6, <1>7, <1>8, <1>9, <1>10,
     <1>11, <1>12, <1>13, <1>14, <1>15, <1>16, <1>17, <1>18, <1>19, <1>20,
     <1>21, <1>22, <1>23 DEF Next, Step

\* digest.txt vouches for plugin.wasm at every moment, provided that no two
\* fills overlapped, no Delete was raced and reads of good files succeed: Store
\* writes the digest last, and nobody stores over an entry that Find accepts.
THEOREM DigestVouches ==
    ASSUME "read" \notin Faults
    PROVE  Spec => []DigestVouchesForWasm
<1>1. SoundInv => DigestVouchesForWasm
  BY DEF SoundInv, Sound, Vouched, DigestVouchesForWasm, Deleting
<1> QED BY TypeInit, TypeStep, SoundInit, SoundStep, <1>1, PTL DEF Spec

\* Lockfile enforcement: under the same provision a LoadPlugin that was given
\* a digest returns the very artifact, although it compares the digest before
\* it looks up the path, and never hashes the file.
THEOREM LockedLoads ==
    ASSUME "read" \notin Faults
    PROVE  Spec => []LockedLoadIsExact
<1>1. SoundInv => LockedLoadIsExact
  BY DEF SoundInv, Sound, Delivered, LockedLoadIsExact
<1> QED BY TypeInit, TypeStep, SoundInit, SoundStep, <1>1, PTL DEF Spec

-----------------------------------------------------------------------------
(* Refinement of the write-once slot.                                      *)

Content == IF digest \in Version /\ meta = "full" /\ wasm # None
           THEN wasm ELSE Empty

LEMMA SlotInit == Init => Slot!Init
  BY SentinelAssumption DEF Init, Slot!Init, Undisturbed, Deleting

\* Only the last step of Store fills the slot, and it finds the slot empty and
\* no Delete under way; only a Delete clears it.
LEMMA SlotStep ==
    ASSUME "read" \notin Faults
    PROVE  TypeInv /\ SoundInv /\ SoundInv' /\ [Next]_vars
           => [Slot!Next]_<<Content, Deleting, ~Undisturbed>>
<1> SUFFICES ASSUME TypeInv, SoundInv, SoundInv', [Next]_vars
             PROVE  [Slot!Next]_<<Content, Deleting, ~Undisturbed>>
  OBVIOUS
<1>1. CASE ~Undisturbed'
  BY <1>1 DEF Slot!Next, Slot!Void
<1>2. CASE Undisturbed'
  <2>1. Undisturbed
    BY <1>2 DEF Undisturbed, TypeInv, TypeOK, Next, Step, Begin, FindStat,
       FindMeta, FindDigest, FindPath, FindMisses, FindFails, RegistryPull,
       FillFails, StoreCreate, StoreCopy, StoreCreateMeta, StoreEncodeMeta,
       StoreTruncateDigest, StoreWriteDigest, VerifyFails, Verified,
       DeleteBegin, DeleteFile, DeleteEnd, Crash, BreakOff, MoveTag, vars,
       history
  <2>2. (~Undisturbed)' = ~Undisturbed
    BY <1>2, <2>1
  <2>3. Sound /\ Sound'
    BY <1>2, <2>1 DEF SoundInv
  <2>4. ASSUME NEW p \in Proc, StoreWriteDigest(p)
        PROVE  Slot!Next
    <3>1. pc[p] = "writeDigest" /\ pc[p] \in Filling \ AtRest
      BY <2>4 DEF StoreWriteDigest, Goto, Filling, Storing, AtRest
    <3>2. /\ wasm' = plugin[p] /\ digest' = plugin[p] /\ plugin[p] \in Version
          /\ meta' = "full"
      BY <2>3, <2>4, <3>1 DEF StoreWriteDigest, Sound, Progress, TypeInv,
         HasArtifact, Storing
    <3>3. digest \notin Version
      BY <2>3, <3>1 DEF Sound, FillerFoundNothing
    <3>4. ~Deleting /\ ~Deleting'
      <4>1. \A q \in Proc : pc[q] # "delete"
        BY <2>3, <3>1 DEF Sound, DeleterAlone
      <4> QED BY <2>4, <4>1 DEF StoreWriteDigest, Goto, Deleting, TypeInv, TypeOK
    <3>5. Content = Empty /\ Content' \in Version
      BY <3>2, <3>3, SentinelAssumption DEF Content
    <3>6. Deleting' = Deleting
      BY <3>4 DEF Deleting
    <3>7. Slot!Fill
      BY <2>2, <3>4, <3>5, <3>6, Zenon DEF Slot!Fill, Content
    <3> QED BY <3>7 DEF Slot!Next
  <2>5. ASSUME NEW p \in Proc,
               \/ FillFails(p) \/ StoreCreate(p) \/ StoreCopy(p)
               \/ StoreCreateMeta(p) \/ StoreEncodeMeta(p)
               \/ StoreTruncateDigest(p) \/ Crash(p),
               pc[p] # "delete"
        PROVE  Content' = Content /\ Deleting' = Deleting
    <3>1. pc[p] \in Filling \/ UNCHANGED files
      BY <2>5 DEF FillFails, StoreCreate, StoreCopy, StoreTruncateDigest,
         StoreCreateMeta, StoreEncodeMeta, Crash, Goto, BreakOff, Filling,
         Storing, files
    <3>2. digest' = digest \/ digest' = Empty
      BY <2>5 DEF FillFails, StoreCreate, StoreCopy, StoreTruncateDigest,
         StoreCreateMeta, StoreEncodeMeta, Crash, BreakOff
    <3>3. Content' = Content
      <4>1. CASE pc[p] \in Filling
        BY <2>3, <3>2, <4>1, SentinelAssumption DEF Sound, FillerFoundNothing,
           Content
      <4>2. CASE UNCHANGED files
        BY <4>2 DEF files, Content
      <4> QED BY <3>1, <4>1, <4>2
    <3>4. Deleting' = Deleting
      BY <2>5 DEF FillFails, StoreCreate, StoreCopy, StoreCreateMeta,
         StoreEncodeMeta, StoreTruncateDigest, Crash, End, Goto, Deleting,
         TypeInv, TypeOK
    <3> QED BY <3>3, <3>4
  <2>6. ASSUME NEW p \in Proc,
               \/ \E o \in {"load", "pull"}, d \in Version \cup {None} :
                     Begin(p, o, d)
               \/ FindStat(p) \/ FindMeta(p) \/ FindDigest(p) \/ FindPath(p)
               \/ FindMisses(p) \/ FindFails(p) \/ RegistryPull(p)
               \/ VerifyFails(p) \/ Verified(p)
        PROVE  Content' = Content /\ Deleting' = Deleting
    <3>1. UNCHANGED files
      BY <2>6 DEF Begin, FindStat, FindMeta, FindDigest, FindPath,
         FindMisses, FindFails, RegistryPull, VerifyFails, Verified
    <3>2. /\ pc[p] # "delete" /\ pc'[p] # "delete"
          /\ \A q \in Proc \ {p} : pc'[q] = pc[q]
      BY <2>6 DEF Begin, FindStat, FindMeta, FindDigest, FindPath,
         FindMisses, FindFails, RegistryPull, VerifyFails, Verified, End, Goto,
         AtRest, Finding, TypeInv, TypeOK
    <3> QED BY <3>1, <3>2 DEF files, Content, Deleting
  <2>7. ASSUME NEW p \in Proc, DeleteBegin(p)
        PROVE  Slot!Next
    <3>1. Deleting' = TRUE
      BY <2>7 DEF DeleteBegin, End, Deleting, TypeInv, TypeOK
    <3>2. Content' = Content
      BY <2>7 DEF DeleteBegin, files, Content
    <3> QED BY <2>2, <3>1, <3>2 DEF Slot!Next, Slot!BeginClearing, Content
  <2>8. ASSUME NEW p \in Proc, DeleteFile(p)
        PROVE  Slot!Next
    <3>1. Deleting /\ Deleting' = Deleting
      BY <2>8 DEF DeleteFile, Deleting
    <3>2. Content' = Empty
      BY <2>8, SentinelAssumption DEF DeleteFile, Content
    <3> QED BY <2>2, <3>1, <3>2 DEF Slot!Next, Slot!Clear, Content
  <2>9. ASSUME NEW p \in Proc, pc[p] = "delete",
               DeleteEnd(p) \/ FillFails(p) \/ Crash(p)
        PROVE  Slot!Next
    <3>1. UNCHANGED files
      BY <2>9 DEF DeleteEnd, FillFails, Crash, BreakOff, files
    <3>2. \A q \in Proc : q # p => pc[q] # "delete"
      BY <2>3, <2>9 DEF Sound, DeleterAlone, AtRest
    <3>3. pc'[p] # "delete" /\ \A q \in Proc : q # p => pc'[q] = pc[q]
      BY <2>9 DEF DeleteEnd, FillFails, Crash, End, TypeInv, TypeOK
    <3>4. Deleting' = FALSE
      BY <3>2, <3>3 DEF Deleting
    <3>5. Content' = Content
      BY <3>1 DEF files, Content
    <3> QED BY <2>2, <3>4, <3>5 DEF Slot!Next, Slot!EndClearing, Content
  <2>10. ASSUME (\E v \in Version : MoveTag(v)) \/ UNCHANGED vars
         PROVE  Content' = Content /\ Deleting' = Deleting
    BY <2>10 DEF MoveTag, files, vars, Content, Deleting
  <2>11. ASSUME NEW p \in Proc, DeleteEnd(p)
         PROVE  pc[p] = "delete"
    BY <2>11 DEF DeleteEnd
  <2>12. ASSUME Content' = Content /\ Deleting' = Deleting
         PROVE  UNCHANGED <<Content, Deleting, ~Undisturbed>>
    BY <2>2, <2>12
  <2>13. ASSUME NEW p \in Proc, Step(p)
         PROVE  [Slot!Next]_<<Content, Deleting, ~Undisturbed>>
    <3>1. CASE StoreWriteDigest(p) \/ DeleteFile(p) \/ DeleteEnd(p)
      BY <2>4, <2>8, <2>9, <2>11, <3>1
    <3>2. CASE pc[p] = "delete" /\ FillFails(p)
      BY <2>9, <3>2
    <3>3. CASE \/ FindStat(p) \/ FindMeta(p) \/ FindDigest(p) \/ FindPath(p)
               \/ FindMisses(p) \/ FindFails(p) \/ RegistryPull(p)
               \/ VerifyFails(p) \/ Verified(p)
      BY <2>6, <2>12, <3>3
    <3>4. CASE pc[p] # "delete" /\ FillFails(p)
      BY <2>5, <2>12, <3>4
    <3>5. CASE \/ StoreCreate(p) \/ StoreCopy(p) \/ StoreCreateMeta(p)
               \/ StoreEncodeMeta(p) \/ StoreTruncateDigest(p)
      <4>1. pc[p] # "delete"
        BY <3>5 DEF StoreCreate, StoreCopy, StoreCreateMeta, StoreEncodeMeta,
           StoreTruncateDigest, Goto
      <4> QED BY <2>5, <2>12, <3>5, <4>1
    <3> QED BY <2>13, <3>1, <3>2, <3>3, <3>4, <3>5 DEF Step
  <2>14. ASSUME NEW p \in Proc, Crash(p)
         PROVE  [Slot!Next]_<<Content, Deleting, ~Undisturbed>>
    BY <2>5, <2>9, <2>12, <2>14, Zenon
  <2> QED BY <2>6, <2>7, <2>10, <2>12, <2>13, <2>14, Zenon DEF Next
<1> QED BY <1>1, <1>2

\* The cache implements the write-once slot: once a fill has ended, what Find
\* sees stays the same until a Delete is under way, whatever is loaded,
\* pulled, broken off or moved, unless two fills have overlapped or a Delete
\* was raced.
THEOREM CacheImplementsSlot ==
    ASSUME "read" \notin Faults
    PROVE  Spec => FilledOnce
<1>1. TypeInv /\ SoundInv /\ SoundInv' /\ [Next]_vars
      => [Slot!Next]_<<IF digest \in Version /\ meta = "full" /\ wasm # None
                       THEN wasm ELSE Empty, Deleting, ~Undisturbed>>
  BY SlotStep DEF Content
<1> QED BY TypeInit, TypeStep, SoundInit, SoundStep, SlotInit, <1>1, PTL
     DEF Spec, FilledOnce, Slot!Spec

-----------------------------------------------------------------------------
(* Overlapping fills.  While the tag stays, every Store writes the same    *)
(* artifact, so the binary is that artifact or is being written.           *)

Steady == ~cutShort /\ ~moved /\ ~raced

Writing == Storing \ {"create"}

Healing ==
    /\ \A p \in Proc : pc[p] \in Storing => plugin[p] = tag
    /\ \A p, q \in Proc : pc[p] = "delete" /\ q # p => pc[q] \in AtRest
    /\ wasm \in {None, Empty, tag}
    /\ \A p \in Proc : pc[p] \in Writing => wasm # None
    /\ wasm = Empty => \E p \in Proc : pc[p] = "copy"
    /\ digest \in Version => digest = tag
    /\ digest \in Version /\ ~Deleting => wasm # None

HealInv == Steady => Healing

\* A process that neither writes the binary nor begins a Delete moves on.
LEMMA HealQuiet ==
    ASSUME TypeInv, Healing, NEW p \in Proc, NEW there,
           pc' = [pc EXCEPT ![p] = there],
           UNCHANGED <<tag, wasm, digest>>,
           \A q \in Proc : q # p => plugin'[q] = plugin[q],
           pc[p] # "copy", there # "delete",
           there \in Storing => plugin'[p] = tag,
           there \in Writing => pc[p] \in Writing,
           there \notin AtRest => pc[p] \notin AtRest \cup {"delete"},
           pc[p] = "delete" /\ digest \in Version => wasm # None
    PROVE  Healing'
<1>1. \A q \in Proc : pc'[q] = IF q = p THEN there ELSE pc[q]
  BY DEF TypeInv, TypeOK
<1>2. \A q \in Proc : pc'[q] \in Storing => plugin'[q] = tag
  BY <1>1 DEF Healing
<1>3. \A q, r \in Proc : pc'[q] = "delete" /\ r # q => pc'[r] \in AtRest
  BY <1>1 DEF Healing
<1>4. \A q \in Proc : pc'[q] \in Writing => wasm # None
  BY <1>1 DEF Healing
<1>5. wasm = Empty => \E q \in Proc : pc'[q] = "copy"
  BY <1>1 DEF Healing
<1>6. digest \in Version /\ ~Deleting' => wasm # None
  <2>1. CASE pc[p] = "delete"
    BY <2>1
  <2>2. CASE pc[p] # "delete"
    BY <1>1, <2>2 DEF Healing, Deleting
  <2> QED BY <2>1, <2>2
<1> QED BY <1>2, <1>3, <1>4, <1>5, <1>6 DEF Healing, Storing, Writing, AtRest

LEMMA HealStep == TypeInv /\ HealInv /\ [Next]_vars => HealInv'
<1> SUFFICES ASSUME TypeInv, HealInv, [Next]_vars, Steady'
             PROVE  Healing'
  BY DEF HealInv
<1>0. Steady
  BY DEF Steady, TypeInv, TypeOK, Next, Step, Begin, FindStat, FindMeta,
     FindDigest, FindPath, FindMisses, FindFails, RegistryPull, FillFails,
     StoreCreate, StoreCopy, StoreCreateMeta, StoreEncodeMeta,
     StoreTruncateDigest, StoreWriteDigest, VerifyFails, Verified,
     DeleteBegin, DeleteFile, DeleteEnd, Crash, BreakOff, MoveTag, vars,
     history
<1> Healing /\ ~cutShort' /\ ~moved' /\ ~raced' /\ TypeOK
  BY <1>0 DEF HealInv, Steady, TypeInv
<1>1. ASSUME NEW p \in Proc, NEW o \in {"load", "pull"},
             NEW d \in Version \cup {None}, Begin(p, o, d)
      PROVE  Healing'
  <2>1. \A q \in Proc : pc[q] # "delete"
    BY <1>1 DEF Begin
  <2>2. \A q \in Proc : pc'[q] = IF q = p THEN "stat" ELSE pc[q]
    BY <1>1 DEF Begin, TypeOK
  <2>3. pc[p] \in AtRest /\ UNCHANGED <<tag, wasm, digest>>
        /\ \A q \in Proc : q # p => plugin'[q] = plugin[q]
    BY <1>1 DEF Begin, files, TypeOK
  <2> QED BY <2>1, <2>2, <2>3 DEF Healing, Deleting, Storing, Writing, AtRest
<1>2. ASSUME NEW p \in Proc,
             FindStat(p) \/ FindMeta(p) \/ FindDigest(p) \/ FindPath(p)
             \/ FindMisses(p) \/ FindFails(p)
      PROVE  Healing'
  <2>1. PICK there \in {"loadMeta", "loadDigest", "verify", "done", "pull",
                        "failed"} : pc' = [pc EXCEPT ![p] = there]
    BY <1>2 DEF FindStat, FindMeta, FindDigest, FindPath, FindMisses,
       FindFails, Goto, End
  <2>2. pc[p] \in Finding /\ UNCHANGED <<tag, wasm, digest>>
        /\ \A q \in Proc : q # p => plugin'[q] = plugin[q]
    BY <1>2 DEF FindStat, FindMeta, FindDigest, FindPath, FindMisses,
       FindFails, Goto, End, Finding, files, TypeOK
  <2> QED BY <2>1, <2>2, HealQuiet DEF Finding, Storing, Writing, AtRest
<1>3. ASSUME NEW p \in Proc, RegistryPull(p)
      PROVE  Healing'
  <2>1. plugin'[p] = tag /\ \A q \in Proc : q # p => plugin'[q] = plugin[q]
    BY <1>3 DEF RegistryPull, TypeOK
  <2> QED BY <1>3, <2>1, HealQuiet DEF RegistryPull, Goto, files, Storing,
     Writing, AtRest
<1>4. ASSUME NEW p \in Proc, FillFails(p) \/ Crash(p)
      PROVE  Healing'
  <2>1. PICK there \in {"failed", "idle"} : End(p, there)
    BY <1>4 DEF FillFails, Crash
  <2>2. BreakOff(p) /\ tag' = tag
    BY <1>4 DEF FillFails, Crash
  <2>3. pc[p] \notin Storing
    BY <2>2 DEF BreakOff
  <2>4. UNCHANGED <<wasm, digest>>
        /\ (pc[p] = "delete" /\ digest \in Version => wasm # None)
    BY <2>2, <2>3 DEF BreakOff, HalfDeleted, Storing
  <2>5. pc' = [pc EXCEPT ![p] = there]
        /\ \A q \in Proc : q # p => plugin'[q] = plugin[q]
    BY <2>1 DEF End, TypeOK
  <2> QED BY <2>1, <2>2, <2>3, <2>4, <2>5, HealQuiet
     DEF Storing, Writing, AtRest
<1>5. ASSUME NEW p \in Proc, StoreCreate(p)
      PROVE  Healing'
  <2>1. \A q \in Proc : pc'[q] = IF q = p THEN "copy" ELSE pc[q]
    BY <1>5 DEF StoreCreate, Goto, TypeOK
  <2>2. pc[p] = "create" /\ wasm' = Empty
        /\ UNCHANGED <<tag, digest, plugin>>
    BY <1>5 DEF StoreCreate, Goto
  <2>3. \A q \in Proc : pc[q] # "delete"
    BY <2>2 DEF Healing, AtRest
  <2> QED BY <2>1, <2>2, <2>3 DEF Healing, Deleting, Storing, Writing, AtRest
<1>6. ASSUME NEW p \in Proc, StoreCopy(p)
      PROVE  Healing'
  <2>1. \A q \in Proc : pc'[q] = IF q = p THEN "createMeta" ELSE pc[q]
    BY <1>6 DEF StoreCopy, Goto, TypeOK
  <2>2. pc[p] = "copy" /\ UNCHANGED <<tag, digest, plugin>>
    BY <1>6 DEF StoreCopy, Goto
  <2>3. plugin[p] = tag /\ wasm # None
    BY <2>2 DEF Healing, Storing, Writing
  <2>4. wasm' = tag /\ tag \in Version
    BY <1>6, <2>3 DEF StoreCopy, Healing, TypeOK
  <2>5. \A q \in Proc : pc[q] # "delete"
    BY <2>2 DEF Healing, AtRest
  <2> QED BY <2>1, <2>2, <2>4, <2>5 DEF Healing, Deleting, Storing, Writing,
     AtRest
<1>7. ASSUME NEW p \in Proc, StoreCreateMeta(p) \/ StoreEncodeMeta(p)
      PROVE  Healing'
  <2>1. PICK there \in {"encodeMeta", "truncateDigest"} :
            pc' = [pc EXCEPT ![p] = there]
    BY <1>7 DEF StoreCreateMeta, StoreEncodeMeta, Goto
  <2>2. pc[p] \in {"createMeta", "encodeMeta"}
        /\ UNCHANGED <<tag, wasm, digest, plugin>>
    BY <1>7 DEF StoreCreateMeta, StoreEncodeMeta, Goto
  <2>3. plugin[p] = tag
    BY <2>2 DEF Healing, Storing
  <2> QED BY <2>1, <2>2, <2>3, HealQuiet DEF Storing, Writing, AtRest
<1>8. ASSUME NEW p \in Proc, StoreTruncateDigest(p) \/ StoreWriteDigest(p)
      PROVE  Healing'
  <2>1. PICK there \in {"writeDigest", "verify"} :
            \A q \in Proc : pc'[q] = IF q = p THEN there ELSE pc[q]
    BY <1>8 DEF StoreTruncateDigest, StoreWriteDigest, Goto, TypeOK
  <2>2. pc[p] \in {"truncateDigest", "writeDigest"}
        /\ UNCHANGED <<tag, wasm, plugin>>
    BY <1>8 DEF StoreTruncateDigest, StoreWriteDigest, Goto
  <2>3. plugin[p] = tag /\ wasm # None
    BY <2>2 DEF Healing, Storing, Writing
  <2>4. digest' \in Version => digest' = tag
    BY <1>8, <2>3 DEF StoreTruncateDigest, StoreWriteDigest
  <2>5. \A q \in Proc : pc[q] # "delete"
    BY <2>2 DEF Healing, AtRest
  <2> QED BY <2>1, <2>2, <2>3, <2>4, <2>5 DEF Healing, Deleting, Storing,
     Writing, AtRest
<1>9. ASSUME NEW p \in Proc, VerifyFails(p) \/ Verified(p)
      PROVE  Healing'
  <2>1. PICK there \in {"failed", "stat", "done"} :
            pc' = [pc EXCEPT ![p] = there]
    BY <1>9 DEF VerifyFails, Verified, End
  <2>2. pc[p] = "verify" /\ UNCHANGED <<tag, wasm, digest>>
        /\ \A q \in Proc : q # p => plugin'[q] = plugin[q]
    BY <1>9 DEF VerifyFails, Verified, End, files, TypeOK
  <2> QED BY <2>1, <2>2, HealQuiet DEF Storing, Writing, AtRest
<1>10. ASSUME NEW p \in Proc, DeleteBegin(p)
       PROVE  Healing'
  <2>1. \A q \in Proc \ {p} : pc[q] \in AtRest /\ pc'[q] = pc[q]
    BY <1>10 DEF DeleteBegin, End, TypeOK
  <2>2. pc[p] \in AtRest /\ pc'[p] = "delete"
        /\ UNCHANGED <<tag, wasm, digest>>
    BY <1>10 DEF DeleteBegin, End, files, TypeOK
  <2> QED BY <2>1, <2>2 DEF Healing, Deleting, Storing, Writing, AtRest
<1>11. ASSUME NEW p \in Proc, DeleteFile(p)
       PROVE  Healing'
  <2>1. pc[p] = "delete" /\ UNCHANGED <<tag, pc, plugin>>
        /\ wasm' \in {wasm, None} /\ digest' \in {digest, None}
    BY <1>11 DEF DeleteFile
  <2>2. \A q \in Proc : q # p => pc[q] \in AtRest
    BY <2>1 DEF Healing
  <2> QED BY <2>1, <2>2 DEF Healing, Deleting, Storing, Writing, AtRest
<1>12. ASSUME NEW p \in Proc, DeleteEnd(p)
       PROVE  Healing'
  <2>1. pc' = [pc EXCEPT ![p] = "done"] /\ pc[p] = "delete" /\ digest = None
        /\ UNCHANGED <<tag, wasm, digest>>
        /\ \A q \in Proc : q # p => plugin'[q] = plugin[q]
    BY <1>12 DEF DeleteEnd, End, files, TypeOK
  <2> QED BY <2>1, HealQuiet DEF Storing, Writing, AtRest
<1>13. ASSUME NEW v \in Version, MoveTag(v)
       PROVE  Healing'
  BY <1>13 DEF MoveTag
<1>14. CASE UNCHANGED vars
  BY <1>14 DEF vars, Healing, Deleting
<1> QED BY <1>1, <1>2, <1>3, <1>4, <1>5, <1>6, <1>7, <1>8, <1>9, <1>10,
     <1>11, <1>12, <1>13, <1>14 DEF Next, Step

\* Fills that overlap heal, even when reads of good files fail: once nobody
\* is storing or deleting, digest.txt is the digest of plugin.wasm, provided
\* that the tag never moved, no Store was cut short and no Delete was raced.
THEOREM OverlapHeals == Spec => []OverlapHealsWhenTagIsFixed
<1>1. Init => HealInv
  BY DEF Init, HealInv, Healing, Storing, Writing, Deleting
<1>2. HealInv => OverlapHealsWhenTagIsFixed
  BY DEF HealInv, Healing, Steady, OverlapHealsWhenTagIsFixed, Deleting,
     Filling, Storing
<1> QED BY TypeInit, TypeStep, HealStep, <1>1, <1>2, PTL DEF Spec
=============================================================================
