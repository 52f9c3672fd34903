-------------------------- MODULE Lockfile_proofs --------------------------
(***************************************************************************)
(* Proofs about the lockfile: for any number of callers, plugins,          *)
(* constraints and declarations, and with every fault.                     *)
(***************************************************************************)
EXTENDS Lockfile, TLAPS, SequenceTheorems

-----------------------------------------------------------------------------
(* The inductive invariant.                                                *)

\* What the loop of a call has done with the declarations before at[p]: the
\* last of them for a plugin is locked, and the entries they did not ask to
\* change are as they were loaded.
LockedSoFar(p) ==
    \A i \in 1..(at[p] - 1) :
        (\A j \in 1..(at[p] - 1) :
            j > i => decls[p][j].name # decls[p][i].name)
        => Satisfied(plugins[p], decls[p][i])

KeptSoFar(p) ==
    \A n \in Name :
        (\A i \in 1..(at[p] - 1) :
            decls[p][i].name = n => Satisfied(loaded[p], decls[p][i]))
        => plugins[p][n] = loaded[p][n]

CallInv(p) ==
    /\ at[p] <= Len(decls[p]) + 1
    /\ pc[p] \in {"idle", "failed"} => decls[p] = <<>> /\ at[p] = 1
    /\ pc[p] \in {"saving", "writing", "done"} => at[p] = Len(decls[p]) + 1
    /\ \A i \in 1..(at[p] - 1) : decls[p][i] # BadDecl
    /\ LockedSoFar(p)
    /\ KeptSoFar(p)

\* Without overlap one call at most is under way, and the file is empty
\* exactly while it writes.
FileInv ==
    ~overlapped /\ ~cutShort =>
        /\ \A p, q \in Proc : pc[p] \in UnderWay /\ pc[q] \in UnderWay => p = q
        /\ \A p \in Proc : pc[p] = "writing" => file = Empty
        /\ SaveIsReadBack

LockInv == TypeOK /\ FileInv /\ \A p \in Proc : CallInv(p)

-----------------------------------------------------------------------------
(* Facts about the operators.                                              *)

LEMMA DeclListsAreSequences ==
  ASSUME NEW D \in DeclLists
  PROVE  /\ D \in Seq(Decls) /\ Len(D) \in 0..MaxDecls
         /\ DOMAIN D = 1..Len(D)
         /\ \A i \in 1..Len(D) : D[i] \in Decls
<1>1. PICK n \in 0..MaxDecls : D \in [1..n -> Decls]
  BY DEF DeclLists
<1>2. n \in Nat /\ n <= MaxDecls
  BY <1>1, BoundAssumption
<1>3. D \in Seq(Decls)
  BY <1>1, <1>2, SeqDef
<1>4. Len(D) = n
  BY <1>1, <1>2, <1>3, LenProperties
<1> QED
  BY <1>1, <1>2, <1>3, <1>4

LEMMA NoDecls == <<>> \in DeclLists /\ Len(<<>>) = 0
<1>1. <<>> \in [1..0 -> Decls]
  BY EmptySeq, LenProperties, <<>> \in Seq(Decls)
<1> QED
  BY <1>1, BoundAssumption, EmptySeq DEF DeclLists

LEMMA NoPluginsIsOne == NoPlugins \in Plugins
  BY DEF NoPlugins, Plugins

LEMMA LoadGivesPlugins ==
  ASSUME file \in Files, NEW P \in Load
  PROVE  P \in Plugins
  BY DEF Files, Load

\* AddPlugin locks the declaration and leaves the other entries alone.
LEMMA AddPluginLocks ==
  ASSUME NEW P \in Plugins, NEW d \in Decls, d # BadDecl
  PROVE  /\ d.name \in Name /\ d.constraint \in Constraint
         /\ AddPlugin(P, d) \in Plugins
         /\ Satisfied(AddPlugin(P, d), d)
         /\ \A n \in Name : n # d.name => AddPlugin(P, d)[n] = P[n]
<1>1. d \in [name : Name, constraint : Constraint]
  BY DEF Decls
<1>2. d.name \in Name /\ d.constraint \in Constraint
  BY <1>1
<1> DEFINE lock == [requested |-> d.constraint, digest |-> "placeholder"]
<1>3. lock \in Locks /\ lock.requested = d.constraint
  BY <1>2 DEF Locks
<1>4. lock # NoLock
  BY <1>3, SentinelAssumption DEF Locks
<1> HIDE DEF lock
<1>5. AddPlugin(P, d) = [P EXCEPT ![d.name] = lock]
  BY DEF AddPlugin, lock
<1>6. AddPlugin(P, d) \in Plugins /\ AddPlugin(P, d)[d.name] = lock
      /\ \A n \in Name : n # d.name => AddPlugin(P, d)[n] = P[n]
  BY <1>2, <1>3, <1>5 DEF Plugins
<1> QED
  BY <1>2, <1>3, <1>4, <1>6 DEF Satisfied

-----------------------------------------------------------------------------
(* The calls.                                                              *)

\* A step of one call leaves the others alone.
LEMMA OtherCalls ==
  ASSUME NEW q, CallInv(q),
         pc'[q] = pc[q], decls'[q] = decls[q], at'[q] = at[q],
         loaded'[q] = loaded[q], plugins'[q] = plugins[q]
  PROVE  CallInv(q)'
  BY DEF CallInv, LockedSoFar, KeptSoFar, Satisfied

\* A call with no declarations has nothing to answer for.
LEMMA IdleCall ==
  ASSUME NEW p, decls'[p] = <<>>, at'[p] = 1, plugins'[p] = loaded'[p]
  PROVE  CallInv(p)'
  BY NoDecls DEF CallInv, LockedSoFar, KeptSoFar

\* What a call has of its own.
LocalsOK ==
    /\ decls \in [Proc -> DeclLists]
    /\ at \in [Proc -> 1..(MaxDecls + 1)]
    /\ loaded \in [Proc -> Plugins]
    /\ plugins \in [Proc -> Plugins]
    /\ profiles \in [Proc -> SUBSET URL]
    /\ updated \in [Proc -> BOOLEAN]
    /\ asked \in [Proc -> SUBSET URL]

LEMMA LeaveCalls ==
  ASSUME LockInv, NEW p \in Proc, NEW there, Leave(p, there)
  PROVE  LocalsOK' /\ \A q \in Proc : CallInv(q)'
<1>1. TypeOK /\ \A q \in Proc : CallInv(q)
  BY DEF LockInv
<1>2. 1 \in 1..(MaxDecls + 1)
  BY BoundAssumption
<1>3. LocalsOK'
  BY <1>1, <1>2, NoDecls, NoPluginsIsOne DEF Leave, TypeOK, LocalsOK
<1>4. CallInv(p)'
  BY <1>1, IdleCall DEF Leave, TypeOK
<1>5. ASSUME NEW q \in Proc, q # p PROVE CallInv(q)'
  BY <1>1, <1>5, OtherCalls DEF Leave, TypeOK
<1> QED
  BY <1>3, <1>4, <1>5

\* Load gives a call its copy, which it has not changed yet.
LEMMA BeginCalls ==
  ASSUME LockInv, NEW p \in Proc, NEW there, NEW D \in DeclLists,
         NEW profs \in SUBSET URL, NEW urls \in SUBSET URL,
         Begin(p, there, D, profs, urls),
         there = "resolving" \/ D = <<>>
  PROVE  LocalsOK' /\ \A q \in Proc : CallInv(q)'
<1>1. TypeOK /\ \A q \in Proc : CallInv(q)
  BY DEF LockInv
<1>2. PICK P \in Load : /\ loaded' = [loaded EXCEPT ![p] = P]
                        /\ plugins' = [plugins EXCEPT ![p] = P]
  BY DEF Begin
<1>3. P \in Plugins
  BY <1>1, <1>2, LoadGivesPlugins DEF TypeOK
<1>4. LocalsOK'
  BY <1>1, <1>2, <1>3 DEF Begin, TypeOK, LocalsOK
<1>5. at'[p] = 1 /\ pc'[p] = there /\ decls'[p] = D
      /\ plugins'[p] = loaded'[p]
  BY <1>1, <1>2 DEF Begin, Goto, TypeOK, CallInv
<1>6. CallInv(p)'
  <2>1. CASE D = <<>>
    BY <1>5, <2>1, IdleCall
  <2>2. CASE there = "resolving"
    <3>1. Len(D) \in Nat
      BY DeclListsAreSequences, BoundAssumption
    <3> QED
      BY <1>5, <2>2, <3>1 DEF CallInv, LockedSoFar, KeptSoFar
  <2> QED
    BY <2>1, <2>2
<1>7. ASSUME NEW q \in Proc, q # p PROVE CallInv(q)'
  BY <1>1, <1>2, <1>7, OtherCalls DEF Begin, Goto, TypeOK
<1> QED
  BY <1>4, <1>6, <1>7

\* One turn of the loop.
LEMMA ResolveOneCalls ==
  ASSUME LockInv, NEW p \in Proc, ResolveOne(p)
  PROVE  LocalsOK' /\ \A q \in Proc : CallInv(q)'
<1> DEFINE m == at[p]
           D == decls[p]
           d == D[m]
           P == plugins[p]
           Q == plugins'[p]
<1>1. TypeOK /\ \A q \in Proc : CallInv(q)
  BY DEF LockInv
<1>2. /\ D \in DeclLists /\ m \in 1..(MaxDecls + 1) /\ P \in Plugins
      /\ m <= Len(D) /\ d # BadDecl /\ Len(D) \in 0..MaxDecls
      /\ \A i \in 1..Len(D) : D[i] \in Decls
  BY <1>1, DeclListsAreSequences DEF TypeOK, ResolveOne, Current
<1>3. m \in Nat /\ m >= 1 /\ m + 1 \in 1..(MaxDecls + 1) /\ d \in Decls
  BY <1>2, BoundAssumption
<1>4. d.name \in Name /\ AddPlugin(P, d) \in Plugins
      /\ Satisfied(AddPlugin(P, d), d)
      /\ \A n \in Name : n # d.name => AddPlugin(P, d)[n] = P[n]
  BY <1>2, <1>3, AddPluginLocks
<1>5. Q = (IF Satisfied(P, d) THEN P ELSE AddPlugin(P, d))
      /\ plugins' \in [Proc -> Plugins]
      /\ \A q \in Proc : q # p => plugins'[q] = plugins[q]
  BY <1>1, <1>4 DEF ResolveOne, Current, TypeOK
<1>6. at'[p] = m + 1 /\ decls'[p] = D /\ loaded'[p] = loaded[p]
      /\ pc'[p] = "resolving" /\ pc[p] = "resolving"
  BY <1>1 DEF ResolveOne, Goto, TypeOK
<1>7. LocalsOK'
  BY <1>1, <1>3, <1>5 DEF ResolveOne, TypeOK, LocalsOK
<1>8. Satisfied(Q, d) /\ \A n \in Name : n # d.name => Q[n] = P[n]
  BY <1>4, <1>5
<1> HIDE DEF Q
<1>9. \A i \in 1..m : D[i] # BadDecl /\ D[i] \in Decls /\ D[i].name \in Name
  <2> TAKE i \in 1..m
  <2>1. D[i] # BadDecl /\ D[i] \in Decls
    <3>1. CASE i = m
      BY <1>2, <1>3, <3>1
    <3>2. CASE i < m
      BY <1>1, <1>2, <1>3, <3>2 DEF CallInv
    <3> QED
      BY <1>3, <3>1, <3>2
  <2> QED
    BY <2>1 DEF Decls
<1>10. LockedSoFar(p)'
  <2> SUFFICES ASSUME NEW i \in 1..m,
                      \A j \in 1..m : j > i => D[j].name # D[i].name
               PROVE  Satisfied(Q, D[i])
    BY <1>3, <1>6 DEF LockedSoFar, Satisfied, Q
  <2>1. CASE i = m
    BY <1>8, <2>1
  <2>2. CASE i < m
    <3>1. d.name # D[i].name /\ D[i].name \in Name
      BY <1>3, <1>9, <2>2
    <3>2. Satisfied(P, D[i])
      BY <1>1, <1>3, <2>2 DEF CallInv, LockedSoFar
    <3> QED
      BY <1>8, <3>1, <3>2 DEF Satisfied
  <2> QED
    BY <1>3, <2>1, <2>2
<1>11. KeptSoFar(p)'
  <2> SUFFICES ASSUME NEW n \in Name,
                      \A i \in 1..m :
                          D[i].name = n => Satisfied(loaded[p], D[i])
               PROVE  Q[n] = loaded[p][n]
    BY <1>3, <1>6 DEF KeptSoFar, Satisfied, Q
  <2>1. P[n] = loaded[p][n]
    BY <1>1, <1>3 DEF CallInv, KeptSoFar
  <2>2. CASE n = d.name
    <3>1. Satisfied(loaded[p], d)
      BY <1>3, <2>2
    <3>2. Satisfied(P, d)
      BY <2>1, <2>2, <3>1 DEF Satisfied
    <3> QED
      BY <1>5, <2>1, <3>2 DEF Q
  <2>3. CASE n # d.name
    BY <1>8, <2>1, <2>3
  <2> QED
    BY <2>2, <2>3
<1>12. CallInv(p)'
  BY <1>2, <1>3, <1>6, <1>9, <1>10, <1>11 DEF CallInv
<1>13. ASSUME NEW q \in Proc, q # p PROVE CallInv(q)'
  BY <1>1, <1>5, <1>13, OtherCalls DEF ResolveOne, Goto, TypeOK
<1> QED
  BY <1>7, <1>12, <1>13

\* A step that changes nothing of a call but where it is.
LEMMA MovedCalls ==
  ASSUME LockInv, NEW p \in Proc, NEW there,
         pc' = [pc EXCEPT ![p] = there], UNCHANGED locals,
         there \in {"idle", "failed"} => pc[p] \in {"idle", "failed"},
         there \in {"saving", "writing", "done"} =>
             at[p] = Len(decls[p]) + 1
  PROVE  LocalsOK' /\ \A q \in Proc : CallInv(q)'
<1>1. TypeOK /\ \A q \in Proc : CallInv(q)
  BY DEF LockInv
<1>2. LocalsOK'
  BY <1>1 DEF locals, TypeOK, LocalsOK
<1>3. CallInv(p)'
  BY <1>1 DEF CallInv, LockedSoFar, KeptSoFar, Satisfied, locals, TypeOK
<1>4. ASSUME NEW q \in Proc, q # p PROVE CallInv(q)'
  BY <1>1, <1>4, OtherCalls DEF locals, TypeOK
<1> QED
  BY <1>2, <1>3, <1>4

-----------------------------------------------------------------------------
(* The file.                                                               *)

LEMMA FilesAreFiles ==
  /\ Empty \in Files /\ Torn \in Files /\ Missing \in Files /\ Invalid \in Files
  /\ \A P \in Plugins : /\ Holding(P) \in Files
                         /\ Holding(P).plugins = P /\ Holding(P).state = "ok"
  BY NoPluginsIsOne DEF Empty, Torn, Missing, Invalid, Holding, Files

\* A call that does not write, nor has been writing, moves on or ends.
LEMMA FileAlone ==
  ASSUME TypeOK, FileInv, NEW p \in Proc, NEW there,
         pc' = [pc EXCEPT ![p] = there],
         pc[p] # "writing", there # "writing",
         there \in UnderWay => pc[p] \in UnderWay,
         UNCHANGED <<file, lastSaved, overlapped, cutShort>>
  PROVE  FileInv'
<1>1. \A q \in Proc : pc'[q] = IF q = p THEN there ELSE pc[q]
  BY DEF TypeOK
<1>2. \A q \in Proc : /\ pc'[q] \in UnderWay => pc[q] \in UnderWay
                       /\ pc'[q] = "writing" <=> pc[q] = "writing"
  BY <1>1
<1> QED
  BY <1>2 DEF FileInv, SaveIsReadBack, UnderWay, Empty, NoPlugins

LEMMA FileBegun ==
  ASSUME TypeOK, FileInv, NEW p \in Proc, NEW there, NEW D, NEW profs,
         NEW urls, Begin(p, there, D, profs, urls), there # "writing"
  PROVE  FileInv'
<1>1. \A q \in Proc : pc'[q] = IF q = p THEN there ELSE pc[q]
  BY DEF TypeOK, Begin, Goto
<1> SUFFICES ASSUME ~overlapped', ~cutShort'
             PROVE  /\ \A q, r \in Proc :
                          pc'[q] \in UnderWay /\ pc'[r] \in UnderWay => q = r
                    /\ \A q \in Proc : pc'[q] = "writing" => file' = Empty
                    /\ SaveIsReadBack'
  BY DEF FileInv, UnderWay, Empty, NoPlugins
<1>2. ~overlapped /\ ~cutShort /\ \A q \in Proc : pc[q] \notin UnderWay
  BY DEF Begin
<1>3. \A q \in Proc : pc[q] # "writing" /\ pc'[q] # "writing"
  BY <1>1, <1>2 DEF UnderWay
<1>4. file.state \notin {"empty", "torn"} /\ file.plugins = lastSaved
  BY <1>2, <1>3 DEF FileInv, SaveIsReadBack
<1>5. SaveIsReadBack'
  BY <1>4 DEF Begin, SaveIsReadBack
<1> QED
  BY <1>1, <1>2, <1>3, <1>5

LEMMA FileTruncated ==
  ASSUME TypeOK, FileInv, NEW p \in Proc, SaveTruncate(p)
  PROVE  FileInv'
<1>1. /\ \A q \in Proc : pc'[q] = IF q = p THEN "writing" ELSE pc[q]
      /\ pc[p] = "saving" /\ file' = Empty
      /\ overlapped' = overlapped /\ cutShort' = cutShort
  BY DEF TypeOK, SaveTruncate, Goto, history
<1>2. \A q \in Proc : pc'[q] \in UnderWay => pc[q] \in UnderWay
  BY <1>1 DEF UnderWay
<1>3. ~(\A q \in Proc : pc'[q] # "writing")
  BY <1>1
<1> QED
  BY <1>1, <1>2, <1>3 DEF FileInv, SaveIsReadBack, UnderWay, Empty, NoPlugins

\* Nobody has written in between: the whole copy is what is read back.
LEMMA FileWritten ==
  ASSUME TypeOK, FileInv, NEW p \in Proc, SaveWrite(p)
  PROVE  FileInv'
<1>1. /\ \A q \in Proc : pc'[q] = IF q = p THEN "done" ELSE pc[q]
      /\ pc[p] = "writing" /\ lastSaved' = plugins[p]
      /\ overlapped' = overlapped /\ cutShort' = cutShort
      /\ file' \in AfterWrite(Holding(plugins[p]))
      /\ plugins[p] \in Plugins
  BY DEF TypeOK, SaveWrite, Goto, FromEntity
<1> SUFFICES ASSUME ~overlapped', ~cutShort'
             PROVE  /\ \A q, r \in Proc :
                          pc'[q] \in UnderWay /\ pc'[r] \in UnderWay => q = r
                    /\ \A q \in Proc : pc'[q] = "writing" => file' = Empty
                    /\ SaveIsReadBack'
  BY DEF FileInv, UnderWay, Empty, NoPlugins
<1>2. \A q \in Proc : pc[q] \in UnderWay => q = p
  BY <1>1 DEF FileInv, UnderWay
<1>3. \A q \in Proc : pc'[q] \notin UnderWay
  BY <1>1, <1>2 DEF UnderWay
<1>4. file = Empty
  BY <1>1 DEF FileInv
<1>5. file' = Holding(plugins[p])
  BY <1>1, <1>4 DEF AfterWrite
<1>6. SaveIsReadBack'
  BY <1>1, <1>5, FilesAreFiles DEF SaveIsReadBack
<1> QED
  BY <1>3, <1>6 DEF UnderWay

-----------------------------------------------------------------------------
(* The invariant holds.                                                    *)

LEMMA Initially == Init => LockInv
<1> SUFFICES ASSUME Init PROVE LockInv
  OBVIOUS
<1>1. file \in Files /\ file.state \notin {"empty", "torn"}
  BY FilesAreFiles DEF Init, Missing, Invalid
<1>2. 1 \in 1..(MaxDecls + 1) /\ lastSaved \in Plugins
  BY <1>1, BoundAssumption DEF Init, Files
<1>3. TypeOK
  BY <1>1, <1>2, NoDecls, NoPluginsIsOne DEF Init, TypeOK
<1>4. FileInv
  BY <1>1 DEF Init, FileInv, SaveIsReadBack, UnderWay
<1>5. ASSUME NEW p \in Proc PROVE CallInv(p)
  BY NoDecls DEF Init, CallInv, LockedSoFar, KeptSoFar
<1> QED
  BY <1>3, <1>4, <1>5 DEF LockInv

LEMMA LockStep == LockInv /\ [Next]_vars => LockInv'
<1> SUFFICES ASSUME LockInv, [Next]_vars PROVE LockInv'
  OBVIOUS
<1>0. TypeOK /\ FileInv /\ \A p \in Proc : CallInv(p)
  BY DEF LockInv
<1> DEFINE Kept == LocalsOK' /\ \A q \in Proc : CallInv(q)'
<1>1. ASSUME NEW p \in Proc, NEW there, NEW D \in DeclLists,
             NEW profs \in SUBSET URL, NEW urls \in SUBSET URL,
             Begin(p, there, D, profs, urls),
             there \in {"resolving", "saving", "failed", "done"},
             there = "resolving" \/ D = <<>>
      PROVE  LockInv'
  <2>1. Kept
    BY <1>1, BeginCalls
  <2>2. FileInv'
    BY <1>0, <1>1, FileBegun
  <2>3. TypeOK'
    BY <1>0, <1>1, <2>1 DEF TypeOK, LocalsOK, Begin, Goto, UnderWay
  <2> QED
    BY <2>1, <2>2, <2>3 DEF LockInv
<1>2. ASSUME NEW p \in Proc, LoadFails(p) PROVE LockInv'
  <2>1. Kept
    BY <1>2, MovedCalls DEF LoadFails, Goto
  <2>2. FileInv'
    BY <1>0, <1>2, FileAlone DEF LoadFails, Goto, UnderWay, history
  <2>3. TypeOK'
    BY <1>0, <1>2, <2>1 DEF TypeOK, LocalsOK, LoadFails, Goto, history
  <2> QED
    BY <2>1, <2>2, <2>3 DEF LockInv
<1>3. ASSUME NEW p \in Proc, Return(p) \/ ParseFails(p) \/ SaveFails(p)
      PROVE  LockInv'
  <2>1. PICK there \in {"idle", "failed"} : Leave(p, there)
    BY <1>3 DEF Return, ParseFails, SaveFails
  <2>2. UNCHANGED <<file, pinned, lastSaved, overlapped, cutShort>>
        /\ pc[p] # "writing"
    BY <1>3 DEF Return, ParseFails, SaveFails, history
  <2>3. Kept
    BY <2>1, LeaveCalls
  <2>4. FileInv'
    BY <1>0, <2>1, <2>2, FileAlone DEF Leave, UnderWay
  <2>5. TypeOK'
    BY <1>0, <2>1, <2>2, <2>3 DEF TypeOK, LocalsOK, Leave
  <2> QED
    BY <2>3, <2>4, <2>5 DEF LockInv
<1>4. ASSUME NEW p \in Proc, ResolveOne(p) PROVE LockInv'
  <2>1. Kept
    BY <1>4, ResolveOneCalls
  <2>2. FileInv'
    BY <1>0, <1>4, FileAlone DEF ResolveOne, Goto, UnderWay, history
  <2>3. TypeOK'
    BY <1>0, <1>4, <2>1 DEF TypeOK, LocalsOK, ResolveOne, Goto, history,
       UnderWay
  <2> QED
    BY <2>1, <2>2, <2>3 DEF LockInv
<1>5. ASSUME NEW p \in Proc, ResolveEnds(p) PROVE LockInv'
  <2>1. PICK there \in {"saving", "done"} : pc' = [pc EXCEPT ![p] = there]
    BY <1>5 DEF ResolveEnds
  <2>2. at[p] = Len(decls[p]) + 1
    <3>1. at[p] <= Len(decls[p]) + 1 /\ at[p] > Len(decls[p])
      BY <1>0, <1>5 DEF CallInv, ResolveEnds
    <3>2. at[p] \in Nat /\ Len(decls[p]) \in Nat
      BY <1>0, DeclListsAreSequences, BoundAssumption DEF TypeOK
    <3> QED
      BY <3>1, <3>2
  <2>3. Kept
    BY <1>5, <2>1, <2>2, MovedCalls DEF ResolveEnds
  <2>4. FileInv'
    BY <1>0, <1>5, <2>1, FileAlone DEF ResolveEnds, UnderWay, history
  <2>5. TypeOK'
    BY <1>0, <1>5, <2>1, <2>3 DEF TypeOK, LocalsOK, ResolveEnds, history,
       UnderWay
  <2> QED
    BY <2>3, <2>4, <2>5 DEF LockInv
<1>6. ASSUME NEW p \in Proc, SaveTruncate(p) PROVE LockInv'
  <2>1. Kept
    BY <1>0, <1>6, MovedCalls DEF SaveTruncate, Goto, CallInv
  <2>2. FileInv'
    BY <1>0, <1>6, FileTruncated
  <2>3. TypeOK'
    BY <1>0, <1>6, <2>1, FilesAreFiles DEF TypeOK, LocalsOK, SaveTruncate,
       Goto, history, UnderWay
  <2> QED
    BY <2>1, <2>2, <2>3 DEF LockInv
<1>7. ASSUME NEW p \in Proc, SaveWrite(p) PROVE LockInv'
  <2>1. Kept
    BY <1>0, <1>7, MovedCalls DEF SaveWrite, Goto, CallInv
  <2>2. FileInv'
    BY <1>0, <1>7, FileWritten
  <2>3. file' \in Files
    BY <1>0, <1>7, FilesAreFiles DEF SaveWrite, AfterWrite, FromEntity, TypeOK
  <2>4. TypeOK'
    BY <1>0, <1>7, <2>1, <2>3 DEF TypeOK, LocalsOK, SaveWrite, Goto
  <2> QED
    BY <2>1, <2>2, <2>4 DEF LockInv
<1>8. ASSUME NEW p \in Proc, SaveCut(p) PROVE LockInv'
  <2>1. Leave(p, "failed") /\ file' \in Files /\ cutShort' = TRUE
        /\ UNCHANGED <<pinned, lastSaved, overlapped>>
    BY <1>8, FilesAreFiles DEF SaveCut
  <2>2. Kept
    BY <2>1, LeaveCalls
  <2>3. FileInv'
    BY <2>1 DEF FileInv
  <2>4. TypeOK'
    BY <1>0, <2>1, <2>2 DEF TypeOK, LocalsOK, Leave
  <2> QED
    BY <2>2, <2>3, <2>4 DEF LockInv
<1>9. ASSUME NEW p \in Proc, Crash(p) PROVE LockInv'
  <2>1. Leave(p, "idle") /\ UNCHANGED <<file, pinned, lastSaved, overlapped>>
        /\ cutShort' = (cutShort \/ pc[p] = "writing")
    BY <1>9 DEF Crash
  <2>2. Kept
    BY <2>1, LeaveCalls
  <2>3. FileInv'
    <3>1. CASE pc[p] = "writing"
      BY <2>1, <3>1 DEF FileInv
    <3>2. CASE pc[p] # "writing"
      <4>1. cutShort' = cutShort
        BY <1>0, <2>1, <3>2 DEF TypeOK
      <4> QED
        BY <1>0, <2>1, <3>2, <4>1, FileAlone DEF Leave, UnderWay
    <3> QED
      BY <3>1, <3>2
  <2>4. TypeOK'
    BY <1>0, <2>1, <2>2 DEF TypeOK, LocalsOK, Leave
  <2> QED
    BY <2>2, <2>3, <2>4 DEF LockInv
<1>10. CASE UNCHANGED vars
  <2>1. TypeOK' /\ FileInv'
    BY <1>0, <1>10 DEF vars, TypeOK, FileInv, SaveIsReadBack, Empty, NoPlugins
  <2>2. ASSUME NEW q \in Proc PROVE CallInv(q)'
    BY <1>0, <1>10, OtherCalls DEF vars
  <2> QED
    BY <2>1, <2>2 DEF LockInv
<1>11. ASSUME NEW p \in Proc, NEW D \in DeclLists, ResolvePlugins(p, D)
       PROVE  LockInv'
  BY <1>1, <1>11 DEF ResolvePlugins
<1>12. ASSUME NEW p \in Proc, NEW u \in URL,
              LockProfile(p, u) \/ GetLockedProfile(p, u)
       PROVE  LockInv'
  BY <1>1, <1>12, NoDecls DEF LockProfile, GetLockedProfile
<1>13. ASSUME NEW p \in Proc, LockProfileRejected(p) PROVE LockInv'
  BY <1>1, <1>13, NoDecls DEF LockProfileRejected
<1> QED
  BY <1>2, <1>3, <1>4, <1>5, <1>6, <1>7, <1>8, <1>9, <1>10, <1>11, <1>12,
     <1>13 DEF Next, Step

\* Whatever overlaps or fails, the calls of the lockfile service and their
\* file satisfy LockInv.
THEOREM LockInvariant == Spec => []LockInv
  BY Initially, LockStep, PTL DEF Spec

\* What a call of the lockfile service loads and what the file says are
\* entries that the validation accepts, whoever else writes the file.
THEOREM TypeCorrect == Spec => []TypeOK
<1>1. LockInv => TypeOK
  BY DEF LockInv
<1> QED
  BY <1>1, LockInvariant, PTL

\* ResolvePlugins writes back unchanged the entries it was not asked to
\* change, for every list of declarations.
THEOREM LocksAreKept == Spec => []SatisfiedLocksAreKept
<1>1. LockInv => SatisfiedLocksAreKept
  <2> SUFFICES ASSUME LockInv, NEW p \in Proc, NEW n \in Name,
                      pc[p] \in {"saving", "writing"},
                      \A d \in Declared(p, n) : Satisfied(loaded[p], d)
               PROVE  plugins[p][n] = loaded[p][n]
    BY DEF SatisfiedLocksAreKept
  <2>1. KeptSoFar(p) /\ at[p] = Len(decls[p]) + 1
        /\ \A i \in 1..(at[p] - 1) : decls[p][i] # BadDecl
    BY DEF LockInv, CallInv
  <2>2. DOMAIN decls[p] = 1..Len(decls[p]) /\ Len(decls[p]) \in Nat
    BY DeclListsAreSequences, BoundAssumption DEF LockInv, TypeOK
  <2>3. at[p] - 1 = Len(decls[p])
    BY <2>1, <2>2
  <2> QED
    BY <2>1, <2>2, <2>3 DEF KeptSoFar, Declared
<1> QED
  BY <1>1, LockInvariant, PTL

\* A ResolvePlugins that returns has locked the last constraint declared for
\* each plugin, for every list of declarations.
THEOREM LastIsLocked == Spec => []DeclaredIsLocked
<1>1. LockInv => DeclaredIsLocked
  <2> SUFFICES ASSUME LockInv, NEW p \in Proc, pc[p] = "done",
                      NEW i \in DOMAIN decls[p],
                      \A j \in DOMAIN decls[p] :
                          j > i => decls[p][j].name # decls[p][i].name
               PROVE  Satisfied(plugins[p], decls[p][i])
    BY DEF DeclaredIsLocked
  <2>1. LockedSoFar(p) /\ at[p] = Len(decls[p]) + 1
    BY DEF LockInv, CallInv
  <2>2. DOMAIN decls[p] = 1..Len(decls[p]) /\ Len(decls[p]) \in Nat
    BY DeclListsAreSequences, BoundAssumption DEF LockInv, TypeOK
  <2>3. at[p] - 1 = Len(decls[p])
    BY <2>1, <2>2
  <2> QED
    BY <2>1, <2>2, <2>3 DEF LockedSoFar
<1> QED
  BY <1>1, LockInvariant, PTL

\* FileLockfileRepository.Save: calls that do not overlap read back what the
\* last one saved, whatever fails before a truncation.
THEOREM ReadBack == Spec => []SaveIsReadBack
<1>1. LockInv => SaveIsReadBack
  BY DEF LockInv, FileInv, SaveIsReadBack
<1> QED
  BY <1>1, LockInvariant, PTL
=============================================================================
