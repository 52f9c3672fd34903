------------------------- MODULE Capability_proofs -------------------------
(***************************************************************************)
(* Proofs about the two halves of the capability system: Gatekeeper, which *)
(* grants, for any number of processes, any capabilities and any of the    *)
(* faults; and Policy, which decides on what was granted, for any grant    *)
(* sets, requests and number of goroutines.                                *)
(***************************************************************************)
EXTENDS Gatekeeper, Policy, TLAPS

USE KindAssumption, BroadAssumption, FaultsAssumption

-----------------------------------------------------------------------------
(* The gatekeeper: types.                                                  *)

LEMMA FileTypes ==
    /\ Absent \in Files /\ Torn \in Files /\ Truncated \in Files
    /\ \A S \in SUBSET Cap : Holding(S) \in Files
  BY DEF Absent, Torn, Truncated, Holding, Files

LEMMA WriteTypes ==
    ASSUME NEW S \in SUBSET Cap
    PROVE  AfterWrite(S) \subseteq Files /\ AfterShortWrite(S) \subseteq Files
  BY FileTypes DEF AfterWrite, AfterShortWrite

LEMMA LoadTypes ==
    ASSUME file \in Files
    PROVE  LoadOutcomes \subseteq SUBSET Cap
  BY DEF LoadOutcomes, Files

LEMMA TypeInit == Init => TypeOK
<1> SUFFICES ASSUME Init PROVE TypeOK
  OBVIOUS
<1>1. file \in Files /\ file.grants \in SUBSET Cap
  BY FileTypes DEF Init, Files
<1> QED BY <1>1 DEF Init, TypeOK

LEMMA TypeStep == TypeOK /\ [Next]_vars => TypeOK'
<1> SUFFICES ASSUME TypeOK, [Next]_vars
             PROVE  TypeOK'
  OBVIOUS
<1> USE DEF TypeOK, locals, history
<1>1. ASSUME NEW p \in Proc, NEW R \in SUBSET Cap, NEW t \in BOOLEAN,
             ReturnUnchecked(p, R, t)
      PROVE  TypeOK'
  BY <1>1 DEF ReturnUnchecked
<1>2. ASSUME NEW p \in Proc, NEW R \in SUBSET Cap, LoadGrants(p, R)
      PROVE  TypeOK'
  <2>1. PICK loaded \in SUBSET Cap :
           /\ existing' = [existing EXCEPT ![p] = loaded]
           /\ todo' = [todo EXCEPT ![p] = Missing(R, loaded)]
    BY <1>2, LoadTypes DEF LoadGrants
  <2> QED BY <1>2, <2>1 DEF LoadGrants, Missing
<1>3. ASSUME NEW p \in Proc, ReturnStored(p)
      PROVE  TypeOK'
  BY <1>3 DEF ReturnStored, Goto
<1>4. ASSUME NEW p \in Proc, RefuseNonInteractive(p)
      PROVE  TypeOK'
  BY <1>4 DEF RefuseNonInteractive, Goto
<1>5. ASSUME NEW p \in Proc, StartPrompts(p)
      PROVE  TypeOK'
  BY <1>5 DEF StartPrompts, Goto
<1>6. ASSUME NEW p \in Proc, NEW c \in todo[p], NEW d, GrantOne(p, c, d)
      PROVE  TypeOK'
  BY <1>6 DEF GrantOne, Goto
<1>7. ASSUME NEW p \in Proc, NEW c \in todo[p], NEW d, RefuseOne(p, c, d)
      PROVE  TypeOK'
  BY <1>7 DEF RefuseOne, Goto
<1>8. ASSUME NEW p \in Proc, ReturnSession(p)
      PROVE  TypeOK'
  BY <1>8 DEF ReturnSession, Goto
<1>9. ASSUME NEW p \in Proc, SaveTruncate(p)
      PROVE  TypeOK'
  BY <1>9, FileTypes DEF SaveTruncate, Goto
<1>10. ASSUME NEW p \in Proc, SaveFails(p)
       PROVE  TypeOK'
  BY <1>10 DEF SaveFails, Goto
<1>11. ASSUME NEW p \in Proc, SaveWrite(p)
       PROVE  TypeOK'
  BY <1>11, WriteTypes DEF SaveWrite, Goto
<1>12. ASSUME NEW p \in Proc, SaveShortWrite(p)
       PROVE  TypeOK'
  BY <1>12, WriteTypes DEF SaveShortWrite, Goto
<1>13. ASSUME NEW p \in Proc, Crash(p)
       PROVE  TypeOK'
  BY <1>13 DEF Crash
<1>14. CASE UNCHANGED vars
  BY <1>14 DEF vars
<1> QED BY <1>1, <1>2, <1>3, <1>4, <1>5, <1>6, <1>7, <1>8, <1>9, <1>10,
     <1>11, <1>12, <1>13, <1>14 DEF Next, Step

\* Every call keeps the gatekeeper's state well-formed; in particular the
\* grants file is always absent, whole or torn.
THEOREM TypeCorrect == Spec => []TypeOK
  BY TypeInit, TypeStep, PTL DEF Spec

-----------------------------------------------------------------------------
(* The store holds only what was approved.  A call carries the grants it   *)
(* loaded and those it has collected until it saves them, so these must be *)
(* approved as well.                                                       *)

Carrying == {"loaded", "prompting", "writing"}

TornSeen == file = Torn => wasTorn

CarriedApproved ==
    ~wasTorn => \A p \in Proc : pc[p] \in Carrying =>
                   existing[p] \subseteq approved /\ newGrants[p] \subseteq approved

ApprovedInv == TornSeen /\ StoreHoldsOnlyApproved /\ CarriedApproved

LEMMA ApprovedInit == Init => ApprovedInv
  BY DEF Init, ApprovedInv, TornSeen, StoreHoldsOnlyApproved,
     CarriedApproved, Carrying, Absent, Torn, Holding

LEMMA ApprovedStep == TypeOK /\ ApprovedInv /\ [Next]_vars => ApprovedInv'
<1> SUFFICES ASSUME TypeOK, ApprovedInv, [Next]_vars
             PROVE  ApprovedInv'
  OBVIOUS
<1> USE DEF TypeOK, locals, history, ApprovedInv, TornSeen,
            StoreHoldsOnlyApproved, CarriedApproved, Carrying
<1>1. ASSUME NEW p \in Proc, NEW R \in SUBSET Cap, NEW t \in BOOLEAN,
             ReturnUnchecked(p, R, t)
      PROVE  ApprovedInv'
  BY <1>1 DEF ReturnUnchecked
<1>2. ASSUME NEW p \in Proc, NEW R \in SUBSET Cap, LoadGrants(p, R)
      PROVE  ApprovedInv'
  <2>1. PICK loaded \in LoadOutcomes :
           existing' = [existing EXCEPT ![p] = loaded]
    BY <1>2 DEF LoadGrants
  <2>2. ~wasTorn => loaded \subseteq approved
    BY DEF LoadOutcomes
  <2> QED BY <1>2, <2>1, <2>2 DEF LoadGrants
<1>3. ASSUME NEW p \in Proc, ReturnStored(p)
      PROVE  ApprovedInv'
  BY <1>3 DEF ReturnStored, Goto
<1>4. ASSUME NEW p \in Proc, RefuseNonInteractive(p)
      PROVE  ApprovedInv'
  BY <1>4 DEF RefuseNonInteractive, Goto
<1>5. ASSUME NEW p \in Proc, StartPrompts(p)
      PROVE  ApprovedInv'
  BY <1>5 DEF StartPrompts, Goto
<1>6. ASSUME NEW p \in Proc, NEW c \in todo[p], NEW d, GrantOne(p, c, d)
      PROVE  ApprovedInv'
  <2>1. approved' = approved \cup {c} /\ UNCHANGED <<file, wasTorn, existing>>
    BY <1>6 DEF GrantOne
  <2>2. \A q \in Proc : pc'[q] \in Carrying => pc[q] \in Carrying
    BY <1>6 DEF GrantOne, Goto
  <2>3. \A q \in Proc : newGrants'[q] \subseteq newGrants[q] \cup {c}
    BY <1>6 DEF GrantOne
  <2> QED BY <2>1, <2>2, <2>3
<1>7. ASSUME NEW p \in Proc, NEW c \in todo[p], NEW d, RefuseOne(p, c, d)
      PROVE  ApprovedInv'
  BY <1>7 DEF RefuseOne, Goto
<1>8. ASSUME NEW p \in Proc, ReturnSession(p)
      PROVE  ApprovedInv'
  BY <1>8 DEF ReturnSession, Goto
<1>9. ASSUME NEW p \in Proc, SaveTruncate(p)
      PROVE  ApprovedInv'
  BY <1>9 DEF SaveTruncate, Goto, Truncated, Holding, Torn
<1>10. ASSUME NEW p \in Proc, SaveFails(p)
       PROVE  ApprovedInv'
  BY <1>10 DEF SaveFails, Goto
<1>11. ASSUME NEW p \in Proc, SaveWrite(p)
       PROVE  ApprovedInv'
  <2>1. file' = Torn \/ file' = Holding(newGrants[p])
    BY <1>11 DEF SaveWrite, AfterWrite
  <2>2. ~wasTorn => newGrants[p] \subseteq approved
    BY <1>11 DEF SaveWrite, Goto
  <2>3. TornSeen' /\ StoreHoldsOnlyApproved'
    <3>1. wasTorn' <=> wasTorn \/ file' = Torn
      BY <1>11 DEF SaveWrite
    <3>2. approved' = approved
      BY <1>11 DEF SaveWrite
    <3>3. Holding(newGrants[p]).grants = newGrants[p]
      BY DEF Holding
    <3> QED BY <2>1, <2>2, <3>1, <3>2, <3>3
  <2>4. CarriedApproved'
    BY <1>11 DEF SaveWrite, Goto
  <2> QED BY <2>3, <2>4
<1>12. ASSUME NEW p \in Proc, SaveShortWrite(p)
       PROVE  ApprovedInv'
  <2>1. file' = Torn \/ file' = Truncated
    BY <1>12 DEF SaveShortWrite, AfterShortWrite
  <2>2. TornSeen' /\ StoreHoldsOnlyApproved'
    <3>1. wasTorn' <=> wasTorn \/ file' = Torn
      BY <1>12 DEF SaveShortWrite
    <3>2. Truncated.grants = {}
      BY DEF Truncated, Holding
    <3> QED BY <2>1, <3>1, <3>2
  <2>3. CarriedApproved'
    BY <1>12 DEF SaveShortWrite, Goto
  <2> QED BY <2>2, <2>3
<1>13. ASSUME NEW p \in Proc, Crash(p)
       PROVE  ApprovedInv'
  BY <1>13 DEF Crash
<1>14. CASE UNCHANGED vars
  BY <1>14 DEF vars
<1> QED BY <1>1, <1>2, <1>3, <1>4, <1>5, <1>6, <1>7, <1>8, <1>9, <1>10,
     <1>11, <1>12, <1>13, <1>14 DEF Next, Step

\* However many processes share the grants file, and whenever they die,
\* a store whose writes were never torn holds only capabilities that some
\* call granted by prompt or by permissive policy.
THEOREM StoreApproved == Spec => []StoreHoldsOnlyApproved
<1>1. ApprovedInv => StoreHoldsOnlyApproved
  BY DEF ApprovedInv
<1> QED BY TypeInit, TypeStep, ApprovedInit, ApprovedStep, <1>1, PTL DEF Spec

-----------------------------------------------------------------------------
(* Nothing promptable is skipped: what a call requires is granted already, *)
(* stored, or still to be evaluated.                                       *)

Covered(p) ==
    /\ pc[p] = "loaded" => required[p] \subseteq existing[p] \cup todo[p]
    /\ pc[p] = "prompting" =>
          required[p] \cap Prompted \subseteq newGrants[p] \cup todo[p]
    /\ pc[p] \in {"writing", "done"} =>
          required[p] \cap Prompted \subseteq newGrants[p]

CoverInv == \A p \in Proc : Covered(p)

LEMMA CoverInit == Init => CoverInv
  BY DEF Init, CoverInv, Covered

LEMMA CoverStep == TypeOK /\ CoverInv /\ [Next]_vars => CoverInv'
<1> SUFFICES ASSUME TypeOK, CoverInv, [Next]_vars
             PROVE  CoverInv'
  OBVIOUS
<1> USE DEF TypeOK, locals, CoverInv, Covered
<1>1. ASSUME NEW p \in Proc, NEW R \in SUBSET Cap, NEW t \in BOOLEAN,
             ReturnUnchecked(p, R, t)
      PROVE  CoverInv'
  BY <1>1 DEF ReturnUnchecked
<1>2. ASSUME NEW p \in Proc, NEW R \in SUBSET Cap, LoadGrants(p, R)
      PROVE  CoverInv'
  <2>1. PICK loaded \in LoadOutcomes :
           /\ existing' = [existing EXCEPT ![p] = loaded]
           /\ todo' = [todo EXCEPT ![p] = Missing(R, loaded)]
    BY <1>2 DEF LoadGrants
  <2> QED BY <1>2, <2>1 DEF LoadGrants, Missing
<1>3. ASSUME NEW p \in Proc, ReturnStored(p)
      PROVE  CoverInv'
  BY <1>3 DEF ReturnStored, Goto
<1>4. ASSUME NEW p \in Proc, RefuseNonInteractive(p)
      PROVE  CoverInv'
  BY <1>4 DEF RefuseNonInteractive, Goto
<1>5. ASSUME NEW p \in Proc, StartPrompts(p)
      PROVE  CoverInv'
  BY <1>5 DEF StartPrompts, Goto
<1>6. ASSUME NEW p \in Proc, NEW c \in todo[p], NEW d, GrantOne(p, c, d)
      PROVE  CoverInv'
  BY <1>6 DEF GrantOne, Goto
<1>7. ASSUME NEW p \in Proc, NEW c \in todo[p], NEW d, RefuseOne(p, c, d)
      PROVE  CoverInv'
  BY <1>7 DEF RefuseOne, Goto
<1>8. ASSUME NEW p \in Proc, ReturnSession(p)
      PROVE  CoverInv'
  BY <1>8 DEF ReturnSession, Goto
<1>9. ASSUME NEW p \in Proc, SaveTruncate(p)
      PROVE  CoverInv'
  BY <1>9 DEF SaveTruncate, Goto
<1>10. ASSUME NEW p \in Proc, SaveFails(p)
       PROVE  CoverInv'
  BY <1>10 DEF SaveFails, Goto
<1>11. ASSUME NEW p \in Proc, SaveWrite(p)
       PROVE  CoverInv'
  BY <1>11 DEF SaveWrite, Goto
<1>12. ASSUME NEW p \in Proc, SaveShortWrite(p)
       PROVE  CoverInv'
  BY <1>12 DEF SaveShortWrite, Goto
<1>13. ASSUME NEW p \in Proc, Crash(p)
       PROVE  CoverInv'
  BY <1>13 DEF Crash
<1>14. CASE UNCHANGED vars
  BY <1>14 DEF vars
<1> HIDE DEF TypeOK, CoverInv
<1> QED BY <1>1, <1>2, <1>3, <1>4, <1>5, <1>6, <1>7, <1>8, <1>9, <1>10,
     <1>11, <1>12, <1>13, <1>14 DEF Next, Step

\* A call that returns nil error has every promptable capability that was
\* required of it, whether stored, prompted for or trusted.
THEOREM ResultCovers == Spec => []ResultCoversPrompted
<1>1. CoverInv => ResultCoversPrompted
  BY DEF CoverInv, Covered, ResultCoversPrompted
<1> QED BY TypeInit, TypeStep, CoverInit, CoverStep, <1>1, PTL DEF Spec

-----------------------------------------------------------------------------
(* The strict level.                                                       *)

LEMMA StrictInit == Init => StrictAddsNoBroad
  BY DEF Init, StrictAddsNoBroad

LEMMA StrictStep ==
    TypeOK /\ StrictAddsNoBroad /\ [Next]_vars => StrictAddsNoBroad'
<1> SUFFICES ASSUME TypeOK, StrictAddsNoBroad, [Next]_vars
             PROVE  StrictAddsNoBroad'
  OBVIOUS
<1> USE DEF TypeOK, locals, StrictAddsNoBroad
<1>1. ASSUME NEW p \in Proc, NEW R \in SUBSET Cap, NEW t \in BOOLEAN,
             ReturnUnchecked(p, R, t)
      PROVE  StrictAddsNoBroad'
  BY <1>1 DEF ReturnUnchecked
<1>2. ASSUME NEW p \in Proc, NEW R \in SUBSET Cap, LoadGrants(p, R)
      PROVE  StrictAddsNoBroad'
  <2>1. PICK loaded \in LoadOutcomes :
           existing' = [existing EXCEPT ![p] = loaded]
    BY <1>2 DEF LoadGrants
  <2> QED BY <1>2, <2>1 DEF LoadGrants
<1>3. ASSUME NEW p \in Proc, ReturnStored(p)
      PROVE  StrictAddsNoBroad'
  BY <1>3 DEF ReturnStored, Goto
<1>4. ASSUME NEW p \in Proc, RefuseNonInteractive(p)
      PROVE  StrictAddsNoBroad'
  BY <1>4 DEF RefuseNonInteractive, Goto
<1>5. ASSUME NEW p \in Proc, StartPrompts(p)
      PROVE  StrictAddsNoBroad'
  BY <1>5 DEF StartPrompts, Goto
<1>6. ASSUME NEW p \in Proc, NEW c \in todo[p], NEW d, GrantOne(p, c, d)
      PROVE  StrictAddsNoBroad'
  <2>1. level[p] = "strict" => c \notin Broad
    BY <1>6 DEF GrantOne, Evaluate
  <2> QED BY <1>6, <2>1 DEF GrantOne, Goto
<1>7. ASSUME NEW p \in Proc, NEW c \in todo[p], NEW d, RefuseOne(p, c, d)
      PROVE  StrictAddsNoBroad'
  BY <1>7 DEF RefuseOne, Goto
<1>8. ASSUME NEW p \in Proc, ReturnSession(p)
      PROVE  StrictAddsNoBroad'
  BY <1>8 DEF ReturnSession, Goto
<1>9. ASSUME NEW p \in Proc, SaveTruncate(p)
      PROVE  StrictAddsNoBroad'
  BY <1>9 DEF SaveTruncate, Goto
<1>10. ASSUME NEW p \in Proc, SaveFails(p)
       PROVE  StrictAddsNoBroad'
  BY <1>10 DEF SaveFails, Goto
<1>11. ASSUME NEW p \in Proc, SaveWrite(p)
       PROVE  StrictAddsNoBroad'
  BY <1>11 DEF SaveWrite, Goto
<1>12. ASSUME NEW p \in Proc, SaveShortWrite(p)
       PROVE  StrictAddsNoBroad'
  BY <1>12 DEF SaveShortWrite, Goto
<1>13. ASSUME NEW p \in Proc, Crash(p)
       PROVE  StrictAddsNoBroad'
  BY <1>13 DEF Crash
<1>14. CASE UNCHANGED vars
  BY <1>14 DEF vars
<1> HIDE DEF TypeOK, locals, StrictAddsNoBroad
<1> QED BY <1>1, <1>2, <1>3, <1>4, <1>5, <1>6, <1>7, <1>8, <1>9, <1>10,
     <1>11, <1>12, <1>13, <1>14 DEF Next, Step

\* At the strict level evaluateWithSecurityLevel lets no broad capability
\* in: the only ones a call returns are those the store already held.
THEOREM StrictHolds == Spec => []StrictAddsNoBroad
  BY TypeInit, TypeStep, StrictInit, StrictStep, PTL DEF Spec

-----------------------------------------------------------------------------
(* Durability.  A second writer may lose the first one's update, a crash  *)
(* after the truncation loses the file, and a Load that fails starts from  *)
(* nothing: disturbed records each of these.  As long as none happens, a   *)
(* call under way carries everything that was saved, and a writer has the  *)
(* store for itself.                                                       *)

Carries(p) ==
    /\ pc[p] = "loaded" => saved \subseteq existing[p]
    /\ pc[p] \in {"prompting", "writing"} => saved \subseteq newGrants[p]
    /\ pc[p] = "writing" => file = Truncated /\ Others(p) = {}

Durable ==
    /\ (\A p \in Proc : pc[p] # "writing") => saved \subseteq file.grants
    /\ \A p \in Proc : Carries(p)

DurableInv == ~disturbed => Durable

LEMMA DurableInit == Init => DurableInv
  BY DEF Init, DurableInv, Durable, Carries

\* What a step by p has to show when it does not touch the store: that p
\* still carries what was saved.  The other calls and a writer's privacy are
\* not affected.
LEMMA QuietStep ==
    ASSUME NEW p \in Proc, TypeOK, Durable,
           pc[p] # "writing", pc'[p] # "writing", AtRest(p) => AtRest(p)',
           file' = file, saved' = saved,
           \A q \in Proc \ {p} : /\ pc'[q] = pc[q]
                                 /\ existing'[q] = existing[q]
                                 /\ newGrants'[q] = newGrants[q],
           Carries(p)'
    PROVE  Durable'
<1>1. ASSUME NEW q \in Proc, q # p
      PROVE  Carries(q)'
  <2>1. Others(q)' \subseteq Others(q)
    BY <1>1 DEF Others, AtRest
  <2> QED BY <1>1, <2>1 DEF Durable, Carries
<1>2. (\A q \in Proc : pc'[q] # "writing")
          => \A q \in Proc : pc[q] # "writing"
  OBVIOUS
<1> QED BY <1>1, <1>2 DEF Durable

LEMMA DurableStep == TypeOK /\ DurableInv /\ [Next]_vars => DurableInv'
<1> SUFFICES ASSUME TypeOK, DurableInv, [Next]_vars, ~disturbed'
             PROVE  Durable'
  BY DEF DurableInv
<1>0. Durable
  BY DEF DurableInv, Next, Step, ReturnUnchecked, LoadGrants, ReturnStored,
     RefuseNonInteractive, StartPrompts, GrantOne, RefuseOne, ReturnSession,
     SaveTruncate, SaveFails, SaveWrite, SaveShortWrite, Crash, vars,
     history, TypeOK
<1>1. ASSUME NEW p \in Proc, NEW R \in SUBSET Cap, NEW t \in BOOLEAN,
             ReturnUnchecked(p, R, t)
      PROVE  Durable'
  <2>1. /\ pc[p] # "writing" /\ pc'[p] # "writing"
        /\ AtRest(p) => AtRest(p)'
        /\ file' = file /\ saved' = saved
        /\ \A q \in Proc \ {p} : /\ pc'[q] = pc[q]
                                 /\ existing'[q] = existing[q]
                                 /\ newGrants'[q] = newGrants[q]
    BY <1>1 DEF ReturnUnchecked, AtRest, TypeOK, locals, history
  <2>2. Carries(p)'
    BY <1>0, <1>1, <2>1 DEF ReturnUnchecked, Durable, Carries, TypeOK, locals,
       history, AtRest
  <2> QED BY <1>0, <2>1, <2>2, QuietStep
<1>2. ASSUME NEW p \in Proc, ReturnStored(p)
      PROVE  Durable'
  <2>1. /\ pc[p] # "writing" /\ pc'[p] # "writing"
        /\ AtRest(p) => AtRest(p)'
        /\ file' = file /\ saved' = saved
        /\ \A q \in Proc \ {p} : /\ pc'[q] = pc[q]
                                 /\ existing'[q] = existing[q]
                                 /\ newGrants'[q] = newGrants[q]
    BY <1>2 DEF ReturnStored, Goto, AtRest, TypeOK, locals, history
  <2>2. Carries(p)'
    BY <1>0, <1>2, <2>1 DEF ReturnStored, Goto, Durable, Carries, TypeOK, locals,
       history, AtRest
  <2> QED BY <1>0, <2>1, <2>2, QuietStep
<1>3. ASSUME NEW p \in Proc, RefuseNonInteractive(p)
      PROVE  Durable'
  <2>1. /\ pc[p] # "writing" /\ pc'[p] # "writing"
        /\ AtRest(p) => AtRest(p)'
        /\ file' = file /\ saved' = saved
        /\ \A q \in Proc \ {p} : /\ pc'[q] = pc[q]
                                 /\ existing'[q] = existing[q]
                                 /\ newGrants'[q] = newGrants[q]
    BY <1>3 DEF RefuseNonInteractive, Goto, AtRest, TypeOK, locals, history
  <2>2. Carries(p)'
    BY <1>0, <1>3, <2>1 DEF RefuseNonInteractive, Goto, Durable, Carries, TypeOK, locals,
       history, AtRest
  <2> QED BY <1>0, <2>1, <2>2, QuietStep
<1>4. ASSUME NEW p \in Proc, StartPrompts(p)
      PROVE  Durable'
  <2>1. /\ pc[p] # "writing" /\ pc'[p] # "writing"
        /\ AtRest(p) => AtRest(p)'
        /\ file' = file /\ saved' = saved
        /\ \A q \in Proc \ {p} : /\ pc'[q] = pc[q]
                                 /\ existing'[q] = existing[q]
                                 /\ newGrants'[q] = newGrants[q]
    BY <1>4 DEF StartPrompts, Goto, AtRest, TypeOK, locals, history
  <2>2. Carries(p)'
    BY <1>0, <1>4, <2>1 DEF StartPrompts, Goto, Durable, Carries, TypeOK, locals,
       history, AtRest
  <2> QED BY <1>0, <2>1, <2>2, QuietStep
<1>5. ASSUME NEW p \in Proc, NEW c \in todo[p], NEW d, GrantOne(p, c, d)
      PROVE  Durable'
  <2>1. /\ pc[p] # "writing" /\ pc'[p] # "writing"
        /\ AtRest(p) => AtRest(p)'
        /\ file' = file /\ saved' = saved
        /\ \A q \in Proc \ {p} : /\ pc'[q] = pc[q]
                                 /\ existing'[q] = existing[q]
                                 /\ newGrants'[q] = newGrants[q]
    BY <1>5 DEF GrantOne, Goto, AtRest, TypeOK, locals, history
  <2>2. Carries(p)'
    BY <1>0, <1>5, <2>1 DEF GrantOne, Goto, Durable, Carries, TypeOK, locals,
       history, AtRest
  <2> QED BY <1>0, <2>1, <2>2, QuietStep
<1>6. ASSUME NEW p \in Proc, NEW c \in todo[p], NEW d, RefuseOne(p, c, d)
      PROVE  Durable'
  <2>1. /\ pc[p] # "writing" /\ pc'[p] # "writing"
        /\ AtRest(p) => AtRest(p)'
        /\ file' = file /\ saved' = saved
        /\ \A q \in Proc \ {p} : /\ pc'[q] = pc[q]
                                 /\ existing'[q] = existing[q]
                                 /\ newGrants'[q] = newGrants[q]
    BY <1>6 DEF RefuseOne, Goto, AtRest, TypeOK, locals, history
  <2>2. Carries(p)'
    BY <1>0, <1>6, <2>1 DEF RefuseOne, Goto, Durable, Carries, TypeOK, locals,
       history, AtRest
  <2> QED BY <1>0, <2>1, <2>2, QuietStep
<1>7. ASSUME NEW p \in Proc, ReturnSession(p)
      PROVE  Durable'
  <2>1. /\ pc[p] # "writing" /\ pc'[p] # "writing"
        /\ AtRest(p) => AtRest(p)'
        /\ file' = file /\ saved' = saved
        /\ \A q \in Proc \ {p} : /\ pc'[q] = pc[q]
                                 /\ existing'[q] = existing[q]
                                 /\ newGrants'[q] = newGrants[q]
    BY <1>7 DEF ReturnSession, Goto, AtRest, TypeOK, locals, history
  <2>2. Carries(p)'
    BY <1>0, <1>7, <2>1 DEF ReturnSession, Goto, Durable, Carries, TypeOK, locals,
       history, AtRest
  <2> QED BY <1>0, <2>1, <2>2, QuietStep
<1>8. ASSUME NEW p \in Proc, SaveFails(p)
      PROVE  Durable'
  <2>1. /\ pc[p] # "writing" /\ pc'[p] # "writing"
        /\ AtRest(p) => AtRest(p)'
        /\ file' = file /\ saved' = saved
        /\ \A q \in Proc \ {p} : /\ pc'[q] = pc[q]
                                 /\ existing'[q] = existing[q]
                                 /\ newGrants'[q] = newGrants[q]
    BY <1>8 DEF SaveFails, Goto, AtRest, TypeOK, locals, history
  <2>2. Carries(p)'
    BY <1>0, <1>8, <2>1 DEF SaveFails, Goto, Durable, Carries, TypeOK, locals,
       history, AtRest
  <2> QED BY <1>0, <2>1, <2>2, QuietStep
<1>9. ASSUME NEW p \in Proc, Crash(p)
      PROVE  Durable'
  <2>1. /\ pc[p] # "writing" /\ pc'[p] # "writing"
        /\ AtRest(p) => AtRest(p)'
        /\ file' = file /\ saved' = saved
        /\ \A q \in Proc \ {p} : /\ pc'[q] = pc[q]
                                 /\ existing'[q] = existing[q]
                                 /\ newGrants'[q] = newGrants[q]
    BY <1>9 DEF Crash, AtRest, TypeOK, locals, history
  <2>2. Carries(p)'
    BY <1>0, <1>9, <2>1 DEF Crash, Durable, Carries, TypeOK, locals,
       history, AtRest
  <2> QED BY <1>0, <2>1, <2>2, QuietStep
<1>10. ASSUME NEW p \in Proc, NEW R \in SUBSET Cap, LoadGrants(p, R)
      PROVE  Durable'
  <2>1. /\ existing' = [existing EXCEPT ![p] = file.grants]
        /\ \A q \in Proc : pc[q] # "writing"
    BY <1>10 DEF LoadGrants, TypeOK
  <2>2. saved \subseteq file.grants
    BY <1>0, <2>1 DEF Durable
  <2>3. pc' = [pc EXCEPT ![p] = "loaded"] /\ file' = file /\ saved' = saved
    BY <1>10 DEF LoadGrants
  <2>4. \A q \in Proc \ {p} : newGrants'[q] = newGrants[q]
    BY <1>10 DEF LoadGrants, TypeOK
  <2>5. Carries(p)'
    BY <2>1, <2>2, <2>3 DEF Carries, TypeOK
  <2>6. \A q \in Proc \ {p} : Carries(q)'
    BY <1>0, <2>1, <2>3, <2>4 DEF Durable, Carries, TypeOK
  <2> QED BY <2>2, <2>3, <2>5, <2>6 DEF Durable
<1>11. ASSUME NEW p \in Proc, SaveTruncate(p)
      PROVE  Durable'
  <2>1. Others(p) = {} /\ pc[p] = "prompting"
    BY <1>11 DEF SaveTruncate, Goto, TypeOK
  <2>2. /\ pc' = [pc EXCEPT ![p] = "writing"]
        /\ file' = Truncated /\ saved' = saved /\ newGrants' = newGrants
    BY <1>11 DEF SaveTruncate, Goto, locals
  <2>3. \A q \in Proc \ {p} : pc'[q] \in {"idle", "done", "failed"}
    BY <2>1, <2>2 DEF Others, AtRest, TypeOK
  <2>4. Others(p)' = {}
    BY <2>3 DEF Others, AtRest
  <2>5. Carries(p)'
    BY <1>0, <2>1, <2>2, <2>4 DEF Durable, Carries, TypeOK
  <2>6. \A q \in Proc \ {p} : Carries(q)'
    BY <2>3 DEF Carries
  <2> QED BY <2>2, <2>5, <2>6 DEF Durable, TypeOK
<1>12. ASSUME NEW p \in Proc, SaveWrite(p)
      PROVE  Durable'
  <2>1. file = Truncated /\ Others(p) = {} /\ saved \subseteq newGrants[p]
    BY <1>0, <1>12 DEF SaveWrite, Goto, Durable, Carries
  <2>2. file'.grants = newGrants[p]
    BY <1>12, <2>1 DEF SaveWrite, AfterWrite, Holding
  <2>3. saved' \subseteq newGrants[p]
    BY <1>12, <2>1 DEF SaveWrite
  <2>4. \A q \in Proc : pc'[q] \in {"idle", "done", "failed"}
    BY <1>12, <2>1 DEF SaveWrite, Goto, Others, AtRest, TypeOK
  <2>5. \A q \in Proc : Carries(q)'
    BY <2>4 DEF Carries
  <2> QED BY <2>2, <2>3, <2>5 DEF Durable
<1>13. ASSUME NEW p \in Proc, SaveShortWrite(p)
      PROVE  Durable'
  BY <1>13 DEF SaveShortWrite
<1>14. CASE UNCHANGED vars
  BY <1>0, <1>14 DEF vars, Durable, Carries, Others, AtRest
<1> QED BY <1>1, <1>2, <1>3, <1>4, <1>5, <1>6, <1>7, <1>8, <1>9,
     <1>10, <1>11, <1>12, <1>13, <1>14 DEF Next, Step

\* "Always grant (save to config)" is durable for any number of processes:
\* until a save meets another call under way, a load meets a save or fails,
\* or a save is cut short, no Save drops what an earlier one has written.
THEOREM SavedSurvives == Spec => []SavedGrantsSurvive
<1>1. DurableInv => SavedGrantsSurvive
  BY DEF DurableInv, Durable, SavedGrantsSurvive
<1> QED BY TypeInit, TypeStep, DurableInit, DurableStep, <1>1, PTL DEF Spec

-----------------------------------------------------------------------------
(* The policy engine.  What is compiled permits what the rules say.        *)

LEMMA PortsCompile ==
  ASSUME NEW spec \in PortSpec
  PROVE  compilePorts(spec) \subseteq portRange
<1>1. 0 \in Number /\ MaxPort \in Number /\ MaxInt \in Number
  BY PortAssumption DEF Number
<1>2. CASE spec = Star
  BY <1>1, <1>2 DEF compilePorts, portRange
<1>3. CASE spec # Star /\ Len(spec) \in {1, 2}
  <2>1. spec \in Seq(Part)
    BY <1>3 DEF PortSpec
  <2>2. spec[1] \in Part /\ spec[Len(spec)] \in Part
    BY <1>3, <2>1
  <2>3. Atoi(spec[1]) \in Number /\ Atoi(spec[Len(spec)]) \in Number
    BY <1>1, <2>2 DEF Atoi, Part
  <2> QED
    BY <1>3, <2>3 DEF compilePorts, portRange
<1>4. CASE spec # Star /\ Len(spec) \notin {1, 2}
  BY <1>4 DEF compilePorts
<1> QED
  BY <1>2, <1>3, <1>4

\* A well-formed specification compiles to the ports it names.
LEMMA PortsMatch ==
  ASSUME NEW spec \in PortSpec, WellFormed(spec), NEW port \in Number
  PROVE  (\E s \in compilePorts(spec) : port \in s.min..s.max)
            <=> Names(spec, port)
<1>1. CASE spec = Star
  BY <1>1, PortAssumption DEF compilePorts, Names, Number
<1>2. CASE spec # Star
  <2>1. spec \in Seq(Part) /\ Len(spec) \in {1, 2}
        /\ \A i \in DOMAIN spec : spec[i] \in Number
    BY <1>2 DEF PortSpec, WellFormed
  <2>2. spec[1] \in Number /\ spec[Len(spec)] \in Number
    BY <2>1
  <2>3. spec[1] \in Nat /\ spec[Len(spec)] \in Nat /\ port \in Nat
    BY <2>2, PortAssumption DEF Number
  <2>4. Atoi(spec[1]) = spec[1] /\ Atoi(spec[Len(spec)]) = spec[Len(spec)]
    BY <2>2, PortAssumption DEF Atoi
  <2>5. compilePorts(spec) = {[min |-> spec[1], max |-> spec[Len(spec)]]}
    BY <1>2, <2>1, <2>4 DEF compilePorts
  <2>6. (\E s \in compilePorts(spec) : port \in s.min..s.max)
           <=> spec[1] <= port /\ port <= spec[Len(spec)]
    BY <2>3, <2>5
  <2> QED
    BY <1>2, <2>1, <2>3, <2>6 DEF Names
<1> QED
  BY <1>1, <1>2

\* The compiled form of one rule.
Compiled(r) == [r EXCEPT !.patterns = @ \cap ValidPattern,
                         !.ports = UNION {compilePorts(s) : s \in @}]

LEMMA CompiledRule ==
  ASSUME NEW r \in Rule(Pattern, PortSpec)
  PROVE  /\ Compiled(r) \in Rule(ValidPattern, portRange)
         /\ Compiled(r).kind = r.kind /\ Compiled(r).op = r.op
         /\ Compiled(r).patterns = r.patterns \cap ValidPattern
         /\ Compiled(r).ports = UNION {compilePorts(s) : s \in r.ports}
<1> DEFINE pats == r.patterns \cap ValidPattern
           prts == UNION {compilePorts(s) : s \in r.ports}
<1>1. r.ports \subseteq PortSpec /\ r.patterns \subseteq Pattern
  BY DEF Rule
<1>2. prts \subseteq portRange
  BY <1>1, PortsCompile
<1>3. pats \subseteq ValidPattern
  OBVIOUS
<1>4. Compiled(r) = [r EXCEPT !.patterns = pats, !.ports = prts]
  BY DEF Compiled
<1> HIDE DEF pats, prts
<1>5. /\ Compiled(r) \in Rule(ValidPattern, portRange)
      /\ Compiled(r).kind = r.kind /\ Compiled(r).op = r.op
      /\ Compiled(r).patterns = pats /\ Compiled(r).ports = prts
  BY <1>2, <1>3, <1>4 DEF Rule
<1> QED
  BY <1>5 DEF pats, prts

LEMMA CompileTypes ==
  ASSUME NEW G \in GrantSets
  PROVE  compile(G) \in SUBSET Rule(ValidPattern, portRange)
<1>1. \A r \in G : Compiled(r) \in Rule(ValidPattern, portRange)
  BY CompiledRule, GrantSetsAssumption
<1> QED
  BY <1>1 DEF compile, Compiled

\* Evaluation of what was compiled, against the rules as written.
LEMMA EvaluateIsPermits ==
  ASSUME NEW G \in GrantSets, NEW q \in Requests,
         \A r \in G : \A s \in r.ports : WellFormed(s)
  PROVE  EvaluateRules(compile(G), q) <=> Permits(G, q)
<1>1. compile(G) = {Compiled(r) : r \in G}
  BY DEF compile, Compiled
<1>2. \A r \in G : r \in Rule(Pattern, PortSpec)
  BY GrantSetsAssumption
<1>3. q.port \in Number
  BY RequestsAssumption DEF Request
<1>4. ASSUME NEW r \in G
      PROVE  (\E s \in Compiled(r).ports : q.port \in s.min..s.max)
                <=> (\E s \in r.ports : Names(s, q.port))
  <2>1. \A s \in r.ports : s \in PortSpec /\ WellFormed(s)
    BY <1>2 DEF Rule
  <2>2. \A s \in r.ports :
           (\E t \in compilePorts(s) : q.port \in t.min..t.max)
              <=> Names(s, q.port)
    BY <1>3, <2>1, PortsMatch
  <2>3. Compiled(r).ports = UNION {compilePorts(s) : s \in r.ports}
    BY <1>2, CompiledRule
  <2>4. (\E t \in Compiled(r).ports : q.port \in t.min..t.max) <=>
           (\E s \in r.ports :
               \E t \in compilePorts(s) : q.port \in t.min..t.max)
    BY <2>3
  <2> QED
    BY <2>2, <2>4
<1>5. ASSUME NEW r \in G
      PROVE  /\ Compiled(r).kind = r.kind
             /\ OpAllowed(Compiled(r), q) <=> q.op \in Operations(r)
             /\ Compiled(r).patterns = r.patterns \cap ValidPattern
  <2>1. /\ Compiled(r).kind = r.kind /\ Compiled(r).op = r.op
        /\ Compiled(r).patterns = r.patterns \cap ValidPattern
    BY <1>2, CompiledRule
  <2>2. r.kind \in RuleKinds /\ r.op \in Ops
    BY <1>2 DEF Rule
  <2>3. q.op \in {"any", "read", "write"}
    BY RequestsAssumption DEF Request
  <2>4. OpAllowed(Compiled(r), q) <=> q.op \in Operations(r)
    BY <2>1, <2>2, <2>3 DEF OpAllowed, Operations, RuleKinds, Ops
  <2> QED
    BY <2>1, <2>4
<1> DEFINE Allows(r) ==
        /\ Compiled(r).kind = q.kind
        /\ OpAllowed(Compiled(r), q)
        /\ \E p \in Compiled(r).patterns : <<p, Subject(q)>> \in Match
        /\ q.kind = "network" =>
              \E s \in Compiled(r).ports : q.port \in s.min..s.max
    Says(r) ==
        \E p \in ValidPattern :
            /\ r.kind = q.kind
            /\ p \in r.patterns /\ <<p, Subject(q)>> \in Match
            /\ q.op \in Operations(r)
            /\ q.kind = "network" => \E s \in r.ports : Names(s, q.port)
<1>6. \A r \in G : Allows(r) <=> Says(r)
  BY <1>4, <1>5
<1>7. EvaluateRules(compile(G), q) <=> Answerable(q) /\ \E r \in G : Allows(r)
  BY <1>1 DEF EvaluateRules
<1>8. Permits(G, q) <=> Answerable(q) /\ \E r \in G : Says(r)
  BY DEF Permits
<1> QED
  BY <1>6, <1>7, <1>8

-----------------------------------------------------------------------------
(* The cache.                                                              *)

\* What was compiled came from the address it is for, and, unless the grant
\* set has changed since, from what is there now.
FromAddress(o, C) ==
    /\ \E G \in held[o] : C = compile(G)
    /\ o \notin changed => C = compile(content[o])

Compiling(g) ==
    IF stage[g] = "idle" THEN ptr[g] = NoObj
    ELSE ptr[g] \in Obj /\ FromAddress(ptr[g], copy[g])

DecidedOn(d) ==
    IF d.obj = NoObj THEN ~d.allowed
    ELSE \E G \in held[d.obj] :
            /\ d.obj \notin changed => compile(G) = compile(content[d.obj])
            /\ d.allowed <=> EvaluateRules(compile(G), d.req)

PolicyInv ==
    /\ PolicyTypeOK
    /\ \A o \in Obj : content[o] \in held[o]
    /\ \A o \in Obj : \A C \in cache[o] : FromAddress(o, C)
    /\ \A g \in Goroutine : Compiling(g)
    /\ \A d \in last : DecidedOn(d)

\* The primed forms, with the primes on the variables.
LEMMA FromAddressPrimed ==
  ASSUME NEW o, NEW C
  PROVE  FromAddress(o, C)' <=>
            /\ \E G \in held'[o] : C = compile(G)
            /\ o \notin changed' => C = compile(content'[o])
  BY DEF FromAddress, compile

LEMMA CompilingPrimed ==
  ASSUME NEW g
  PROVE  Compiling(g)' <=>
            IF stage'[g] = "idle" THEN ptr'[g] = NoObj
            ELSE /\ ptr'[g] \in Obj
                 /\ \E G \in held'[ptr'[g]] : copy'[g] = compile(G)
                 /\ ptr'[g] \notin changed' =>
                        copy'[g] = compile(content'[ptr'[g]])
  BY DEF Compiling, FromAddress, compile

LEMMA DecidedOnPrimed ==
  ASSUME NEW d
  PROVE  DecidedOn(d)' <=>
            IF d.obj = NoObj THEN ~d.allowed
            ELSE \E G \in held'[d.obj] :
                    /\ d.obj \notin changed' =>
                          compile(G) = compile(content'[d.obj])
                    /\ d.allowed <=> EvaluateRules(compile(G), d.req)
  BY DEF DecidedOn, compile, EvaluateRules

LEMMA DecisionTypes ==
  ASSUME NEW o, NEW q, NEW ok
  PROVE  /\ Decision(o, q, ok).obj = o /\ Decision(o, q, ok).req = q
         /\ Decision(o, q, ok).allowed = ok
         /\ o \in Obj \cup {NoObj} /\ q \in Requests /\ ok \in BOOLEAN =>
               Decision(o, q, ok) \in [obj : Obj \cup {NoObj},
                                       req : Requests, allowed : BOOLEAN]
  BY DEF Decision

\* A decision taken now on something compiled for the address.
LEMMA DecisionNow ==
  ASSUME NEW o \in Obj, NEW C, NEW q, FromAddress(o, C),
         UNCHANGED <<content, held, changed>>,
         NEW d, d = Decision(o, q, EvaluateRules(C, q))
  PROVE  DecidedOn(d)'
<1>1. PICK G \in held[o] : C = compile(G)
  BY DEF FromAddress
<1>2. o # NoObj /\ d.obj = o /\ d.req = q
      /\ d.allowed = EvaluateRules(C, q)
  BY NoObjAssumption, DecisionTypes
<1>3. o \notin changed => compile(G) = compile(content[o])
  BY <1>1 DEF FromAddress
<1> QED
  BY <1>1, <1>2, <1>3, DecidedOnPrimed

LEMMA PolicyInitially == PolicyInit => PolicyInv
<1> SUFFICES ASSUME PolicyInit PROVE PolicyInv
  OBVIOUS
<1>1. PolicyTypeOK
  BY DEF PolicyInit, PolicyTypeOK
<1> QED
  BY <1>1 DEF PolicyInit, PolicyInv, Compiling

LEMMA PolicyStep == PolicyInv /\ [PolicyNext]_policyVars => PolicyInv'
<1> SUFFICES ASSUME PolicyInv, [PolicyNext]_policyVars PROVE PolicyInv'
  OBVIOUS
<1>0. /\ PolicyTypeOK
      /\ \A o \in Obj : content[o] \in held[o]
      /\ \A o \in Obj : \A C \in cache[o] : FromAddress(o, C)
      /\ \A g \in Goroutine : Compiling(g)
      /\ \A d \in last : DecidedOn(d)
  BY DEF PolicyInv
<1> DEFINE Contents == UNCHANGED <<content, held, changed>>
<1>1. ASSUME Contents
      PROVE  /\ \A o \in Obj : content'[o] \in held'[o]
             /\ \A o \in Obj : \A C \in cache[o] : FromAddress(o, C)'
             /\ \A g \in Goroutine :
                   UNCHANGED <<stage[g], ptr[g], copy[g]>> => Compiling(g)'
             /\ \A d \in last : DecidedOn(d)'
  BY <1>0, <1>1, FromAddressPrimed, CompilingPrimed, DecidedOnPrimed
     DEF FromAddress, Compiling, DecidedOn
<1>2. ASSUME NEW g \in Goroutine, NEW q \in Requests, EvaluateNil(g, q)
      PROVE  PolicyInv'
  <2>1. Contents /\ UNCHANGED <<cache, stage, ptr, copy>>
        /\ last' = {Decision(NoObj, q, FALSE)}
    BY <1>2 DEF EvaluateNil
  <2>2. ASSUME NEW d \in last' PROVE DecidedOn(d)'
    <3>1. d = Decision(NoObj, q, FALSE)
      BY <2>1
    <3>2. d.obj = NoObj /\ d.allowed = FALSE
      BY <3>1 DEF Decision
    <3> QED
      BY <3>2, DecidedOnPrimed
  <2>3. Decision(NoObj, q, FALSE)
            \in [obj : Obj \cup {NoObj}, req : Requests, allowed : BOOLEAN]
    BY DEF Decision
  <2>4. PolicyTypeOK'
    BY <1>0, <2>1, <2>3 DEF PolicyTypeOK
  <2> QED
    BY <1>1, <2>1, <2>2, <2>4 DEF PolicyInv
<1>3. ASSUME NEW g \in Goroutine, NEW q \in Requests, NEW o \in Obj,
             CacheHit(g, o, q)
      PROVE  PolicyInv'
  <2>1. Contents /\ UNCHANGED <<cache, stage, ptr, copy>>
    BY <1>3 DEF CacheHit
  <2>2. PICK C \in cache[o] : last' = {Decision(o, q, EvaluateRules(C, q))}
    BY <1>3 DEF CacheHit
  <2>3. \A d \in last' : DecidedOn(d)'
    BY <1>0, <2>1, <2>2, DecisionNow
  <2>4. EvaluateRules(C, q) \in BOOLEAN
    BY DEF EvaluateRules
  <2>5. PolicyTypeOK'
    BY <1>0, <2>1, <2>2, <2>4, DecisionTypes DEF PolicyTypeOK
  <2> QED
    BY <1>1, <2>1, <2>3, <2>5 DEF PolicyInv
<1>4. ASSUME NEW g \in Goroutine, NEW o \in Obj, CacheMiss(g, o)
      PROVE  PolicyInv'
  <2>1. Contents /\ UNCHANGED <<cache, last>>
        /\ stage' = [stage EXCEPT ![g] = "store"]
        /\ ptr' = [ptr EXCEPT ![g] = o]
        /\ copy' = [copy EXCEPT ![g] = compile(content[o])]
    BY <1>4 DEF CacheMiss
  <2>2. compile(content[o]) \in SUBSET Rule(ValidPattern, portRange)
    BY <1>0, CompileTypes DEF PolicyTypeOK
  <2>3. PolicyTypeOK'
    BY <1>0, <2>1, <2>2 DEF PolicyTypeOK
  <2>4. stage'[g] = "store" /\ ptr'[g] = o /\ copy'[g] = compile(content[o])
    BY <1>0, <2>1 DEF PolicyTypeOK
  <2>5. Compiling(g)'
    BY <1>0, <2>1, <2>4, CompilingPrimed
  <2>6. \A h \in Goroutine :
           h # g => UNCHANGED <<stage[h], ptr[h], copy[h]>>
    BY <1>0, <2>1 DEF PolicyTypeOK
  <2> QED
    BY <1>1, <2>1, <2>3, <2>5, <2>6 DEF PolicyInv
<1>5. ASSUME NEW g \in Goroutine, NEW q \in Requests, CacheStore(g, q)
      PROVE  PolicyInv'
  <2>1. Contents /\ stage[g] = "store"
        /\ stage' = [stage EXCEPT ![g] = "idle"]
        /\ cache' = [cache EXCEPT ![ptr[g]] = {copy[g]}]
        /\ last' = {Decision(ptr[g], q, EvaluateRules(copy[g], q))}
        /\ ptr' = [ptr EXCEPT ![g] = NoObj]
        /\ copy' = [copy EXCEPT ![g] = {}]
    BY <1>5 DEF CacheStore
  <2>2. ptr[g] \in Obj /\ FromAddress(ptr[g], copy[g])
        /\ copy[g] \in SUBSET Rule(ValidPattern, portRange)
    BY <1>0, <2>1 DEF Compiling, PolicyTypeOK
  <2>3. EvaluateRules(copy[g], q) \in BOOLEAN
    BY DEF EvaluateRules
  <2>4. PolicyTypeOK'
    BY <1>0, <2>1, <2>2, <2>3, DecisionTypes DEF PolicyTypeOK
  <2>5. \A d \in last' : DecidedOn(d)'
    BY <2>1, <2>2, DecisionNow
  <2>6. \A o \in Obj : \A C \in cache'[o] : FromAddress(o, C)'
    <3> TAKE o \in Obj
    <3> TAKE C \in cache'[o]
    <3>1. CASE o = ptr[g]
      <4>1. C = copy[g]
        BY <1>0, <2>1, <3>1 DEF PolicyTypeOK
      <4> QED
        BY <2>1, <2>2, <3>1, <4>1, FromAddressPrimed DEF FromAddress
    <3>2. CASE o # ptr[g]
      BY <1>0, <1>1, <2>1, <3>2 DEF PolicyTypeOK
    <3> QED
      BY <3>1, <3>2
  <2>7. stage'[g] = "idle" /\ ptr'[g] = NoObj
    BY <1>0, <2>1 DEF PolicyTypeOK
  <2>8. Compiling(g)'
    BY <2>7, CompilingPrimed
  <2>9. \A h \in Goroutine :
           h # g => UNCHANGED <<stage[h], ptr[h], copy[h]>>
    BY <1>0, <2>1 DEF PolicyTypeOK
  <2> QED
    BY <1>1, <2>1, <2>4, <2>5, <2>6, <2>8, <2>9 DEF PolicyInv
<1>6. ASSUME NEW o \in Obj, NEW G \in GrantSets, Mutate(o, G)
      PROVE  PolicyInv'
  <2>1. /\ UNCHANGED <<cache, stage, ptr, copy>>
        /\ content' = [content EXCEPT ![o] = G]
        /\ held' = [held EXCEPT ![o] = @ \cup {G}]
        /\ last' = {d \in last : d.obj # o}
        /\ changed' \in {changed, changed \cup {o}}
        /\ (cache[o] # {} \/ \E g \in Goroutine : ptr[g] = o) => o \in changed'
    BY <1>6 DEF Mutate
  <2>2. content \in [Obj -> GrantSets] /\ held \in [Obj -> SUBSET GrantSets]
    BY <1>0 DEF PolicyTypeOK
  <2>3. /\ content' \in [Obj -> GrantSets]
        /\ content'[o] = G
        /\ \A u \in Obj : u # o => content'[u] = content[u]
    BY <2>1, <2>2
  <2>4. held[o] \cup {G} \in SUBSET GrantSets
    BY <2>2
  <2>5. /\ held' \in [Obj -> SUBSET GrantSets]
        /\ held'[o] = held[o] \cup {G}
        /\ \A u \in Obj : u # o => held'[u] = held[u]
    BY <2>1, <2>2, <2>4
  <2>6. PolicyTypeOK'
    BY <1>0, <2>1, <2>3, <2>5 DEF PolicyTypeOK
  <2>7. ASSUME NEW u \in Obj PROVE content'[u] \in held'[u]
    BY <1>0, <2>3, <2>5
  <2>8. ASSUME NEW u \in Obj, NEW C \in cache'[u] PROVE FromAddress(u, C)'
    <3>1. FromAddress(u, C) /\ (u = o => u \in changed')
          /\ (u \notin changed' => u \notin changed)
      BY <1>0, <2>1, <2>8
    <3> QED
      BY <2>3, <2>5, <3>1, FromAddressPrimed DEF FromAddress
  <2>9. ASSUME NEW g \in Goroutine PROVE Compiling(g)'
    <3>1. Compiling(g) /\ (ptr[g] = o => o \in changed')
          /\ (ptr[g] \notin changed' => ptr[g] \notin changed)
      BY <1>0, <2>1
    <3>2. CASE stage[g] = "idle"
      BY <2>1, <3>1, <3>2, CompilingPrimed DEF Compiling
    <3>3. CASE stage[g] # "idle"
      <4>1. ptr[g] \in Obj /\ FromAddress(ptr[g], copy[g])
        BY <3>1, <3>3 DEF Compiling
      <4>2. FromAddress(ptr[g], copy[g])
            /\ \E H \in held'[ptr[g]] : copy[g] = compile(H)
        BY <2>5, <4>1 DEF FromAddress
      <4>3. ptr[g] \notin changed' => copy[g] = compile(content'[ptr[g]])
        BY <2>3, <3>1, <4>1 DEF FromAddress
      <4> QED
        BY <2>1, <3>3, <4>1, <4>2, <4>3, CompilingPrimed
    <3> QED
      BY <3>2, <3>3
  <2>10. ASSUME NEW d \in last' PROVE DecidedOn(d)'
    <3>1. DecidedOn(d) /\ d.obj # o /\ d.obj \in Obj \cup {NoObj}
          /\ (d.obj \notin changed' => d.obj \notin changed)
      BY <1>0, <2>1 DEF PolicyTypeOK
    <3>2. CASE d.obj = NoObj
      BY <3>1, <3>2, DecidedOnPrimed DEF DecidedOn
    <3>3. CASE d.obj # NoObj
      <4>1. held'[d.obj] = held[d.obj] /\ content'[d.obj] = content[d.obj]
        BY <2>3, <2>5, <3>1, <3>3
      <4> QED
        BY <3>1, <3>3, <4>1, DecidedOnPrimed DEF DecidedOn
    <3> QED
      BY <3>2, <3>3
  <2> QED
    BY <2>6, <2>7, <2>8, <2>9, <2>10 DEF PolicyInv
<1>7. CASE UNCHANGED policyVars
  <2>1. PolicyTypeOK'
    BY <1>0, <1>7 DEF policyVars, PolicyTypeOK
  <2>2. Contents /\ UNCHANGED <<cache, stage, ptr, copy, last>>
    BY <1>7 DEF policyVars
  <2> QED
    BY <1>1, <2>1, <2>2 DEF PolicyInv
<1> QED
  BY <1>2, <1>3, <1>4, <1>5, <1>6, <1>7 DEF PolicyNext

\* However goroutines race through getCompiled while owners change their
\* grant sets in place, PolicyInv holds.
THEOREM PolicyInvariant == PolicySpec => []PolicyInv
  BY PolicyInitially, PolicyStep, PTL DEF PolicySpec

\* The engine's cache holds compiled rules with port ranges, for any grant
\* sets and any number of goroutines.
THEOREM PolicyTypesHold == PolicySpec => []PolicyTypeOK
<1>1. PolicyInv => PolicyTypeOK
  BY DEF PolicyInv
<1> QED
  BY <1>1, PolicyInvariant, PTL

\* EvaluateNetwork and its siblings decide what the rules as written permit,
\* as long as the grant set is not changed after its first use.
THEOREM DecisionsMatch == PolicySpec => []DecisionMatchesGrants
<1>1. PolicyInv => DecisionMatchesGrants
  <2> SUFFICES ASSUME PolicyInv, NEW d \in last, d.obj # NoObj,
                      d.obj \notin changed,
                      \A r \in content[d.obj] :
                          \A s \in r.ports : WellFormed(s)
               PROVE  d.allowed <=> Permits(content[d.obj], d.req)
    BY DEF PolicyInv, DecidedOn, DecisionMatchesGrants
  <2>1. d.obj \in Obj /\ d.req \in Requests /\ content[d.obj] \in GrantSets
    BY DEF PolicyInv, PolicyTypeOK
  <2>2. d.allowed <=> EvaluateRules(compile(content[d.obj]), d.req)
    BY DEF PolicyInv, DecidedOn
  <2> QED
    BY <2>1, <2>2, EvaluateIsPermits
<1> QED
  BY <1>1, PolicyInvariant, PTL

\* getCompiled never decides on a grant set that was not at the address it
\* was asked about, even when that grant set is changed meanwhile.
THEOREM DecisionsWereTrue == PolicySpec => []DecisionWasOnceTrue
<1>1. PolicyInv => DecisionWasOnceTrue
  BY DEF PolicyInv, DecidedOn, DecisionWasOnceTrue
<1> QED
  BY <1>1, PolicyInvariant, PTL
=============================================================================
