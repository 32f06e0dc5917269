------------------------ MODULE SessionServerProofs ------------------------
(***************************************************************************)
(* Proofs about SessionServer, for every number of call slots, ids and     *)
(* every cap: the types, the admission accounting and the session cap; and *)
(* who refers to a Session: it is never used after its drop, and the audit *)
(* log closes it once.                                                     *)
(***************************************************************************)
EXTENDS SessionServer, FiniteSetTheorems, TLAPS

-----------------------------------------------------------------------------
(* Counting. *)

LEMMA CountAdd ==
  ASSUME NEW S, IsFiniteSet(S), NEW x, x \notin S
  PROVE  /\ IsFiniteSet(S \cup {x})
         /\ Cardinality(S \cup {x}) = Cardinality(S) + 1
         /\ Cardinality(S) \in Nat
BY FS_AddElement, FS_CardinalityType

LEMMA CountRemove ==
  ASSUME NEW S, IsFiniteSet(S), NEW x \in S
  PROVE  /\ IsFiniteSet(S \ {x})
         /\ Cardinality(S \ {x}) = Cardinality(S) - 1
         /\ Cardinality(S) \in Nat /\ Cardinality(S \ {x}) \in Nat
BY FS_RemoveElement, FS_CardinalityType

\* The sets the invariant counts are finite, so their cardinalities are numbers.
LEMMA Counted ==
  ASSUME TypeOK
  PROVE  /\ IsFiniteSet(sessions) /\ Cardinality(sessions) \in Nat
         /\ IsFiniteSet(Claimants) /\ Cardinality(Claimants) \in Nat
         /\ IsFiniteSet(Admitted) /\ Cardinality(Admitted) \in Nat
<1>1. sessions \in SUBSET Ids /\ Claimants \in SUBSET Calls /\ Admitted \in SUBSET Calls
  BY DEF TypeOK, Claimants, Admitted
<1>. QED  BY <1>1, ConstantsAssumption, FS_Subset, FS_CardinalityType

\* An admitted call is a claimant, so admission never counts more.
LEMMA AdmittedAreClaimants ==
  ASSUME TypeOK
  PROVE  Cardinality(Admitted) <= Cardinality(Claimants)
<1>1. Admitted \in SUBSET Claimants
  BY DEF Admitted, Claimants
<1>. QED  BY <1>1, Counted, FS_Subset

\* How a step of call c to point p changes the two sets of calls.
LEMMA CallMoves ==
  ASSUME TypeOK, NEW c \in Calls, NEW p \in Points, Goto(c, p)
  PROVE  /\ Claimants' = IF p \in {"rejecting", "building", "inserting", "releasing"}
                         THEN Claimants \cup {c} ELSE Claimants \ {c}
         /\ Admitted' = IF p \in {"building", "inserting", "releasing"}
                        THEN Admitted \cup {c} ELSE Admitted \ {c}
BY DEF TypeOK, Goto, Claimants, Admitted

-----------------------------------------------------------------------------
(* The initial state. *)

LEMMA InitAdmission == Init => AdmissionInv
<1>. SUFFICES ASSUME Init PROVE AdmissionInv
  OBVIOUS
<1>1. TypeOK
  BY ConstantsAssumption DEF Init, TypeOK, Points, Kinds, Outcomes, Shells
<1>2. ReaperInv /\ InsertInv /\ FreshInv
  BY ConstantsAssumption DEF Init, ReaperInv, InsertInv, FreshInv
<1>3. sessions = {} /\ Claimants = {} /\ Admitted = {} /\ live = 0
  BY DEF Init, Claimants, Admitted
<1>4. LiveAccounting /\ CapRespected
  BY <1>3, FS_EmptySet, ConstantsAssumption DEF LiveAccounting, CapRespected
<1>. QED  BY <1>1, <1>2, <1>4 DEF AdmissionInv

-----------------------------------------------------------------------------
(* The accounting, action by action. *)

LEMMA AccountingStep ==
  ASSUME AdmissionInv, Next
  PROVE  live' \in Nat /\ LiveAccounting' /\ CapRespected'
<1>. DEFINE Balanced == live' \in Nat /\ LiveAccounting' /\ CapRespected'
<1>. TypeOK /\ ReaperInv /\ InsertInv /\ LiveAccounting /\ CapRespected
  BY DEF AdmissionInv
<1>0. live \in Nat /\ MaxSessions \in Nat
  BY ConstantsAssumption DEF TypeOK
\* A call that neither registers nor claims anything before or after its step.
<1>a. ASSUME NEW c \in Calls, NEW p \in Points, Goto(c, p),
             pc[c] \notin {"rejecting", "building", "inserting", "releasing"},
             p \notin {"rejecting", "building", "inserting", "releasing"},
             UNCHANGED <<sessions, live>>
      PROVE  Balanced
  <2>1. Claimants' = Claimants /\ Admitted' = Admitted
    BY <1>a, CallMoves DEF Claimants, Admitted
  <2>. QED  BY <1>a, <1>0, <2>1 DEF LiveAccounting, CapRespected
\* A step that moves no call and leaves the registry alone.
<1>b. ASSUME UNCHANGED <<sessions, live, pc>> PROVE Balanced
  BY <1>b, <1>0 DEF LiveAccounting, CapRespected, Claimants, Admitted
<1>1. ASSUME NEW c \in Calls, Create(c) PROVE Balanced
  <2>1. CASE CreateStart(c)
    BY <2>1, <1>a DEF CreateStart, Points
  <2>2. CASE ReapProbe(c) \/ ReapTry(c)
    BY <2>2, <1>b DEF ReapProbe, ReapTry, registry
  <2>3. CASE ReapSelected(c) \/ ReapDone(c)
    BY <2>3, <1>a DEF ReapSelected, ReapDone, registry, Points
  <2>4. CASE ReapRemove(c)
    <3>1. PICK i \in victims : sessions' = sessions \ {i} /\ live' = live - 1 /\ pc' = pc
      BY <2>4 DEF ReapRemove
    <3>2. i \in sessions
      BY <3>1 DEF ReaperInv
    <3>3. Claimants' = Claimants /\ Admitted' = Admitted
      BY <3>1 DEF Claimants, Admitted
    <3>4. Cardinality(sessions') = Cardinality(sessions) - 1
      BY <3>1, <3>2, Counted, CountRemove
    <3>5. Cardinality(sessions') \in Nat
      BY <3>1, <3>2, Counted, CountRemove
    <3>. QED
      BY <3>1, <3>3, <3>4, <3>5, <1>0, Counted DEF LiveAccounting, CapRespected
  <2>5. CASE Reserve(c)
    <3>1. pc[c] = "reserve" /\ live' = live + 1 /\ sessions' = sessions
      BY <2>5 DEF Reserve
    <3>2. c \notin Claimants /\ c \notin Admitted
      BY <3>1 DEF Claimants, Admitted
    <3>3. CASE live >= MaxSessions
      <4>1. Goto(c, "rejecting")
        BY <2>5, <3>3 DEF Reserve
      <4>2. Claimants' = Claimants \cup {c} /\ Admitted' = Admitted
        BY <4>1, <3>2, CallMoves DEF Points
      <4>3. Cardinality(Claimants') = Cardinality(Claimants) + 1
        BY <3>2, <4>2, Counted, CountAdd
      <4>. QED
        BY <3>1, <4>2, <4>3, <1>0, Counted DEF LiveAccounting, CapRespected
    <3>4. CASE ~(live >= MaxSessions)
      <4>1. Goto(c, "building")
        BY <2>5, <3>4 DEF Reserve
      <4>2. Claimants' = Claimants \cup {c} /\ Admitted' = Admitted \cup {c}
        BY <4>1, CallMoves DEF Points
      <4>3. Cardinality(sessions) + Cardinality(Admitted) < MaxSessions
        BY <3>4, <1>0, AdmittedAreClaimants, Counted DEF LiveAccounting
      <4>4. /\ Cardinality(Claimants') = Cardinality(Claimants) + 1
            /\ Cardinality(Admitted') = Cardinality(Admitted) + 1
        BY <3>2, <4>2, Counted, CountAdd
      <4>. QED
        BY <3>1, <4>3, <4>4, <1>0, Counted DEF LiveAccounting, CapRespected
    <3>. QED  BY <3>3, <3>4
  <2>6. CASE Reject(c) \/ BuildFailed(c)
    <3>1. /\ c \in Claimants /\ live' = live - 1 /\ sessions' = sessions
          /\ Goto(c, "idle")
      BY <2>6 DEF Reject, BuildFailed, Claimants
    <3>2. Claimants' = Claimants \ {c} /\ Admitted' = Admitted \ {c}
      BY <3>1, CallMoves DEF Points
    <3>3. Cardinality(Admitted') \in Nat /\ Cardinality(Admitted') <= Cardinality(Admitted)
      BY <3>2, Counted, FS_Subset, FS_CardinalityType
    <3>4. /\ Cardinality(Claimants') = Cardinality(Claimants) - 1
          /\ Cardinality(Claimants') \in Nat
      BY <3>1, <3>2, Counted, CountRemove
    <3>. QED
      BY <3>1, <3>3, <3>4, <1>0, Counted DEF LiveAccounting, CapRespected
  <2>7. CASE Built(c)
    <3>1. c \in Claimants /\ c \in Admitted /\ UNCHANGED <<sessions, live>> /\ Goto(c, "inserting")
      BY <2>7 DEF Built, registry, Claimants, Admitted
    <3>2. Claimants' = Claimants /\ Admitted' = Admitted
      BY <3>1, CallMoves DEF Points
    <3>. QED  BY <3>1, <3>2, <1>0 DEF LiveAccounting, CapRespected
  <2>8. CASE Insert(c)
    <3>1. /\ c \in Claimants /\ c \in Admitted /\ live' = live /\ Goto(c, "idle")
          /\ target[c] \notin sessions /\ sessions' = sessions \cup {target[c]}
      BY <2>8 DEF Insert, Claimants, Admitted, InsertInv
    <3>2. Claimants' = Claimants \ {c} /\ Admitted' = Admitted \ {c}
      BY <3>1, CallMoves DEF Points
    <3>3. Cardinality(sessions') = Cardinality(sessions) + 1
      BY <3>1, Counted, CountAdd
    <3>4. /\ Cardinality(Claimants') = Cardinality(Claimants) - 1
          /\ Cardinality(Admitted') = Cardinality(Admitted) - 1
      BY <3>1, <3>2, Counted, CountRemove
    <3>. QED
      BY <3>1, <3>3, <3>4, <1>0, Counted DEF LiveAccounting, CapRespected
  <2>. QED
    BY <1>1, <2>1, <2>2, <2>3, <2>4, <2>5, <2>6, <2>7, <2>8 DEF Create
<1>2. ASSUME NEW c \in Calls, Use(c) PROVE Balanced
  <2>1. CASE Lookup(c)
    BY <2>1, <1>a DEF Lookup, registry, Points
  <2>2. CASE Touch(c) \/ LockSession(c) \/ CommandDone(c)
    BY <2>2, <1>a DEF Touch, LockSession, CommandDone, registry, Points
  <2>3. CASE Leave(c) \/ ReportAlive(c)
    BY <2>3, <1>a DEF Leave, ReportAlive, Answer, registry, Points
  <2>4. CASE ExecFinish(c) \/ MaintenanceFinish(c)
    BY <2>4, <1>a DEF ExecFinish, MaintenanceFinish, Answer, registry, Points
  <2>5. CASE CloseDead(c)
    <3>1. CASE target[c] \in sessions
      <4>1. sessions' = sessions \ {target[c]} /\ live' = live - 1
        BY <2>5, <3>1 DEF CloseDead
      <4>2. Claimants' = Claimants /\ Admitted' = Admitted
        BY <2>5, CallMoves DEF CloseDead, Answer, Points, Claimants, Admitted
      <4>3. /\ Cardinality(sessions') = Cardinality(sessions) - 1
            /\ Cardinality(sessions') \in Nat
        BY <3>1, <4>1, Counted, CountRemove
      <4>. QED
        BY <4>1, <4>2, <4>3, <1>0, Counted DEF LiveAccounting, CapRespected
    <3>2. CASE target[c] \notin sessions
      BY <2>5, <3>2, <1>a DEF CloseDead, Answer, Points
    <3>. QED  BY <3>1, <3>2
  <2>. QED  BY <1>2, <2>1, <2>2, <2>3, <2>4, <2>5 DEF Use
<1>3. ASSUME NEW c \in Calls, Destroy(c) PROVE Balanced
  <2>1. PICK i \in sessions : sessions' = sessions \ {i}
    BY <1>3 DEF Destroy
  <2>2. c \notin Claimants /\ c \notin Admitted /\ live' = live /\ Goto(c, "releasing")
    BY <1>3 DEF Destroy, Claimants, Admitted
  <2>3. Claimants' = Claimants \cup {c} /\ Admitted' = Admitted \cup {c}
    BY <2>2, CallMoves DEF Points
  <2>4. Cardinality(sessions') = Cardinality(sessions) - 1
    BY <2>1, Counted, CountRemove
  <2>5. /\ Cardinality(Claimants') = Cardinality(Claimants) + 1
        /\ Cardinality(Admitted') = Cardinality(Admitted) + 1
    BY <2>2, <2>3, Counted, CountAdd
  <2>. QED
    BY <2>2, <2>4, <2>5, <1>0, Counted DEF LiveAccounting, CapRespected
<1>4. ASSUME NEW c \in Calls, DestroyRelease(c) PROVE Balanced
  <2>1. /\ c \in Claimants /\ c \in Admitted /\ live' = live - 1 /\ sessions' = sessions
        /\ Goto(c, "idle")
    BY <1>4 DEF DestroyRelease, Claimants, Admitted
  <2>2. Claimants' = Claimants \ {c} /\ Admitted' = Admitted \ {c}
    BY <2>1, CallMoves DEF Points
  <2>3. /\ Cardinality(Claimants') = Cardinality(Claimants) - 1
        /\ Cardinality(Admitted') = Cardinality(Admitted) - 1
        /\ Cardinality(Claimants') \in Nat /\ Cardinality(Admitted') \in Nat
    BY <2>1, <2>2, Counted, CountRemove
  <2>. QED
    BY <2>1, <2>3, <1>0, Counted DEF LiveAccounting, CapRespected
<1>5. ASSUME NEW i \in Ids, SpawnedDrop(i) \/ Age(i) PROVE Balanced
  BY <1>5, <1>b DEF SpawnedDrop, Age, registry
<1>. QED  BY <1>1, <1>2, <1>3, <1>4, <1>5 DEF Next

-----------------------------------------------------------------------------
(* The types. live' \in Nat, that the counter never wraps below zero, comes  *)
(* from the accounting; the rest follows action by action.                  *)

LEMMA TypeStep ==
  ASSUME AdmissionInv, Next, live' \in Nat
  PROVE  TypeOK'
<1>. TypeOK /\ InsertInv
  BY DEF AdmissionInv
<1>. USE DEF TypeOK, Goto, Answer, Points
<1>1. ASSUME NEW c \in Calls, Create(c) PROVE TypeOK'
  <2>1. CASE CreateStart(c)
    BY <2>1 DEF CreateStart, entries
  <2>2. CASE ReapProbe(c) \/ ReapTry(c)
    BY <2>2 DEF ReapProbe, ReapTry, registry, entries
  <2>3. CASE ReapSelected(c) \/ ReapDone(c)
    BY <2>3 DEF ReapSelected, ReapDone, registry, entries, reaper
  <2>4. CASE ReapRemove(c)
    BY <2>4 DEF ReapRemove
  <2>5. CASE Reserve(c) \/ Reject(c) \/ BuildFailed(c)
    BY <2>5 DEF Reserve, Reject, BuildFailed, entries, reaper
  <2>6. CASE Built(c)
    BY <2>6 DEF Built, registry, reaper, Shells
  <2>7. CASE Insert(c)
    BY <2>7 DEF Insert, InsertInv, entries, reaper
  <2>. QED  BY <1>1, <2>1, <2>2, <2>3, <2>4, <2>5, <2>6, <2>7 DEF Create
<1>2. ASSUME NEW c \in Calls, Use(c) PROVE TypeOK'
  <2>1. CASE Lookup(c)
    BY <2>1 DEF Lookup, registry, entries, reaper, Kinds
  <2>2. CASE Touch(c)
    BY <2>2 DEF Touch, registry, reaper
  <2>3. CASE LockSession(c)
    BY <2>3 DEF LockSession, registry, reaper
  <2>4. CASE Leave(c)
    BY <2>4 DEF Leave, DropArcs, registry, reaper, Kinds, Outcomes, Shells
  <2>5. CASE CommandDone(c)
    BY <2>5 DEF CommandDone, registry, reaper, Outcomes
  <2>6. CASE ExecFinish(c)
    BY <2>6 DEF ExecFinish, DropArcs, registry, reaper, Shells
  <2>7. CASE MaintenanceFinish(c)
    BY <2>7 DEF MaintenanceFinish, DropArcs, registry, reaper, Kinds, Outcomes, Shells
  <2>8. CASE ReportAlive(c)
    BY <2>8 DEF ReportAlive, registry, entries, reaper, Kinds, Outcomes
  <2>9. CASE CloseDead(c)
    BY <2>9 DEF CloseDead, reaper, Kinds, Outcomes
  <2>. QED  BY <1>2, <2>1, <2>2, <2>3, <2>4, <2>5, <2>6, <2>7, <2>8, <2>9 DEF Use
<1>3. ASSUME NEW c \in Calls, Destroy(c) \/ DestroyRelease(c) PROVE TypeOK'
  BY <1>3 DEF Destroy, DestroyRelease, entries, reaper
<1>4. ASSUME NEW i \in Ids, SpawnedDrop(i) \/ Age(i) PROVE TypeOK'
  BY <1>4 DEF SpawnedDrop, Age, registry, reaper, Shells
<1>. QED  BY <1>1, <1>2, <1>3, <1>4 DEF Next

-----------------------------------------------------------------------------
(* The reaper. Only the call at "reaping" or "sweeping" holds the map lock,  *)
(* and every removal by another call waits for the lock.                    *)

LEMMA ReaperStep ==
  ASSUME AdmissionInv, Next
  PROVE  ReaperInv'
<1>. TypeOK /\ ReaperInv
  BY DEF AdmissionInv
<1>. USE ConstantsAssumption DEF TypeOK, ReaperInv, Goto, Answer, MapFree
<1>1. ASSUME NEW c \in Calls, Create(c) PROVE ReaperInv'
  <2>1. CASE CreateStart(c)
    BY <2>1 DEF CreateStart
  <2>2. CASE ReapProbe(c) \/ ReapTry(c)
    BY <2>2 DEF ReapProbe, ReapTry, registry
  <2>3. CASE ReapSelected(c)
    BY <2>3 DEF ReapSelected, registry, reaper
  <2>4. CASE ReapRemove(c)
    BY <2>4 DEF ReapRemove
  <2>5. CASE ReapDone(c)
    BY <2>5 DEF ReapDone, reaper
  <2>6. CASE Reserve(c) \/ Reject(c) \/ BuildFailed(c)
    BY <2>6 DEF Reserve, Reject, BuildFailed, reaper
  <2>7. CASE Built(c) \/ Insert(c)
    BY <2>7 DEF Built, Insert, registry, reaper
  <2>. QED  BY <1>1, <2>1, <2>2, <2>3, <2>4, <2>5, <2>6, <2>7 DEF Create
<1>2. ASSUME NEW c \in Calls, Use(c) PROVE ReaperInv'
  <2>1. CASE Lookup(c) \/ Touch(c) \/ Leave(c) \/ LockSession(c)
    BY <2>1 DEF Lookup, Touch, Leave, LockSession, registry, reaper
  <2>2. CASE CommandDone(c) \/ ExecFinish(c) \/ MaintenanceFinish(c) \/ ReportAlive(c)
    BY <2>2 DEF CommandDone, ExecFinish, MaintenanceFinish, ReportAlive, registry, reaper
  <2>3. CASE CloseDead(c)
    BY <2>3 DEF CloseDead, reaper
  <2>. QED  BY <1>2, <2>1, <2>2, <2>3 DEF Use
<1>3. ASSUME NEW c \in Calls, Destroy(c) \/ DestroyRelease(c) PROVE ReaperInv'
  BY <1>3 DEF Destroy, DestroyRelease, reaper
<1>4. ASSUME NEW i \in Ids, SpawnedDrop(i) \/ Age(i) PROVE ReaperInv'
  BY <1>4 DEF SpawnedDrop, Age, registry, reaper
<1>. QED  BY <1>1, <1>2, <1>3, <1>4 DEF Next

-----------------------------------------------------------------------------
(* Fresh ids: the id a build mints is nobody's target and not registered,   *)
(* and stays so until its own call inserts it.                              *)

LEMMA FreshStep ==
  ASSUME AdmissionInv, Next
  PROVE  InsertInv' /\ FreshInv'
<1>. TypeOK /\ InsertInv /\ FreshInv
  BY DEF AdmissionInv
<1>. USE ConstantsAssumption DEF TypeOK, InsertInv, FreshInv, Goto, Answer
<1>1. ASSUME NEW c \in Calls, Create(c) PROVE InsertInv' /\ FreshInv'
  <2>1. CASE CreateStart(c) \/ ReapProbe(c) \/ ReapTry(c)
    BY <2>1 DEF CreateStart, ReapProbe, ReapTry, registry, entries
  <2>2. CASE ReapSelected(c) \/ ReapRemove(c) \/ ReapDone(c)
    BY <2>2 DEF ReapSelected, ReapRemove, ReapDone, registry, entries
  <2>3. CASE Reserve(c) \/ Reject(c) \/ BuildFailed(c)
    BY <2>3 DEF Reserve, Reject, BuildFailed, entries
  <2>4. CASE Built(c)
    BY <2>4 DEF Built, registry
  <2>5. CASE Insert(c)
    BY <2>5 DEF Insert, entries
  <2>. QED  BY <1>1, <2>1, <2>2, <2>3, <2>4, <2>5 DEF Create
<1>2. ASSUME NEW c \in Calls, Use(c) PROVE InsertInv' /\ FreshInv'
  <2>1. CASE Lookup(c)
    BY <2>1 DEF Lookup, registry, entries
  <2>2. CASE Touch(c) \/ LockSession(c) \/ CommandDone(c)
    BY <2>2 DEF Touch, LockSession, CommandDone, registry
  <2>3. CASE Leave(c)
    BY <2>3 DEF Leave, DropArcs, registry
  <2>4. CASE ExecFinish(c)
    BY <2>4 DEF ExecFinish, DropArcs, registry
  <2>5. CASE MaintenanceFinish(c)
    BY <2>5 DEF MaintenanceFinish, DropArcs, registry
  <2>6. CASE ReportAlive(c) \/ CloseDead(c)
    BY <2>6 DEF ReportAlive, CloseDead, registry, entries
  <2>. QED  BY <1>2, <2>1, <2>2, <2>3, <2>4, <2>5, <2>6 DEF Use
<1>3. ASSUME NEW c \in Calls, Destroy(c) \/ DestroyRelease(c)
      PROVE  InsertInv' /\ FreshInv'
  BY <1>3 DEF Destroy, DestroyRelease, entries
<1>4. ASSUME NEW i \in Ids, SpawnedDrop(i) \/ Age(i) PROVE InsertInv' /\ FreshInv'
  BY <1>4 DEF SpawnedDrop, Age, registry
<1>. QED  BY <1>1, <1>2, <1>3, <1>4 DEF Next

-----------------------------------------------------------------------------
(* The theorems. *)

LEMMA AdmissionStutters ==
  AdmissionInv /\ UNCHANGED vars => AdmissionInv'
BY DEF AdmissionInv, vars, TypeOK, ReaperInv, InsertInv, FreshInv, LiveAccounting,
       CapRespected, Claimants, Admitted

\* The inductive invariant of the admission counter (session_create,
\* session_destroy, session_exec's cleanup, reap_idle).
THEOREM AdmissionCorrect == Spec => []AdmissionInv
<1>1. AdmissionInv /\ [Next]_vars => AdmissionInv'
  BY AdmissionStutters, AccountingStep, TypeStep, ReaperStep, FreshStep DEF AdmissionInv
<1>. QED  BY InitAdmission, <1>1, PTL DEF Spec

\* Every variable keeps its type; the admission counter never goes below zero.
THEOREM TypeCorrect == Spec => []TypeOK
<1>1. AdmissionInv => TypeOK
  BY DEF AdmissionInv
<1>. QED  BY <1>1, AdmissionCorrect, PTL

\* The counter is the number of registered sessions and of units in transit.
THEOREM AccountingCorrect == Spec => []LiveAccounting
<1>1. AdmissionInv => LiveAccounting
  BY DEF AdmissionInv
<1>. QED  BY <1>1, AdmissionCorrect, PTL

\* Concurrent creates never exceed max_sessions together with what is registered.
THEOREM CapCorrect == Spec => []CapRespected
<1>1. AdmissionInv => CapRespected
  BY DEF AdmissionInv
<1>. QED  BY <1>1, AdmissionCorrect, PTL
-----------------------------------------------------------------------------
(* The lifetime of a Session. *)

LEMMA InitRegistry == Init => RegistryInv
<1>. SUFFICES ASSUME Init PROVE RegistryInv
  OBVIOUS
<1>1. AdmissionInv
  BY InitAdmission
<1>2. RefsUp /\ ArcsInv /\ HolderInv /\ ReleaseInv /\ ClosedOnce
  BY ConstantsAssumption DEF Init, RefsUp, ArcsInv, HolderInv, ReleaseInv, ClosedOnce
<1>. QED  BY <1>1, <1>2 DEF RegistryInv

-----------------------------------------------------------------------------
(* References. An Arc moves from the map to a call, from a call to a drop    *)
(* task, or is cloned while one exists; the last one takes the shell along. *)

\* What a call that drops its Arcs leaves behind is up if something refers to it.
LEMMA DropKeepsReferred ==
  ASSUME TypeOK, RefsUp, NEW c \in Calls, NEW where, DropArcs(c, where),
         UNCHANGED <<sessions, dropping>>
  PROVE  RefsUp'
<1>. SUFFICES ASSUME NEW i \in Ids,
                     i \in sessions' \cup dropping' \/ \E d \in Calls : i \in arcs'[d]
              PROVE  shell'[i] = "up"
  BY DEF RefsUp
<1>1. arcs' = [arcs EXCEPT ![c] = {}]
  BY DEF DropArcs
<1>2. i \in sessions \cup dropping \/ \E d \in Calls \ {c} : i \in arcs[d]
  BY <1>1 DEF TypeOK
<1>3. shell[i] = "up"
  BY <1>2 DEF RefsUp
<1>4. ~LastArc(c, i)
  BY <1>2 DEF LastArc
<1>. QED  BY <1>3, <1>4 DEF DropArcs

LEMMA RefsStep ==
  ASSUME RegistryInv, Next
  PROVE  RefsUp'
<1>. TypeOK /\ ReaperInv /\ InsertInv /\ RefsUp /\ ArcsInv
  BY DEF RegistryInv, AdmissionInv
<1>. USE ConstantsAssumption DEF TypeOK, RefsUp, Goto, Answer
<1>1. ASSUME NEW c \in Calls, Create(c) PROVE RefsUp'
  <2>1. CASE CreateStart(c) \/ ReapProbe(c) \/ ReapTry(c) \/ ReapSelected(c)
    BY <2>1 DEF CreateStart, ReapProbe, ReapTry, ReapSelected, registry, entries
  <2>2. CASE ReapRemove(c)
    BY <2>2 DEF ReapRemove, ReaperInv
  <2>3. CASE ReapDone(c)
    BY <2>3 DEF ReapDone, entries
  <2>4. CASE Reserve(c) \/ Reject(c) \/ BuildFailed(c)
    BY <2>4 DEF Reserve, Reject, BuildFailed, entries
  <2>5. CASE Built(c)
    BY <2>5 DEF Built, registry
  <2>6. CASE Insert(c)
    BY <2>6 DEF Insert, entries, ArcsInv
  <2>. QED  BY <1>1, <2>1, <2>2, <2>3, <2>4, <2>5, <2>6 DEF Create
<1>2. ASSUME NEW c \in Calls, Use(c) PROVE RefsUp'
  <2>1. CASE Lookup(c)
    BY <2>1 DEF Lookup, registry, entries
  <2>2. CASE Touch(c) \/ LockSession(c) \/ CommandDone(c) \/ ReportAlive(c)
    BY <2>2 DEF Touch, LockSession, CommandDone, ReportAlive, registry, entries
  <2>3. CASE Leave(c) \/ ExecFinish(c) \/ MaintenanceFinish(c)
    BY <2>3, DropKeepsReferred DEF Leave, ExecFinish, MaintenanceFinish, registry
  <2>4. CASE CloseDead(c)
    BY <2>4 DEF CloseDead
  <2>. QED  BY <1>2, <2>1, <2>2, <2>3, <2>4 DEF Use
<1>3. ASSUME NEW c \in Calls, Destroy(c) \/ DestroyRelease(c) PROVE RefsUp'
  BY <1>3 DEF Destroy, DestroyRelease, entries
<1>4. ASSUME NEW i \in Ids, SpawnedDrop(i) \/ Age(i) PROVE RefsUp'
  BY <1>4 DEF SpawnedDrop, Age, registry
<1>. QED  BY <1>1, <1>2, <1>3, <1>4 DEF Next

LEMMA ArcsStep ==
  ASSUME RegistryInv, Next
  PROVE  ArcsInv' /\ HolderInv'
<1>. TypeOK /\ ArcsInv /\ HolderInv
  BY DEF RegistryInv, AdmissionInv
<1>. USE ConstantsAssumption DEF TypeOK, ArcsInv, HolderInv, Goto, Answer
<1>1. ASSUME NEW c \in Calls, Create(c) PROVE ArcsInv' /\ HolderInv'
  <2>1. CASE CreateStart(c) \/ ReapProbe(c) \/ ReapTry(c) \/ ReapSelected(c)
    BY <2>1 DEF CreateStart, ReapProbe, ReapTry, ReapSelected, registry, entries
  <2>2. CASE ReapRemove(c) \/ ReapDone(c)
    BY <2>2 DEF ReapRemove, ReapDone, entries
  <2>3. CASE Reserve(c) \/ Reject(c) \/ BuildFailed(c)
    BY <2>3 DEF Reserve, Reject, BuildFailed, entries
  <2>4. CASE Built(c)
    BY <2>4 DEF Built, registry
  <2>5. CASE Insert(c)
    BY <2>5 DEF Insert, entries
  <2>. QED  BY <1>1, <2>1, <2>2, <2>3, <2>4, <2>5 DEF Create
<1>2. ASSUME NEW c \in Calls, Use(c) PROVE ArcsInv' /\ HolderInv'
  <2>1. CASE Lookup(c)
    BY <2>1 DEF Lookup, registry, entries
  <2>2. CASE Touch(c)
    BY <2>2 DEF Touch, registry
  <2>3. CASE Leave(c)
    BY <2>3 DEF Leave, DropArcs, registry
  <2>4. CASE LockSession(c)
    BY <2>4 DEF LockSession, registry
  <2>5. CASE CommandDone(c)
    BY <2>5 DEF CommandDone, registry
  <2>6. CASE ExecFinish(c)
    BY <2>6 DEF ExecFinish, DropArcs, registry
  <2>7. CASE MaintenanceFinish(c)
    BY <2>7 DEF MaintenanceFinish, DropArcs, registry
  <2>8. CASE ReportAlive(c) \/ CloseDead(c)
    BY <2>8 DEF ReportAlive, CloseDead, registry, entries
  <2>. QED  BY <1>2, <2>1, <2>2, <2>3, <2>4, <2>5, <2>6, <2>7, <2>8 DEF Use
<1>3. ASSUME NEW c \in Calls, Destroy(c) \/ DestroyRelease(c)
      PROVE  ArcsInv' /\ HolderInv'
  BY <1>3 DEF Destroy, DestroyRelease, entries
<1>4. ASSUME NEW i \in Ids, SpawnedDrop(i) \/ Age(i) PROVE ArcsInv' /\ HolderInv'
  BY <1>4 DEF SpawnedDrop, Age, registry
<1>. QED  BY <1>1, <1>2, <1>3, <1>4 DEF Next

-----------------------------------------------------------------------------
(* Removal. The call that takes an entry out of the map is the only one that *)
(* audits its close; with `inserting`, the ids in transit have one owner.     *)

LEMMA ReleaseStep ==
  ASSUME RegistryInv, Next
  PROVE  ReleaseInv'
<1>. TypeOK /\ InsertInv /\ ReleaseInv
  BY DEF RegistryInv, AdmissionInv
<1>. USE ConstantsAssumption DEF TypeOK, ReleaseInv, Goto, Answer
<1>1. ASSUME NEW c \in Calls, Create(c) PROVE ReleaseInv'
  <2>1. CASE CreateStart(c) \/ ReapProbe(c) \/ ReapTry(c) \/ ReapSelected(c)
    BY <2>1 DEF CreateStart, ReapProbe, ReapTry, ReapSelected, registry
  <2>2. CASE ReapRemove(c) \/ ReapDone(c)
    BY <2>2 DEF ReapRemove, ReapDone
  <2>3. CASE Reserve(c) \/ Reject(c) \/ BuildFailed(c) \/ Built(c)
    BY <2>3 DEF Reserve, Reject, BuildFailed, Built, registry
  <2>4. CASE Insert(c)
    BY <2>4 DEF Insert, InsertInv
  <2>. QED  BY <1>1, <2>1, <2>2, <2>3, <2>4 DEF Create
<1>2. ASSUME NEW c \in Calls, Use(c) PROVE ReleaseInv'
  <2>1. CASE Lookup(c) \/ Touch(c) \/ Leave(c) \/ LockSession(c)
    BY <2>1 DEF Lookup, Touch, Leave, LockSession, registry
  <2>2. CASE CommandDone(c) \/ ExecFinish(c) \/ MaintenanceFinish(c) \/ ReportAlive(c)
    BY <2>2 DEF CommandDone, ExecFinish, MaintenanceFinish, ReportAlive, registry
  <2>3. CASE CloseDead(c)
    BY <2>3 DEF CloseDead
  <2>. QED  BY <1>2, <2>1, <2>2, <2>3 DEF Use
<1>3. ASSUME NEW c \in Calls, Destroy(c) \/ DestroyRelease(c) PROVE ReleaseInv'
  BY <1>3 DEF Destroy, DestroyRelease
<1>4. ASSUME NEW i \in Ids, SpawnedDrop(i) \/ Age(i) PROVE ReleaseInv'
  BY <1>4 DEF SpawnedDrop, Age, registry
<1>. QED  BY <1>1, <1>2, <1>3, <1>4 DEF Next

\* A registered id and one in transit are not yet closed; no other id with a
\* Session is in either state.
InTransit(i) == \E c \in Calls : target[c] = i /\ pc[c] \in {"inserting", "releasing"}

LEMMA ClosesStep ==
  ASSUME RegistryInv, Next
  PROVE  ClosedOnce'
<1>. /\ TypeOK /\ ReaperInv /\ InsertInv /\ FreshInv
     /\ RefsUp /\ ArcsInv /\ ReleaseInv /\ ClosedOnce
  BY DEF RegistryInv, AdmissionInv
<1>. DEFINE Open(i) == shell[i] = "none" \/ i \in sessions \/ InTransit(i)
<1>0. \A i \in Ids : closes[i] = IF Open(i) THEN 0 ELSE 1
  BY DEF ClosedOnce, InTransit
<1>. SUFFICES \A i \in Ids : closes'[i] = IF Open(i)' THEN 0 ELSE 1
  BY DEF ClosedOnce, InTransit
\* A step that closes nothing and changes no id's standing.
<1>a. ASSUME UNCHANGED <<sessions, closes>>,
             \A i \in Ids : InTransit(i)' <=> InTransit(i),
             \A i \in Ids : shell'[i] = "none" <=> shell[i] = "none"
      PROVE  \A i \in Ids : closes'[i] = IF Open(i)' THEN 0 ELSE 1
  BY <1>0, <1>a
\* A call that goes from one point out of transit to another.
<1>b. ASSUME NEW c \in Calls, NEW p \in Points, Goto(c, p),
             pc[c] \notin {"inserting", "releasing"}, p \notin {"inserting", "releasing"},
             \A d \in Calls \ {c} : target'[d] = target[d]
      PROVE  \A i \in Ids : InTransit(i)' <=> InTransit(i)
  BY <1>b DEF InTransit, Goto, TypeOK
\* An id that leaves the map for good: it was open, and is closed by this step.
<1>c. ASSUME NEW i \in sessions, sessions' = sessions \ {i},
             closes' = [closes EXCEPT ![i] = @ + 1], shell' = shell,
             \A j \in Ids : InTransit(j)' <=> InTransit(j)
      PROVE  \A j \in Ids : closes'[j] = IF Open(j)' THEN 0 ELSE 1
  <2>1. shell[i] = "up" /\ i \in Ids /\ closes[i] = 0
    BY <1>0 DEF RefsUp, TypeOK
  <2>2. ~InTransit(i)
    BY DEF InTransit, InsertInv, ReleaseInv
  <2>. QED  BY <1>0, <1>c, <2>1, <2>2 DEF TypeOK
\* A call that drops its Arcs had a Session to drop.
<1>d. ASSUME NEW c \in Calls, NEW where, where # "none", DropArcs(c, where)
      PROVE  \A i \in Ids : shell'[i] = "none" <=> shell[i] = "none"
  BY <1>d DEF DropArcs, RefsUp, TypeOK
<1>1. ASSUME NEW c \in Calls, Create(c)
      PROVE  \A i \in Ids : closes'[i] = IF Open(i)' THEN 0 ELSE 1
  <2>1. CASE CreateStart(c) \/ ReapSelected(c)
    BY <2>1, <1>a, <1>b DEF CreateStart, ReapSelected, registry, entries, Points
  <2>2. CASE ReapProbe(c) \/ ReapTry(c)
    BY <2>2, <1>a DEF ReapProbe, ReapTry, registry, entries, InTransit
  <2>3. CASE ReapRemove(c)
    <3>1. PICK i \in victims :
            /\ sessions' = sessions \ {i} /\ closes' = [closes EXCEPT ![i] = @ + 1]
            /\ UNCHANGED <<shell, pc, target>>
      BY <2>3 DEF ReapRemove
    <3>2. i \in sessions /\ \A j \in Ids : InTransit(j)' <=> InTransit(j)
      BY <3>1 DEF ReaperInv, InTransit
    <3>. QED  BY <3>1, <3>2, <1>c
  <2>4. CASE ReapDone(c)
    BY <2>4, <1>a, <1>b DEF ReapDone, entries, Points
  <2>5. CASE Reserve(c) \/ Reject(c) \/ BuildFailed(c)
    BY <2>5, <1>a, <1>b DEF Reserve, Reject, BuildFailed, entries, Points
  <2>6. CASE Built(c)
    <3>1. PICK i \in Ids :
            /\ shell[i] = "none" /\ shell' = [shell EXCEPT ![i] = "up"]
            /\ target' = [target EXCEPT ![c] = i]
      BY <2>6 DEF Built
    <3>2. pc' = [pc EXCEPT ![c] = "inserting"] /\ pc[c] = "building" /\ UNCHANGED <<sessions, closes>>
      BY <2>6 DEF Built, Goto, registry
    <3>3. InTransit(i)'
      BY <3>1, <3>2 DEF InTransit, TypeOK
    <3>4. \A j \in Ids \ {i} : InTransit(j)' <=> InTransit(j)
      BY <3>1, <3>2 DEF InTransit, TypeOK
    <3>. QED  BY <1>0, <3>1, <3>2, <3>3, <3>4 DEF TypeOK
  <2>7. CASE Insert(c)
    <3>0. PICK i : i = target[c]
      OBVIOUS
    <3>1. /\ pc[c] = "inserting" /\ sessions' = sessions \cup {i}
          /\ pc' = [pc EXCEPT ![c] = "idle"] /\ target' = [target EXCEPT ![c] = None]
          /\ UNCHANGED <<closes, shell>>
      BY <2>7, <3>0 DEF Insert, Goto, entries
    <3>2. i \in Ids /\ InTransit(i)
      BY <3>0, <3>1 DEF InsertInv, InTransit
    <3>3. \A j \in Ids \ {i} : InTransit(j)' <=> InTransit(j)
      BY <3>0, <3>1 DEF InTransit, TypeOK
    <3>. QED  BY <1>0, <3>1, <3>2, <3>3 DEF TypeOK
  <2>. QED  BY <1>1, <2>1, <2>2, <2>3, <2>4, <2>5, <2>6, <2>7 DEF Create
<1>2. ASSUME NEW c \in Calls, Use(c)
      PROVE  \A i \in Ids : closes'[i] = IF Open(i)' THEN 0 ELSE 1
  <2>1. CASE Lookup(c)
    BY <2>1, <1>a, <1>b DEF Lookup, registry, entries, Points, TypeOK
  <2>2. CASE Touch(c) \/ LockSession(c) \/ CommandDone(c)
    BY <2>2, <1>a, <1>b DEF Touch, LockSession, CommandDone, registry, Points
  <2>3. CASE Leave(c)
    BY <2>3, <1>a, <1>b, <1>d DEF Leave, Answer, registry, Points, TypeOK
  <2>4. CASE ExecFinish(c)
    BY <2>4, <1>a, <1>b, <1>d DEF ExecFinish, registry, Points
  <2>5. CASE MaintenanceFinish(c)
    BY <2>5, <1>a, <1>b, <1>d DEF MaintenanceFinish, Answer, registry, Points, TypeOK
  <2>6. CASE ReportAlive(c)
    BY <2>6, <1>a, <1>b DEF ReportAlive, Answer, registry, entries, Points, TypeOK
  <2>7. CASE CloseDead(c)
    <3>1. pc[c] = "report" /\ shell' = shell /\ Goto(c, "idle")
      BY <2>7 DEF CloseDead, Answer
    <3>2. \A i \in Ids : InTransit(i)' <=> InTransit(i)
      BY <2>7, <3>1, <1>b DEF CloseDead, Answer, Points, TypeOK
    <3>3. CASE target[c] \in sessions
      BY <2>7, <3>1, <3>2, <3>3, <1>c DEF CloseDead
    <3>4. CASE target[c] \notin sessions
      BY <2>7, <3>1, <3>2, <3>4, <1>a DEF CloseDead
    <3>. QED  BY <3>3, <3>4
  <2>. QED  BY <1>2, <2>1, <2>2, <2>3, <2>4, <2>5, <2>6, <2>7 DEF Use
<1>3. ASSUME NEW c \in Calls, Destroy(c)
      PROVE  \A i \in Ids : closes'[i] = IF Open(i)' THEN 0 ELSE 1
  <2>1. PICK i \in sessions :
          sessions' = sessions \ {i} /\ target' = [target EXCEPT ![c] = i]
    BY <1>3 DEF Destroy
  <2>2. /\ pc[c] = "idle" /\ pc' = [pc EXCEPT ![c] = "releasing"] /\ UNCHANGED <<closes, shell>>
        /\ i \in Ids
    BY <1>3, <2>1 DEF Destroy, Goto, entries, TypeOK
  <2>3. InTransit(i)'
    BY <2>1, <2>2 DEF InTransit, TypeOK
  <2>4. \A j \in Ids \ {i} : InTransit(j)' <=> InTransit(j)
    BY <2>1, <2>2 DEF InTransit, TypeOK
  <2>. QED  BY <1>0, <2>1, <2>2, <2>3, <2>4
<1>4. ASSUME NEW c \in Calls, DestroyRelease(c)
      PROVE  \A i \in Ids : closes'[i] = IF Open(i)' THEN 0 ELSE 1
  <2>0. PICK i : i = target[c]
    OBVIOUS
  <2>1. /\ pc[c] = "releasing" /\ pc' = [pc EXCEPT ![c] = "idle"]
        /\ target' = [target EXCEPT ![c] = None] /\ closes' = [closes EXCEPT ![i] = @ + 1]
        /\ UNCHANGED <<sessions, shell>>
    BY <1>4, <2>0 DEF DestroyRelease, Goto
  <2>2. i \in Ids /\ shell[i] = "up" /\ i \notin sessions /\ InTransit(i)
    BY <2>0, <2>1 DEF ArcsInv, RefsUp, ReleaseInv, InTransit
  <2>3. ~InTransit(i)'
    BY <2>0, <2>1, <2>2, ConstantsAssumption DEF InTransit, TypeOK, InsertInv, ReleaseInv
  <2>4. \A j \in Ids \ {i} : InTransit(j)' <=> InTransit(j)
    BY <2>0, <2>1, ConstantsAssumption DEF InTransit, TypeOK
  <2>. QED  BY <1>0, <2>1, <2>2, <2>3, <2>4 DEF TypeOK
<1>5. ASSUME NEW j \in Ids, SpawnedDrop(j) \/ Age(j)
      PROVE  \A i \in Ids : closes'[i] = IF Open(i)' THEN 0 ELSE 1
  <2>1. CASE SpawnedDrop(j)
    <3>1. shell[j] = "up"
      BY <2>1 DEF SpawnedDrop, RefsUp
    <3>2. \A i \in Ids : shell'[i] = "none" <=> shell[i] = "none"
      BY <2>1, <3>1 DEF SpawnedDrop, TypeOK
    <3>. QED  BY <2>1, <3>2, <1>a DEF SpawnedDrop, registry, InTransit
  <2>2. CASE Age(j)
    BY <2>2, <1>a DEF Age, registry, InTransit
  <2>. QED  BY <1>5, <2>1, <2>2
<1>. QED  BY <1>1, <1>2, <1>3, <1>4, <1>5 DEF Next

-----------------------------------------------------------------------------
(* The theorems. *)

LEMMA RegistryStutters ==
  RegistryInv /\ UNCHANGED vars => RegistryInv'
<1>. SUFFICES ASSUME RegistryInv, UNCHANGED vars PROVE RegistryInv'
  OBVIOUS
<1>1. AdmissionInv'
  BY AdmissionStutters DEF RegistryInv
<1>2. RefsUp' /\ ArcsInv' /\ HolderInv' /\ ReleaseInv' /\ ClosedOnce'
  BY DEF RegistryInv, vars, RefsUp, ArcsInv, HolderInv, ReleaseInv, ClosedOnce
<1>. QED  BY <1>1, <1>2 DEF RegistryInv

\* The inductive invariant of the registry: its counter, its references and its
\* audited closes (main.rs: every handler, reap_idle and the spawned drops).
THEOREM RegistryCorrect == Spec => []RegistryInv
<1>1. RegistryInv /\ Next => AdmissionInv'
  BY AccountingStep, TypeStep, ReaperStep, FreshStep DEF RegistryInv, AdmissionInv
<1>2. RegistryInv /\ [Next]_vars => RegistryInv'
  BY <1>1, RegistryStutters, RefsStep, ArcsStep, ReleaseStep, ClosesStep DEF RegistryInv
<1>. QED  BY InitRegistry, <1>2, PTL DEF Spec

\* A Session is neither in the registry nor in use by a command once it is dropped
\* (Session::drop kills the shell), however calls, reaper and drop tasks interleave.
THEOREM NoUseAfterDropCorrect == Spec => []NoUseAfterDrop
<1>1. RegistryInv => NoUseAfterDrop
  <2>. SUFFICES ASSUME RegistryInv, NEW i \in Ids, i \in sessions \/ holder[i] # None
                PROVE  shell[i] = "up"
    BY DEF NoUseAfterDrop
  <2>1. CASE i \in sessions
    BY <2>1 DEF RegistryInv, RefsUp
  <2>2. CASE holder[i] # None
    <3>1. holder[i] \in Calls
      BY <2>2 DEF RegistryInv, AdmissionInv, TypeOK
    <3>2. i \in arcs[holder[i]]
      BY <3>1 DEF RegistryInv, HolderInv, ArcsInv
    <3>. QED  BY <3>1, <3>2 DEF RegistryInv, RefsUp
  <2>. QED  BY <2>1, <2>2
<1>. QED  BY <1>1, RegistryCorrect, PTL

\* The audit log has one close event for a session that left the registry, and none
\* before, whichever of destroy, reaper and dead-session cleanup comes first.
THEOREM ClosedOnceCorrect == Spec => []ClosedOnce
<1>1. RegistryInv => ClosedOnce
  BY DEF RegistryInv
<1>. QED  BY <1>1, RegistryCorrect, PTL

-----------------------------------------------------------------------------
(* The reaper's loop ends. *)

LEMMA StepsCounted ==
  ASSUME TypeOK
  PROVE  /\ IsFiniteSet(scan) /\ Cardinality(scan) \in Nat
         /\ IsFiniteSet(victims) /\ Cardinality(victims) \in Nat
<1>1. scan \in SUBSET Ids /\ victims \in SUBSET Ids
  BY DEF TypeOK
<1>. QED  BY <1>1, ConstantsAssumption, FS_Subset, FS_CardinalityType

\* Only the call that has the map is in the reaper's first loop.
LEMMA ReapingIs ==
  ASSUME ReaperInv, mapLock # None
  PROVE  (\E c \in Calls : pc[c] = "reaping") <=> pc[mapLock] = "reaping" /\ mapLock \in Calls
BY DEF ReaperInv

Advances ==
  \/ mapLock' = None
  \/ mapLock' = mapLock /\ StepsLeft' < StepsLeft
  \/ mapLock' = mapLock /\ UNCHANGED reaper /\ pc'[mapLock] = pc[mapLock]

LEMMA ReapAdvances ==
  ASSUME TypeOK, ReaperInv, mapLock # None, NEW c \in Calls,
         ReapProbe(c) \/ ReapTry(c) \/ ReapSelected(c) \/ ReapRemove(c) \/ ReapDone(c)
  PROVE  Advances
<1>1. mapLock = c
  BY DEF ReapProbe, ReapTry, ReapSelected, ReapRemove, ReapDone, ReaperInv
<1>2. PICK a \in Nat, b \in Nat : a = Cardinality(scan) /\ b = Cardinality(victims)
  BY StepsCounted
<1>3. PICK p, r : /\ p = (IF probe = None THEN 1 ELSE 0)
                  /\ r = (IF pc[c] = "reaping" THEN 1 ELSE 0)
                  /\ p \in {0, 1} /\ r \in {0, 1}
  OBVIOUS
<1>4. StepsLeft = 3 * a + b + p + r
  BY <1>1, <1>2, <1>3, ReapingIs DEF StepsLeft
<1>5. CASE ReapProbe(c)
  <2>1. mapLock' = mapLock /\ pc' = pc /\ victims' = victims /\ p = 1
    BY <1>3, <1>5 DEF ReapProbe, registry
  <2>2. PICK i \in scan : IF stale[i] THEN probe' = i /\ UNCHANGED scan
                                     ELSE scan' = scan \ {i} /\ UNCHANGED probe
    BY <1>5 DEF ReapProbe
  <2>3. i # None /\ i \in Ids
    BY ConstantsAssumption DEF TypeOK
  <2>4. (\E d \in Calls : pc'[d] = "reaping") <=> (\E d \in Calls : pc[d] = "reaping")
    BY <2>1
  <2>5. r = IF \E d \in Calls : pc'[d] = "reaping" THEN 1 ELSE 0
    BY <1>1, <1>3, <2>4, ReapingIs
  <2>6. CASE stale[i]
    <3>1. StepsLeft' = 3 * a + b + 0 + r
      BY <1>2, <2>1, <2>2, <2>3, <2>5, <2>6 DEF StepsLeft
    <3>. QED  BY <1>2, <1>3, <1>4, <2>1, <3>1 DEF Advances
  <2>7. CASE ~stale[i]
    <3>1. Cardinality(scan \ {i}) = a - 1
      BY <1>2, StepsCounted, CountRemove
    <3>2. StepsLeft' = 3 * (a - 1) + b + p + r
      BY <1>2, <1>3, <2>1, <2>2, <2>5, <2>7, <3>1 DEF StepsLeft
    <3>. QED  BY <1>2, <1>3, <1>4, <2>1, <3>2 DEF Advances
  <2>. QED  BY <2>6, <2>7
<1>6. CASE ReapTry(c)
  <2>1. mapLock' = mapLock /\ pc' = pc /\ probe # None /\ p = 0 /\ probe' = None /\ scan' = scan \ {probe}
    BY <1>3, <1>6 DEF ReapTry, registry
  <2>2. victims' = victims \cup {probe} \/ victims' = victims
    BY <1>6 DEF ReapTry
  <2>3. probe \in scan /\ probe \notin victims
    BY <2>1 DEF ReaperInv
  <2>4. Cardinality(scan') = a - 1
    BY <1>2, <2>1, <2>3, StepsCounted, CountRemove
  <2>5. PICK e \in Nat : e = Cardinality(victims') /\ e <= b + 1
    BY <1>2, <2>2, <2>3, StepsCounted, CountAdd
  <2>6. (\E d \in Calls : pc'[d] = "reaping") <=> (\E d \in Calls : pc[d] = "reaping")
    BY <2>1
  <2>7. r = IF \E d \in Calls : pc'[d] = "reaping" THEN 1 ELSE 0
    BY <1>1, <1>3, <2>6, ReapingIs
  <2>8. StepsLeft' = 3 * (a - 1) + e + 1 + r
    BY <2>1, <2>4, <2>5, <2>7 DEF StepsLeft
  <2>. QED  BY <1>2, <1>3, <1>4, <2>1, <2>5, <2>8 DEF Advances
<1>7. CASE ReapSelected(c)
  <2>1. /\ mapLock' = mapLock /\ scan' = scan /\ victims' = victims /\ probe' = probe
        /\ pc[c] = "reaping" /\ pc' = [pc EXCEPT ![c] = "sweeping"]
    BY <1>7 DEF ReapSelected, registry, reaper, Goto
  <2>2. ~\E d \in Calls : pc'[d] = "reaping"
    BY <1>1, <2>1 DEF ReaperInv, TypeOK
  <2>3. StepsLeft' = 3 * a + b + p + 0
    BY <1>2, <1>3, <2>1, <2>2 DEF StepsLeft
  <2>. QED  BY <1>2, <1>3, <1>4, <2>1, <2>3 DEF Advances
<1>8. CASE ReapRemove(c)
  <2>1. mapLock' = mapLock /\ pc' = pc /\ scan' = scan /\ probe' = probe
    BY <1>8 DEF ReapRemove
  <2>2. PICK i \in victims : victims' = victims \ {i}
    BY <1>8 DEF ReapRemove
  <2>3. Cardinality(victims') = b - 1
    BY <1>2, <2>2, StepsCounted, CountRemove
  <2>4. (\E d \in Calls : pc'[d] = "reaping") <=> (\E d \in Calls : pc[d] = "reaping")
    BY <2>1
  <2>5. r = IF \E d \in Calls : pc'[d] = "reaping" THEN 1 ELSE 0
    BY <1>1, <1>3, <2>4, ReapingIs
  <2>6. StepsLeft' = 3 * a + (b - 1) + p + r
    BY <1>2, <1>3, <2>1, <2>3, <2>5 DEF StepsLeft
  <2>. QED  BY <1>2, <1>3, <1>4, <2>1, <2>6 DEF Advances
<1>9. CASE ReapDone(c)
  BY <1>9 DEF ReapDone, Advances
<1>. QED  BY <1>5, <1>6, <1>7, <1>8, <1>9

\* A call that does not have the map leaves the reaper alone.
LEMMA OthersWait ==
  ASSUME TypeOK, ReaperInv, mapLock # None, NEW c \in Calls,
         \/ CreateStart(c) \/ Reserve(c) \/ Reject(c) \/ BuildFailed(c) \/ Built(c) \/ Insert(c)
         \/ Use(c) \/ Destroy(c) \/ DestroyRelease(c)
  PROVE  Advances
<1>1. c # mapLock
  <2>1. pc[c] \notin {"reaping", "sweeping"}
    BY DEF CreateStart, Reserve, Reject, BuildFailed, Built, Insert, Use, Destroy, DestroyRelease,
           Lookup, Touch, Leave, LockSession, CommandDone, ExecFinish, MaintenanceFinish, ReportAlive, CloseDead
  <2>. QED  BY <2>1 DEF ReaperInv
<1>2. \A d \in Calls \ {c} : pc'[d] = pc[d]
  BY DEF TypeOK, Goto, Answer, CreateStart, Reserve, Reject, BuildFailed, Built, Insert, Use, Destroy,
         DestroyRelease, Lookup, Touch, Leave, LockSession, CommandDone, ExecFinish, MaintenanceFinish,
         ReportAlive, CloseDead
<1>3. UNCHANGED <<mapLock, reaper>>
  BY DEF registry, reaper, MapFree, CreateStart, Reserve, Reject, BuildFailed, Built, Insert, Use, Destroy,
         DestroyRelease, Lookup, Touch, Leave, LockSession, CommandDone, ExecFinish, MaintenanceFinish,
         ReportAlive, CloseDead
<1>4. mapLock \in Calls
  BY DEF TypeOK
<1>. QED  BY <1>1, <1>2, <1>3, <1>4 DEF Advances

\* However many sessions and calls there are, every step of the call that has the map
\* locked brings it nearer to giving the map back, and no other call's step takes it
\* farther away: the reaper neither waits for a busy session nor comes back to it.
THEOREM ReaperEnds == Spec => ReaperAdvances
<1>1. AdmissionInv /\ [Next]_vars => (mapLock # None => Advances)
  <2>. SUFFICES ASSUME AdmissionInv, [Next]_vars, mapLock # None PROVE Advances
    OBVIOUS
  <2>1. TypeOK /\ ReaperInv
    BY DEF AdmissionInv
  <2>2. ASSUME NEW c \in Calls, Create(c) \/ Use(c) \/ Destroy(c) \/ DestroyRelease(c) PROVE Advances
    BY <2>1, <2>2, ReapAdvances, OthersWait DEF Create
  <2>3. ASSUME NEW i \in Ids, SpawnedDrop(i) \/ Age(i) PROVE Advances
    BY <2>3 DEF SpawnedDrop, Age, registry, reaper, Advances
  <2>4. CASE UNCHANGED vars
    BY <2>4 DEF vars, reaper, Advances
  <2>. QED  BY <2>2, <2>3, <2>4 DEF Next
<1>2. AdmissionInv /\ [Next]_vars
        => [mapLock # None =>
              \/ mapLock' = None
              \/ mapLock' = mapLock /\ StepsLeft' < StepsLeft
              \/ mapLock' = mapLock /\ UNCHANGED reaper /\ pc'[mapLock] = pc[mapLock]]_vars
  BY <1>1 DEF Advances
<1>. QED  BY <1>2, AdmissionCorrect, PTL DEF Spec, ReaperAdvances
=============================================================================
