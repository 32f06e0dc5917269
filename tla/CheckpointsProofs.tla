------------------------- MODULE CheckpointsProofs -------------------------
(***************************************************************************)
(* Checkpoints, for every workspace, scope and set of commands: the git    *)
(* commands implement Snapshots, and no command that writes escapes the    *)
(* snapshot before it.                                                     *)
(***************************************************************************)
EXTENDS Checkpoints, TLAPS

-----------------------------------------------------------------------------
(***************************************************************************)
(* Sequences.                                                              *)
(***************************************************************************)
LEMMA Appended ==
  ASSUME NEW S, NEW s \in Seq(S), NEW e \in S
  PROVE  /\ Append(s, e) \in Seq(S) /\ Len(Append(s, e)) = Len(s) + 1
         /\ Append(s, e)[Len(s) + 1] = e
         /\ \A i \in 1..Len(s) : Append(s, e)[i] = s[i]
OBVIOUS

LEMMA Element ==
  ASSUME NEW S, NEW s \in Seq(S)
  PROVE  Len(s) \in Nat /\ \A i \in 1..Len(s) : s[i] \in S
OBVIOUS

\* is_read_only: whatever hides the program that writes, a command with one is not
\* taken for read-only.
LEMMA ReadOnlyNeverWrites ==
  ASSUME NEW words \in Seq(STRING), words # <<>>, IsReadOnly(words)
  PROVE  ~Writes(words)
<1>1. \A i \in 1..Len(words) : words[i] \notin Hiding
  BY DEF IsReadOnly, ToSet
<1>2. StartsAfter(words, Splits \cup Hiding) = StartsAfter(words, Splits)
  <2> DEFINE starts(separators) ==
               {1} \cup {i + 1 : i \in {j \in 1..(Len(words) - 1) : words[j] \in separators}}
  <2>1. Len(words) \in Nat /\ Len(words) >= 1
    OBVIOUS
  <2>2. starts(Splits \cup Hiding) = starts(Splits)
    BY <1>1, <2>1
  <2>3. \A i \in starts(Splits) : i \in 1..Len(words)
    BY <2>1
  <2> HIDE DEF starts
  <2>4. {words[i] : i \in starts(Splits)} \ (Splits \cup Hiding) = {words[i] : i \in starts(Splits)} \ Splits
    BY <1>1, <2>3
  <2> QED BY <2>2, <2>4 DEF StartsAfter, starts
<1>3. ">" \notin ToSet(words)
  BY DEF IsReadOnly, Hiding
<1> QED
  BY <1>2, <1>3 DEF Writes, IsReadOnly, Programs
-----------------------------------------------------------------------------
(***************************************************************************)
(* git: the results of its commands are trees.                             *)
(***************************************************************************)
LEMMA ScopeOfFiles ==
  ASSUME config \in [scope : Scopes, auto : BOOLEAN, workspace : BOOLEAN]
  PROVE  Scope \in SUBSET Files
BY CheckpointsAssumption DEF Scope, Paths, Ignored

LEMMA GitTrees ==
  ASSUME ws \in Trees, index \in Trees
  PROVE  Added \in Trees
BY DEF Added, Trees

LEMMA WithTree ==
  ASSUME NEW files, NEW tree \in Trees, NEW other \in Trees
  PROVE  With(files, tree, other) \in Trees
BY DEF With, Trees

LEMMA NothingTree == Nothing \in Trees
BY DEF Nothing, Trees, Contents

LEMMA EditedTree ==
  ASSUME ws \in Trees, Edit
  PROVE  ws' \in Trees
BY DEF Edit, Trees, Nothing, Contents

LEMMA ScopeFixed ==
  ASSUME config' = config
  PROVE  Scope' = Scope /\ InWorkspace' = InWorkspace
BY DEF Scope, Paths, Ignored, InWorkspace
-----------------------------------------------------------------------------
(***************************************************************************)
(* The store and the calls.                                                *)
(***************************************************************************)
LEMMA InitStore == Init => StoreInv /\ BaselineInv
<1> SUFFICES ASSUME Init PROVE StoreInv /\ BaselineInv
  OBVIOUS
<1>1. Nothing \in Trees /\ [f \in Files |-> CHOOSE t \in Texts : TRUE] \in Trees
  BY CheckpointsAssumption DEF Nothing, Trees, Contents
<1>2. ws \in Trees /\ index \in Trees
  BY <1>1 DEF Init
<1>3. commits \in Seq(Trees) /\ Len(commits) = 0
  BY DEF Init
<1>4. cp \in Checkpointers
  BY DEF Init, Checkpointers, NoId
<1>5. call = Idle /\ call.op = "none" /\ call.at = "idle"
  BY DEF Init, Idle
<1>6. StoreInv
  BY <1>2, <1>3, <1>4, <1>5 DEF Init, StoreInv, Calls
<1>7. BaselineInv
  BY <1>5 DEF Init, BaselineInv, CleanInv, RunInv, UndoInv, NoUndo
<1> QED
  BY <1>6, <1>7

\* Updates of the two records.
LEMMA CheckpointerUpdates ==
  ASSUME NEW c \in Checkpointers
  PROVE  /\ [c EXCEPT !.git_unavailable = TRUE] \in Checkpointers
         /\ [c EXCEPT !.initialized = TRUE] \in Checkpointers
         /\ \A n \in Nat : [c EXCEPT !.last = n] \in Checkpointers /\ [c EXCEPT !.last = n].last = n
                           /\ [c EXCEPT !.last = n].git_unavailable = c.git_unavailable
         /\ [c EXCEPT !.git_unavailable = TRUE].git_unavailable
         /\ [c EXCEPT !.initialized = TRUE].git_unavailable = c.git_unavailable
BY DEF Checkpointers

LEMMA ExecUpdates ==
  ASSUME NEW c \in ExecCalls
  PROVE  /\ \A at \in {"probe", "init", "snapshot"} :
              [c EXCEPT !.at = at] \in ExecCalls /\ [c EXCEPT !.at = at].at = at
         /\ /\ [c EXCEPT !.at = "run", !.snap = "failed"] \in ExecCalls
            /\ [c EXCEPT !.at = "run", !.snap = "failed"].snap = "failed"
         /\ \A snap \in {"taken", "partly"} :
              LET d == [c EXCEPT !.at = "run", !.snap = snap, !.others = {}]
              IN d \in ExecCalls /\ d.snap = snap /\ d.others = {}
         /\ c.op = "exec"
BY DEF ExecCalls

LEMMA CheckpointUpdates ==
  ASSUME NEW c \in CheckpointCalls
  PROVE  /\ \A at \in {"probe", "init", "snapshot"} :
              [c EXCEPT !.at = at] \in CheckpointCalls /\ [c EXCEPT !.at = at].at = at
         /\ c.op = "checkpoint"
BY DEF CheckpointCalls

LEMMA RestoreUpdates ==
  ASSUME NEW c \in RestoreCalls
  PROVE  /\ LET d == [c EXCEPT !.at = "checkout"]
            IN d \in RestoreCalls /\ d.id = c.id /\ d.back = c.back /\ d.at = "checkout"
         /\ \A back \in SUBSET Files :
              LET d == [c EXCEPT !.at = "clean", !.back = back, !.others = {}]
              IN d \in RestoreCalls /\ d.id = c.id /\ d.back = back /\ d.at = "clean"
BY DEF RestoreCalls

LEMMA OthersUpdates ==
  ASSUME NEW c \in ExecCalls \cup RestoreCalls, NEW more \in SUBSET Files
  PROVE  LET d == [c EXCEPT !.others = @ \cup more]
         IN /\ d.others = c.others \cup more /\ d.at = c.at /\ d.op = c.op
            /\ c \in ExecCalls => d \in ExecCalls /\ d.writes = c.writes /\ d.snap = c.snap
            /\ c \in RestoreCalls => d \in RestoreCalls /\ d.id = c.id /\ d.back = c.back
BY DEF ExecCalls, RestoreCalls

\* Where a call is tells which one it may be.
LEMMA CallKinds ==
  ASSUME call \in Calls
  PROVE  /\ call.at = "run" => call \in ExecCalls
         /\ call.at \in {"probe", "init", "snapshot"} => call \in ExecCalls \cup CheckpointCalls
         /\ call.at \in {"count", "checkout", "clean"} => call \in RestoreCalls
         /\ call.op = "restore" => call \in RestoreCalls
         /\ call \in RestoreCalls => /\ call.op = "restore" /\ call.id \in Nat /\ call.at # "run"
                                     /\ call.back \in SUBSET Files
         /\ call \in CheckpointCalls \cup {Idle, Over} => call.op # "restore" /\ call.at # "run"
         /\ call \in ExecCalls => call.op = "exec"
BY DEF Calls, ExecCalls, CheckpointCalls, RestoreCalls, Idle, Over

LEMMA IdleAndOver == /\ Idle \in Calls /\ Idle.op = "none" /\ Idle.at = "idle"
                     /\ Over \in Calls /\ Over.op = "drop" /\ Over.at = "dropped"
BY DEF Calls, Idle, Over

\* A call that has not begun to restore.
LEMMA SameStore ==
  ASSUME StoreInv, UNCHANGED <<config, ws, index, commits>>, cp' \in Checkpointers,
         call' \in ExecCalls \cup CheckpointCalls \cup {Idle}
  PROVE  StoreInv' /\ call'.op # "restore"
<1>1. call' \in Calls /\ call'.op # "restore"
  BY DEF Calls, ExecCalls, CheckpointCalls, Idle
<1> QED
  BY <1>1 DEF StoreInv

LEMMA AbandonedCall ==
  ASSUME call \in ExecCalls \cup CheckpointCalls, Abandon
  PROVE  call' \in ExecCalls \cup {Idle} /\ (call'.at = "run" => call'.snap = "failed")
<1>1. CASE call \in ExecCalls
  BY <1>1, ExecUpdates DEF Abandon
<1>2. CASE call \in CheckpointCalls
  BY <1>2, CheckpointUpdates, IdleAndOver DEF Abandon
<1> QED
  BY <1>1, <1>2

LEMMA BegunCall ==
  /\ \A c \in ExecCalls : AfterInit(c) \in ExecCalls /\ AfterInit(c).at # "run"
  /\ AfterInit([op |-> "checkpoint", at |-> "idle", others |-> {}]) \in CheckpointCalls
<1>1. PICK at \in {"probe", "init", "snapshot"} : at = IF cp.initialized THEN "snapshot" ELSE "probe"
  OBVIOUS
<1>2. ASSUME NEW c \in ExecCalls
      PROVE  [c EXCEPT !.at = at] \in ExecCalls /\ [c EXCEPT !.at = at].at = at
  BY ExecUpdates
<1>3. [[op |-> "checkpoint", at |-> "idle", others |-> {}] EXCEPT !.at = at] \in CheckpointCalls
  BY DEF CheckpointCalls
<1>4. at # "run"
  OBVIOUS
<1>5. \A op : AfterInit(op) = [op EXCEPT !.at = at]
  BY <1>1 DEF AfterInit
<1> QED
  BY <1>2, <1>3, <1>4, <1>5

LEMMA NewExec ==
  ASSUME NEW words
  PROVE  [op |-> "exec", at |-> "run", others |-> {}, writes |-> Writes(words), snap |-> "skipped"] \in ExecCalls
<1>1. PICK w \in BOOLEAN : w = Writes(words)
  BY DEF Writes
<1> QED
  BY <1>1 DEF ExecCalls

\* A step of a call that leaves the store alone.
LEMMA CallSteps ==
  ASSUME StoreInv,
         (\E words \in Commands : Exec(words)) \/ Checkpoint \/ Probe \/ InitRepo
  PROVE  /\ StoreInv' /\ UNCHANGED <<config, ws, index, commits, undo>>
         /\ call.op # "restore" /\ call'.op # "restore"
<1>1. call \in Calls /\ cp \in Checkpointers
  BY DEF StoreInv
<1>2. CASE \E words \in Commands : Exec(words)
  <2>1. call' \in ExecCalls
    BY <1>2, BegunCall, NewExec DEF Exec
  <2> QED BY <1>1, <1>2, <2>1, SameStore, IdleAndOver DEF Exec
<1>3. CASE Checkpoint
  <2>1. call' \in CheckpointCalls
    BY <1>3, BegunCall DEF Checkpoint
  <2> QED BY <1>1, <1>3, <2>1, SameStore, IdleAndOver DEF Checkpoint
<1>4. CASE Probe
  <2>1. call \in ExecCalls \cup CheckpointCalls
    BY <1>1, <1>4, CallKinds DEF Probe
  <2>2. call' \in ExecCalls \cup CheckpointCalls \cup {Idle}
    <3>1. CASE Abandon
      BY <2>1, <3>1, AbandonedCall
    <3>2. CASE call' = [call EXCEPT !.at = "init"]
      BY <2>1, <3>2, ExecUpdates, CheckpointUpdates
    <3> QED BY <1>4, <3>1, <3>2 DEF Probe
  <2>3. cp' \in Checkpointers
    BY <1>1, <1>4, CheckpointerUpdates DEF Probe
  <2> QED BY <1>1, <1>4, <2>1, <2>2, <2>3, SameStore, ExecUpdates, CheckpointUpdates DEF Probe
<1>5. CASE InitRepo
  <2>1. call \in ExecCalls \cup CheckpointCalls
    BY <1>1, <1>5, CallKinds DEF InitRepo
  <2>2. call' \in ExecCalls \cup CheckpointCalls \cup {Idle}
    <3>1. CASE Abandon
      BY <2>1, <3>1, AbandonedCall
    <3>2. CASE call' = [call EXCEPT !.at = "snapshot"]
      BY <2>1, <3>2, ExecUpdates, CheckpointUpdates
    <3> QED BY <1>5, <3>1, <3>2 DEF InitRepo
  <2>3. cp' \in Checkpointers
    BY <1>1, <1>5, CheckpointerUpdates DEF InitRepo
  <2> QED BY <1>1, <1>5, <2>1, <2>2, <2>3, SameStore, ExecUpdates, CheckpointUpdates DEF InitRepo
<1> QED
  BY <1>2, <1>3, <1>4, <1>5

LEMMA RestoreBegins ==
  ASSUME StoreInv, NEW id \in Listed \cup {NoId}, Restore(id)
  PROVE  /\ StoreInv' /\ call = Idle /\ call'.op = "restore" /\ call'.id = id /\ call'.at = "count"
         /\ call'.back = {}
<1>1. id \in Nat /\ id <= Len(commits)
  BY Element DEF StoreInv, Listed, NoId
<1>2. call' \in RestoreCalls /\ call'.op = "restore" /\ call'.id = id /\ call'.at = "count"
      /\ call'.back = {}
  BY <1>1 DEF Restore, RestoreCalls
<1> QED
  BY <1>1, <1>2 DEF Restore, StoreInv, Calls

LEMMA RestoreCounts ==
  ASSUME StoreInv, Count
  PROVE  StoreInv' /\ call \in RestoreCalls /\ call' \in RestoreCalls /\ call'.id = call.id
         /\ call'.back = call.back /\ call'.at = "checkout"
<1>1. call \in RestoreCalls
  BY CallKinds DEF Count, StoreInv
<1>2. call' \in RestoreCalls /\ call'.id = call.id /\ call'.back = call.back /\ call'.at = "checkout"
  BY <1>1, RestoreUpdates DEF Count
<1>3. call.id <= Len(commits)
  BY <1>1, CallKinds DEF StoreInv
<1> QED
  BY <1>1, <1>2, <1>3 DEF Count, StoreInv, Calls

\* The commit that a restore has found.
LEMMA ChosenTree ==
  ASSUME StoreInv, call \in RestoreCalls, call.id # NoId
  PROVE  call.id \in 1..Len(commits) /\ Chosen \in Trees
<1>1. call.id \in Nat /\ call.id <= Len(commits) /\ Len(commits) \in Nat
  BY CallKinds, Element DEF StoreInv
<1>2. call.id \in 1..Len(commits)
  BY <1>1 DEF NoId
<1> QED
  BY <1>2, Element DEF StoreInv, Chosen

LEMMA RestoreChecksOut ==
  ASSUME StoreInv, Checkout
  PROVE  /\ StoreInv' /\ call \in RestoreCalls /\ call' \in RestoreCalls /\ call.id # NoId
         /\ call'.id = call.id /\ call'.at = "clean" /\ call'.back = CheckoutWrites(Chosen)
<1>1. call \in RestoreCalls /\ call.id # NoId
  BY CallKinds DEF Checkout, CanCheckout, StoreInv
<1>2. Chosen \in Trees /\ call.id <= Len(commits)
  BY <1>1, ChosenTree DEF StoreInv, Listed, RestoreCalls
<1>3. CheckoutWrites(Chosen) \in SUBSET Files
  BY ScopeOfFiles DEF StoreInv, CheckoutWrites
<1>4. call' \in RestoreCalls /\ call'.id = call.id /\ call'.at = "clean"
      /\ call'.back = CheckoutWrites(Chosen)
  BY <1>1, <1>3, RestoreUpdates DEF Checkout
<1>5. ws' \in Trees /\ index' \in Trees
  BY <1>2, WithTree DEF Checkout, StoreInv
<1> QED
  BY <1>1, <1>2, <1>4, <1>5 DEF Checkout, StoreInv, Calls

LEMMA SnapshotStore ==
  ASSUME StoreInv, Snapshot
  PROVE  /\ StoreInv' /\ call.op # "restore" /\ call'.op # "restore"
         /\ call'.at = "run" => /\ call \in ExecCalls /\ call'.others = {}
                                /\ call'.snap = IF AddMatches THEN "taken" ELSE "partly"
<1>1. call \in ExecCalls \cup CheckpointCalls
  BY CallKinds DEF Snapshot, StoreInv
<1>2. Added \in Trees
  BY GitTrees DEF StoreInv
<1>3. commits' \in Seq(Trees) /\ Len(commits) \in Nat
  BY <1>2, Appended, Element DEF Snapshot, StoreInv
<1>4. cp' \in Checkpointers
  <2>1. PICK n \in Nat : n = Len(commits) + 1
    BY <1>3
  <2>2. cp' = [cp EXCEPT !.last = n] /\ cp \in Checkpointers
    BY <2>1 DEF Snapshot, StoreInv
  <2> QED BY <2>2, CheckpointerUpdates
<1>5. PICK snap \in {"taken", "partly"} : snap = IF AddMatches THEN "taken" ELSE "partly"
  OBVIOUS
<1>6. CASE call \in ExecCalls
  <2>1. call' = [call EXCEPT !.at = "run", !.snap = snap, !.others = {}]
    BY <1>5, <1>6, ExecUpdates DEF Snapshot
  <2>2. call' \in ExecCalls /\ call'.snap = snap /\ call'.others = {}
    BY <1>6, <2>1, ExecUpdates
  <2>3. call' \in Calls /\ call'.op = "exec" /\ call.op = "exec"
    BY <1>6, <2>2, ExecUpdates DEF Calls
  <2> QED BY <1>2, <1>3, <1>4, <1>5, <1>6, <2>2, <2>3 DEF Snapshot, StoreInv
<1>7. CASE call \in CheckpointCalls
  <2>1. call' = Idle /\ call.op = "checkpoint"
    BY <1>7, CheckpointUpdates DEF Snapshot
  <2> QED BY <1>2, <1>3, <1>4, <2>1, IdleAndOver DEF Snapshot, StoreInv
<1> QED
  BY <1>1, <1>6, <1>7

LEMMA SnapshotFailsStore ==
  ASSUME StoreInv, SnapshotFails
  PROVE  /\ StoreInv' /\ call.op # "restore" /\ call'.op # "restore"
         /\ call'.at = "run" => call'.snap = "failed"
<1>1. call \in ExecCalls \cup CheckpointCalls
  BY CallKinds DEF SnapshotFails, StoreInv
<1>2. call' \in ExecCalls \cup {Idle} /\ (call'.at = "run" => call'.snap = "failed")
  BY <1>1, AbandonedCall DEF SnapshotFails
<1>3. call' \in Calls /\ call'.op # "restore" /\ call.op # "restore"
  BY <1>1, <1>2, ExecUpdates, CheckpointUpdates, IdleAndOver DEF Calls
<1>4. Added \in Trees
  BY GitTrees DEF StoreInv
<1>5. Append(commits, Added) \in Seq(Trees)
  BY <1>4, Appended DEF StoreInv
<1>6. commits' \in Seq(Trees) /\ index' \in Trees
  BY <1>4, <1>5 DEF SnapshotFails, StoreInv
<1> QED
  BY <1>2, <1>3, <1>6 DEF SnapshotFails, StoreInv

LEMMA CheckoutFailsStore ==
  ASSUME StoreInv, CheckoutFails
  PROVE  StoreInv' /\ call \in RestoreCalls
<1>1. call \in RestoreCalls
  BY CallKinds DEF CheckoutFails, StoreInv
<1>2. CASE UNCHANGED <<ws, index>>
  BY <1>1, <1>2, IdleAndOver DEF CheckoutFails, Return, StoreInv
<1>3. CASE CanCheckout
  <2>1. Chosen \in Trees
    BY <1>1, <1>3, ChosenTree DEF CanCheckout
  <2>2. ws' \in Trees /\ index' \in Trees
    BY <2>1, WithTree DEF CheckoutFails, StoreInv
  <2> QED BY <1>1, <2>2, IdleAndOver DEF CheckoutFails, Return, StoreInv
<1> QED
  BY <1>1, <1>2, <1>3 DEF CheckoutFails

LEMMA CleanStore ==
  ASSUME StoreInv, Clean \/ CleanFails
  PROVE  StoreInv' /\ call \in RestoreCalls /\ call.at = "clean"
<1>1. call \in RestoreCalls /\ call.at = "clean"
  BY CallKinds DEF Clean, CleanFails, StoreInv
<1>2. ws' \in Trees
  BY NothingTree, WithTree DEF Clean, CleanFails, StoreInv
<1> QED
  BY <1>1, <1>2, IdleAndOver DEF Clean, CleanFails, Return, StoreInv

\* What others change is noted of a call that is about to run or to clean.
LEMMA OthersStore ==
  ASSUME StoreInv, Others
  PROVE  /\ StoreInv' /\ call'.op = call.op /\ call'.at = call.at
         /\ call.at \notin {"run", "clean"} => call' = call
         /\ call.op = "restore" => call'.id = call.id /\ call'.back = call.back
         /\ call.at = "run" => call'.writes = call.writes /\ call'.snap = call.snap
         /\ call.at \in {"run", "clean"} =>
              call'.others = call.others \cup {f \in Files : ws'[f] # ws[f]}
<1>1. ws' \in Trees
  BY EditedTree DEF Others, StoreInv
<1>2. CASE call.at \notin {"run", "clean"}
  BY <1>1, <1>2 DEF Others, StoreInv
<1>3. CASE call.at \in {"run", "clean"}
  <2>1. call \in ExecCalls \cup RestoreCalls
    BY <1>3, CallKinds DEF StoreInv
  <2>2. PICK more \in SUBSET Files : more = {f \in Files : ws'[f] # ws[f]}
    OBVIOUS
  <2>3. call' = [call EXCEPT !.others = @ \cup more]
    BY <1>3, <2>2 DEF Others
  <2>4. /\ call' \in Calls /\ call'.others = call.others \cup more /\ call'.at = call.at
        /\ call'.op = call.op
        /\ call \in ExecCalls => call'.writes = call.writes /\ call'.snap = call.snap
        /\ call \in RestoreCalls => call'.id = call.id /\ call'.back = call.back
    BY <2>1, <2>3, OthersUpdates DEF Calls
  <2>5. /\ call.at = "run" => call \in ExecCalls
        /\ call.op = "restore" => call \in RestoreCalls
    BY CallKinds DEF StoreInv
  <2> QED BY <1>1, <1>3, <2>2, <2>4, <2>5 DEF Others, StoreInv
<1> QED
  BY <1>2, <1>3

LEMMA StoreSteps ==
  ASSUME StoreInv, Run \/ Drop
  PROVE  StoreInv'
<1>1. CASE Run
  <2>1. ws' \in Trees
    BY <1>1, EditedTree DEF Run, StoreInv
  <2> QED BY <1>1, <2>1, IdleAndOver DEF Run, StoreInv
<1>2. CASE Drop
  <2>1. <<>> \in Seq(Trees)
    OBVIOUS
  <2> QED BY <1>2, <2>1, NothingTree, IdleAndOver DEF Drop, StoreInv
<1> QED
  BY <1>1, <1>2

LEMMA NextStore == StoreInv /\ [Next]_vars => StoreInv'
<1>1. StoreInv /\ UNCHANGED vars => StoreInv'
  BY DEF StoreInv, vars
<1> QED
  BY <1>1, CallSteps, RestoreBegins, RestoreCounts, RestoreChecksOut, SnapshotStore,
     SnapshotFailsStore, CheckoutFailsStore, CleanStore, OthersStore, StoreSteps DEF Next
-----------------------------------------------------------------------------
(***************************************************************************)
(* The refinement.                                                         *)
(***************************************************************************)
Restoring == IF call.op = "restore" THEN call.id ELSE NoId
Brought == IF call.op = "restore" THEN call.back ELSE {}

LEMMA InitImplements == Init => Snaps!Init
<1> SUFFICES ASSUME Init PROVE Snaps!Init
  OBVIOUS
<1>1. StoreInv
  BY InitStore
<1>2. Scope \in SUBSET Files
  BY <1>1, ScopeOfFiles DEF StoreInv
<1>3. AddMatches \in BOOLEAN
  BY DEF AddMatches
<1> QED
  BY <1>1, <1>2, <1>3 DEF Init, Snaps!Init, Snaps!Trees, Trees, StoreInv, Idle, NoId

\* Where neither the configuration, the files nor the index change, the store is as
\* reachable as before.
LEMMA SameReach ==
  ASSUME UNCHANGED <<config, ws, index>>
  PROVE  Scope' = Scope /\ AddMatches' = AddMatches
BY ScopeFixed DEF AddMatches, Present, Whole, Paths, Ignored

\* A step that changes neither files, index, commits nor the restore in progress.
LEMMA Stutters ==
  ASSUME UNCHANGED <<config, ws, index, commits, answer>>, Restoring' = Restoring, Brought' = Brought
  PROVE  UNCHANGED Snaps!vars
BY SameReach DEF Snaps!vars, Restoring, Brought

\* One that changes the files or the index, and neither the commits nor the restore.
LEMMA Changes ==
  ASSUME StoreInv', UNCHANGED <<config, commits, answer>>, Restoring' = Restoring,
         Brought' = Brought
  PROVE  Snaps!Change
<1>1. Scope' = Scope
  BY ScopeFixed
<1>2. AddMatches' \in BOOLEAN
  BY DEF AddMatches
<1> QED
  BY <1>1, <1>2 DEF Snaps!Change, Snaps!Trees, Trees, StoreInv, Restoring, Brought

LEMMA CallImplements ==
  ASSUME StoreInv, (\E words \in Commands : Exec(words)) \/ Checkpoint
  PROVE  Snaps!Call
<1>1. UNCHANGED <<config, ws, index, commits>> /\ answer' = "none"
  BY DEF Exec, Checkpoint
<1>2. call.op # "restore" /\ call'.op # "restore"
  BY CallSteps
<1> QED
  BY <1>1, <1>2, SameReach DEF Snaps!Call

LEMMA SilentSteps ==
  ASSUME StoreInv, Probe \/ InitRepo \/ Count
  PROVE  UNCHANGED Snaps!vars
<1>1. CASE Probe \/ InitRepo
  <2>1. answer' = answer /\ UNCHANGED <<config, ws, index, commits>>
        /\ call.op # "restore" /\ call'.op # "restore"
    BY <1>1, CallSteps DEF Probe, InitRepo
  <2> QED BY <2>1, Stutters DEF Restoring, Brought
<1>2. CASE Count
  <2>1. call.op = "restore" /\ call'.op = "restore" /\ call'.id = call.id /\ call'.back = call.back
    BY <1>2, RestoreCounts DEF RestoreCalls
  <2> QED BY <1>2, <2>1, Stutters DEF Count, Restoring, Brought
<1> QED
  BY <1>1, <1>2

LEMMA RestoreImplements ==
  ASSUME StoreInv, NEW id \in Listed \cup {NoId}, Restore(id)
  PROVE  Snaps!Next
<1>1. /\ Restoring = 0 /\ Brought = {} /\ Restoring' = id /\ Brought' = {} /\ answer' = "none"
      /\ UNCHANGED <<config, ws, index, commits>>
  BY DEF Restore, Restoring, Brought, Idle, NoId
<1>2. UNCHANGED <<ws, Scope, AddMatches, commits>>
  BY <1>1, SameReach
<1>3. CASE id = NoId
  <2>1. Snaps!Call
    BY <1>1, <1>2, <1>3 DEF Snaps!Call, Restoring, Brought, NoId
  <2> QED BY <2>1 DEF Snaps!Next
<1>4. CASE id \in Listed
  <2>1. Snaps!Begin
    BY <1>1, <1>2, <1>4 DEF Snaps!Begin, Restoring, Brought, Listed
  <2> QED BY <2>1 DEF Snaps!Next
<1> QED
  BY <1>3, <1>4

\* A commit is a checkpoint of the files as they are, whether or not its id arrives.
LEMMA CommitTakes ==
  ASSUME StoreInv, UNCHANGED <<config, ws, answer>>, commits' = Append(commits, Added),
         call.op # "restore", call'.op # "restore"
  PROVE  Snaps!Take
<1>1. Scope' = Scope /\ Scope \in SUBSET Files
  BY ScopeFixed, ScopeOfFiles DEF StoreInv
<1>2. AddMatches' \in BOOLEAN
  BY DEF AddMatches
<1>3. Added \in Trees /\ (AddMatches => \A f \in Scope : Added[f] = ws[f])
  BY <1>1, GitTrees DEF Added, StoreInv
<1> QED
  BY <1>1, <1>2, <1>3 DEF Snaps!Take, Snaps!Trees, Trees

LEMMA SnapshotImplements ==
  ASSUME StoreInv, StoreInv', Snapshot \/ SnapshotFails
  PROVE  Snaps!Next
<1>1. call.op # "restore" /\ call'.op # "restore" /\ UNCHANGED <<config, ws, answer>>
  BY SnapshotStore, SnapshotFailsStore DEF Snapshot, SnapshotFails
<1>2. CASE commits' = Append(commits, Added)
  BY <1>1, <1>2, CommitTakes DEF Snaps!Next
<1>3. CASE commits' = commits
  BY <1>1, <1>3, Changes DEF Snaps!Next, Restoring, Brought
<1> QED
  BY <1>2, <1>3 DEF Snapshot, SnapshotFails

\* With writes into the work-tree what a restore brings back.
LEMMA WithIsBack ==
  ASSUME StoreInv, call \in RestoreCalls, call.id # NoId, NEW some \in SUBSET Files,
         NEW other, \A f \in some : other[f] = Chosen[f]
  PROVE  With(some, ws, other) = Snaps!Back(some)
<1>1. call.op = "restore"
  BY CallKinds DEF StoreInv, RestoreCalls
<1> QED
  BY <1>1 DEF With, Snaps!Back, Chosen

LEMMA ReturnImplements ==
  ASSUME call \in RestoreCalls, config' = config, commits' = commits, NEW outcome, Return(outcome)
  PROVE  Snaps!Return(outcome)
<1>1. Scope' = Scope
  BY ScopeFixed
<1>2. AddMatches' \in BOOLEAN
  BY DEF AddMatches
<1>3. call'.op # "restore" /\ answer' = outcome
  BY IdleAndOver DEF Return
<1> QED
  BY <1>1, <1>2, <1>3 DEF Snaps!Return, NoId

LEMMA CheckoutImplements ==
  ASSUME StoreInv, CleanInv, Checkout
  PROVE  Snaps!Put
<1>1. /\ call \in RestoreCalls /\ call' \in RestoreCalls /\ call.id # NoId /\ call'.id = call.id
      /\ call'.back = CheckoutWrites(Chosen)
  BY RestoreChecksOut
<1>2. call.op = "restore" /\ call'.op = "restore" /\ call.back = {}
  BY <1>1 DEF RestoreCalls, CleanInv, Checkout
<1>3. CheckoutWrites(Chosen) \in SUBSET Scope /\ Scope \in SUBSET Files /\ Scope' = Scope
  BY ScopeOfFiles, ScopeFixed DEF CheckoutWrites, StoreInv, Checkout
<1>4. ws' = Snaps!Back(CheckoutWrites(Chosen))
  BY <1>1, <1>3, WithIsBack DEF Checkout
<1>5. AddMatches' \in BOOLEAN
  BY DEF AddMatches
<1> QED
  BY <1>1, <1>2, <1>3, <1>4, <1>5 DEF Snaps!Put, Checkout, NoId

LEMMA CheckoutFailsImplements ==
  ASSUME StoreInv, CleanInv, CheckoutFails
  PROVE  Snaps!Next
<1>1. call \in RestoreCalls /\ call.op = "restore" /\ call.back = {}
  BY CheckoutFailsStore DEF CheckoutFails, RestoreCalls, CleanInv
<1>2. CASE call.id = NoId
  <2>1. UNCHANGED <<ws, index>>
    BY <1>2 DEF CheckoutFails, CanCheckout
  <2>2. UNCHANGED <<config, ws, index, commits>> /\ answer' = "err" /\ call'.op # "restore"
    BY <2>1, IdleAndOver DEF CheckoutFails, Return
  <2>3. Snaps!Refused
    BY <1>1, <1>2, <2>2, SameReach DEF Snaps!Refused, NoId
  <2> QED BY <2>3 DEF Snaps!Next
<1>3. CASE call.id # NoId
  <2>1. Scope \in SUBSET Files
    BY ScopeOfFiles DEF StoreInv
  <2>2. \E some \in SUBSET Scope : ws' = Snaps!Back(some)
    <3>1. CASE UNCHANGED <<ws, index>>
      <4>1. Snaps!Back({}) = ws
        BY DEF Snaps!Back, StoreInv, Trees
      <4> QED BY <3>1, <4>1
    <3>2. CASE \E written \in SUBSET CheckoutWrites(Chosen) : ws' = With(written, ws, Chosen)
      <4>1. PICK written \in SUBSET CheckoutWrites(Chosen) : ws' = With(written, ws, Chosen)
        BY <3>2
      <4>2. written \in SUBSET Scope
        BY DEF CheckoutWrites
      <4> QED BY <1>1, <1>3, <2>1, <4>1, <4>2, WithIsBack
    <3> QED BY <3>1, <3>2 DEF CheckoutFails
  <2>3. Snaps!Return("err")
    BY <1>1, ReturnImplements DEF CheckoutFails
  <2>4. Snaps!Failed
    BY <1>1, <1>3, <2>2, <2>3 DEF Snaps!Failed, NoId
  <2> QED BY <2>4 DEF Snaps!Next
<1> QED
  BY <1>2, <1>3

LEMMA CleanImplements ==
  ASSUME StoreInv, CleanInv, Clean \/ CleanFails
  PROVE  Snaps!Next
<1>1. call \in RestoreCalls /\ call.at = "clean" /\ call.op = "restore"
  BY CleanStore DEF RestoreCalls
<1>2. /\ call.id # NoId
      /\ \A f \in Scope : index[f] = Chosen[f] /\ (f \in call.back \/ index[f] = Absent)
  BY <1>1 DEF CleanInv
<1>3. Scope \in SUBSET Files
  BY ScopeOfFiles DEF StoreInv
<1>4. Untracked \in SUBSET Scope /\ \A f \in Untracked : Nothing[f] = Chosen[f]
  BY <1>2, <1>3 DEF Untracked, Nothing
<1>5. \A some \in SUBSET Untracked : With(some, ws, Nothing) = Snaps!Back(some)
  BY <1>1, <1>2, <1>3, <1>4, WithIsBack
<1>6. CASE Clean
  <2>1. Snaps!Return("ok")
    BY <1>1, <1>6, ReturnImplements DEF Clean
  <2>2. ws' = Snaps!Back(Untracked)
    BY <1>5, <1>6 DEF Clean
  <2>3. Scope \subseteq call.back \cup Untracked
    BY <1>2 DEF Untracked
  <2>4. Snaps!Restored
    BY <1>1, <1>2, <1>4, <2>1, <2>2, <2>3 DEF Snaps!Restored, NoId
  <2> QED BY <2>4 DEF Snaps!Next
<1>7. CASE CleanFails
  <2>1. Snaps!Return("err")
    BY <1>1, <1>7, ReturnImplements DEF CleanFails
  <2>2. PICK some \in SUBSET Untracked : ws' = Snaps!Back(some)
    BY <1>5, <1>7 DEF CleanFails
  <2>3. Snaps!Failed
    BY <1>1, <1>2, <1>4, <2>1, <2>2 DEF Snaps!Failed, NoId
  <2> QED BY <2>3 DEF Snaps!Next
<1> QED
  BY <1>6, <1>7

LEMMA DropImplements ==
  ASSUME StoreInv, Drop
  PROVE  Snaps!Next
<1>1. /\ call.op # "restore" /\ call'.op # "restore" /\ config' = config /\ ws' = ws
      /\ answer' = "none"
  BY DEF Drop, Idle, Over
<1>2. CASE cp.initialized
  <2>1. Scope' = Scope
    BY <1>1, ScopeFixed
  <2>2. AddMatches' \in BOOLEAN
    BY DEF AddMatches
  <2>3. Snaps!Forget
    BY <1>1, <1>2, <2>1, <2>2 DEF Drop, Snaps!Forget
  <2> QED BY <2>3 DEF Snaps!Next
<1>3. CASE ~cp.initialized
  <2>1. UNCHANGED <<index, commits>>
    BY <1>3 DEF Drop
  <2>2. Snaps!Call
    BY <1>1, <2>1, SameReach DEF Snaps!Call
  <2> QED BY <2>2 DEF Snaps!Next
<1> QED
  BY <1>2, <1>3

LEMMA NextImplements ==
  StoreInv /\ CleanInv /\ StoreInv' /\ [Next]_vars => [Snaps!Next]_(Snaps!vars)
<1> SUFFICES ASSUME StoreInv, CleanInv, StoreInv', [Next]_vars PROVE [Snaps!Next]_(Snaps!vars)
  OBVIOUS
<1>1. CASE (\E words \in Commands : Exec(words)) \/ Checkpoint
  BY <1>1, CallImplements DEF Snaps!Next
<1>2. CASE Probe \/ InitRepo \/ Count
  BY <1>2, SilentSteps
<1>3. CASE \E id \in Listed \cup {NoId} : Restore(id)
  BY <1>3, RestoreImplements
<1>4. CASE Snapshot \/ SnapshotFails
  BY <1>4, SnapshotImplements
<1>5. CASE Run
  <2>1. call.op # "restore" /\ call'.op # "restore"
    BY <1>5, CallKinds, IdleAndOver DEF Run, StoreInv, ExecCalls
  <2>2. Snaps!Change
    BY <1>5, <2>1, Changes DEF Run, Restoring, Brought
  <2> QED BY <2>2 DEF Snaps!Next
<1>6. CASE Others
  <2>1. Restoring' = Restoring /\ Brought' = Brought
    BY <1>6, OthersStore DEF Restoring, Brought
  <2>2. Snaps!Change
    BY <1>6, <2>1, Changes DEF Others
  <2> QED BY <2>2 DEF Snaps!Next
<1>7. CASE Checkout
  BY <1>7, CheckoutImplements DEF Snaps!Next
<1>8. CASE CheckoutFails
  BY <1>8, CheckoutFailsImplements
<1>9. CASE Clean \/ CleanFails
  BY <1>9, CleanImplements
<1>10. CASE Drop
  BY <1>10, DropImplements
<1>11. CASE UNCHANGED vars
  BY <1>11, Stutters DEF vars, Restoring, Brought
<1> QED
  BY <1>1, <1>2, <1>3, <1>4, <1>5, <1>6, <1>7, <1>8, <1>9, <1>10, <1>11 DEF Next
-----------------------------------------------------------------------------
(***************************************************************************)
(* A restore between its two commands.                                     *)
(***************************************************************************)
LEMMA CheckoutCleanInv ==
  ASSUME StoreInv, Checkout
  PROVE  CleanInv'
<1>1. /\ call'.id = call.id /\ call.id # NoId /\ call'.at = "clean"
      /\ call'.back = CheckoutWrites(Chosen)
  BY RestoreChecksOut
<1>2. Scope' = Scope /\ Scope \in SUBSET Files /\ Chosen' = Chosen
  BY <1>1, ScopeFixed, ScopeOfFiles DEF Checkout, StoreInv, Chosen
<1>3. ASSUME NEW f \in Scope
      PROVE  /\ index'[f] = Chosen[f]
             /\ f \in call'.back \/ index'[f] = Absent
             /\ index'[f] = Absent \/ ws'[f] = Chosen[f]
  <2>1. /\ index'[f] = IF f \in CheckoutWrites(Chosen) THEN Chosen[f] ELSE index[f]
        /\ ws'[f] = IF f \in CheckoutWrites(Chosen) THEN Chosen[f] ELSE ws[f]
    BY <1>2 DEF Checkout, With
  <2>2. f \in CheckoutWrites(Chosen) <=> Chosen[f] # Absent \/ index[f] # Absent
    BY DEF CheckoutWrites
  <2> QED BY <1>1, <2>1, <2>2
<1> QED
  BY <1>1, <1>2, <1>3 DEF CleanInv

LEMMA OthersCleanInv ==
  ASSUME StoreInv, CleanInv, Others
  PROVE  CleanInv'
<1>1. /\ call'.op = call.op /\ call'.at = call.at
      /\ call.op = "restore" => call'.id = call.id /\ call'.back = call.back
      /\ call.at = "clean" => call'.others = call.others \cup {f \in Files : ws'[f] # ws[f]}
  BY OthersStore
<1>2. Scope' = Scope /\ Scope \in SUBSET Files /\ index' = index /\ commits' = commits
  BY ScopeFixed, ScopeOfFiles DEF Others, StoreInv
<1>3. SUFFICES ASSUME call.op = "restore", call.at = "clean"
               PROVE  /\ call'.id # NoId
                      /\ \A f \in Scope : /\ index[f] = Chosen[f]
                                          /\ f \in call'.back \/ index[f] = Absent
                                          /\ \/ f \in call'.others \/ index[f] = Absent
                                             \/ ws'[f] = Chosen[f]
  BY <1>1, <1>2 DEF CleanInv, Chosen
<1>4. /\ call.id # NoId
      /\ \A f \in Scope : /\ index[f] = Chosen[f]
                          /\ f \in call.back \/ index[f] = Absent
                          /\ f \in call.others \/ index[f] = Absent \/ ws[f] = Chosen[f]
  BY <1>3 DEF CleanInv
<1> QED
  BY <1>1, <1>2, <1>3, <1>4

LEMMA NextCleanInv == StoreInv /\ CleanInv /\ [Next]_vars => CleanInv'
<1> SUFFICES ASSUME StoreInv, CleanInv, [Next]_vars PROVE CleanInv'
  OBVIOUS
<1>1. CASE (\E words \in Commands : Exec(words)) \/ Checkpoint \/ Probe \/ InitRepo
  BY <1>1, CallSteps DEF CleanInv
<1>2. CASE \E id \in Listed \cup {NoId} : Restore(id)
  BY <1>2, RestoreBegins DEF CleanInv
<1>3. CASE Count
  BY <1>3, RestoreCounts DEF CleanInv, Count, RestoreCalls
<1>4. CASE Snapshot \/ SnapshotFails
  BY <1>4, SnapshotStore, SnapshotFailsStore DEF CleanInv
<1>5. CASE Run \/ Drop \/ CheckoutFails \/ Clean \/ CleanFails
  <2>1. call'.op # "restore"
    BY <1>5, IdleAndOver DEF Run, Drop, CheckoutFails, Clean, CleanFails, Return
  <2> QED BY <2>1 DEF CleanInv
<1>6. CASE Checkout
  BY <1>6, CheckoutCleanInv
<1>7. CASE Others
  BY <1>7, OthersCleanInv
<1>8. CASE UNCHANGED vars
  BY <1>8, ScopeFixed DEF vars, CleanInv, Chosen
<1> QED
  BY <1>1, <1>2, <1>3, <1>4, <1>5, <1>6, <1>7, <1>8 DEF Next

\* checkpoint, restore and the snapshots before commands, as git commands over
\* work-tree, index and commits, implement the store of snapshots: also where others
\* edit at any moment, where a commit is made whose id does not arrive, and where a
\* restore is cut, or fails, in its checkout, before its clean or in it.
THEOREM ImplementsSnapshotsCorrect == Spec => ImplementsSnapshots
<1>1. BaselineInv => CleanInv
  BY DEF BaselineInv
<1>2. Spec => [](StoreInv /\ CleanInv)
  BY InitStore, NextStore, NextCleanInv, <1>1, PTL DEF Spec
<1> QED
  BY <1>2, InitImplements, NextImplements, PTL DEF Spec, ImplementsSnapshots, Snaps!Spec
-----------------------------------------------------------------------------
(***************************************************************************)
(* The baseline of a writing command.                                      *)
(***************************************************************************)

\* Checkpoints only grow, and git does not come back for a session that missed it.
Later ==
  /\ config' = config
  /\ cp.git_unavailable => cp'.git_unavailable
  /\ Len(commits) \in Nat /\ Len(commits') \in Nat /\ Len(commits) <= Len(commits')
  /\ \A i \in 1..Len(commits) : commits'[i] = commits[i]

LEMMA UndoKept ==
  ASSUME UndoInv, undo' = undo, Later
  PROVE  UndoInv'
<1>1. Scope' = Scope /\ InWorkspace' = InWorkspace /\ config'.auto = config.auto
  BY ScopeFixed DEF Later
<1>2. undo.snap = "skipped" => Excused'
  BY <1>1 DEF UndoInv, Excused, Later
<1>3. ASSUME undo.snap = "taken"
      PROVE  /\ undo.id \in 1..Len(commits')
             /\ \A f \in DOMAIN undo.files : commits'[undo.id][f] = undo.files[f]
  <2>1. undo.id \in 1..Len(commits)
        /\ \A f \in DOMAIN undo.files : commits[undo.id][f] = undo.files[f]
    BY <1>3 DEF UndoInv, Listed
  <2> QED BY <2>1 DEF Later
<1> QED
  BY <1>1, <1>2, <1>3 DEF UndoInv, Listed

LEMMA SameCommits ==
  ASSUME StoreInv, UNCHANGED <<config, commits>>, cp.git_unavailable => cp'.git_unavailable
  PROVE  Later
BY Element DEF Later, StoreInv

LEMMA GrownCommits ==
  ASSUME StoreInv, UNCHANGED <<config, cp>>, commits' \in {commits, Append(commits, Added)}
  PROVE  Later
<1>1. Added \in Trees /\ commits \in Seq(Trees) /\ Len(commits) \in Nat
  BY GitTrees, Element DEF StoreInv
<1> QED
  BY <1>1, Appended DEF Later

LEMMA ExecBaseline ==
  ASSUME StoreInv, NEW words \in Commands, Exec(words)
  PROVE  Later /\ undo' = undo /\ RunInv'
<1>1. Later /\ undo' = undo
  BY SameCommits DEF Exec
<1>2. PICK exec \in ExecCalls :
        exec = [op |-> "exec", at |-> "run", others |-> {}, writes |-> Writes(words), snap |-> "skipped"]
  BY NewExec
<1>3. exec.snap = "skipped" /\ exec.writes = Writes(words)
  BY <1>2
<1>4. CASE ShouldSnapshot(words)
  <2>1. call' = AfterInit(exec)
    BY <1>2, <1>4 DEF Exec
  <2>2. call'.at # "run"
    BY <2>1, BegunCall
  <2> QED BY <1>1, <2>2 DEF RunInv
<1>5. CASE ~ShouldSnapshot(words)
  <2>1. call' = exec
    BY <1>2, <1>5 DEF Exec
  <2>2. IsReadOnly(words) => ~Writes(words)
    BY ReadOnlyNeverWrites, CheckpointsAssumption
  <2>3. Writes(words) => ~config.auto \/ ~InWorkspace \/ cp.git_unavailable
    BY <1>5, <2>2 DEF ShouldSnapshot
  <2>4. config' = config /\ cp' = cp /\ InWorkspace' = InWorkspace
    BY ScopeFixed DEF Exec
  <2>5. call'.snap = "skipped" /\ call'.writes = Writes(words)
    BY <1>3, <2>1
  <2>6. call'.writes => Excused'
    BY <2>3, <2>4, <2>5 DEF Excused
  <2> QED BY <1>1, <2>5, <2>6 DEF RunInv
<1> QED
  BY <1>4, <1>5

LEMMA InitBaseline ==
  ASSUME StoreInv, Probe \/ InitRepo
  PROVE  Later /\ undo' = undo /\ RunInv'
<1>1. call \in ExecCalls \cup CheckpointCalls /\ cp \in Checkpointers
  BY CallKinds DEF Probe, InitRepo, StoreInv
<1>2. cp.git_unavailable => cp'.git_unavailable
  BY <1>1, CheckpointerUpdates DEF Probe, InitRepo
<1>3. Later /\ undo' = undo
  BY <1>2, SameCommits DEF Probe, InitRepo
<1>4. call'.at = "run" => call'.snap = "failed"
  <2>1. CASE Abandon
    BY <1>1, <2>1, AbandonedCall
  <2>2. CASE call' = [call EXCEPT !.at = "init"]
    BY <1>1, <2>2, ExecUpdates, CheckpointUpdates
  <2>3. CASE call' = [call EXCEPT !.at = "snapshot"]
    BY <1>1, <2>3, ExecUpdates, CheckpointUpdates
  <2> QED BY <2>1, <2>2, <2>3 DEF Probe, InitRepo
<1> QED
  BY <1>3, <1>4 DEF RunInv

LEMMA SnapshotBaseline ==
  ASSUME StoreInv, Snapshot
  PROVE  Later /\ undo' = undo /\ RunInv'
<1>1. Added \in Trees /\ commits \in Seq(Trees) /\ cp \in Checkpointers /\ Len(commits) \in Nat
  BY GitTrees, Element DEF StoreInv
<1>2. /\ Len(commits') = Len(commits) + 1 /\ commits'[Len(commits) + 1] = Added
      /\ \A i \in 1..Len(commits) : commits'[i] = commits[i]
  BY <1>1, Appended DEF Snapshot
<1>3. cp'.last = Len(commits) + 1 /\ cp'.git_unavailable = cp.git_unavailable
  <2>1. PICK n \in Nat : n = Len(commits) + 1
    BY <1>1
  <2>2. cp' = [cp EXCEPT !.last = n]
    BY <2>1 DEF Snapshot
  <2> QED BY <1>1, <2>1, <2>2, CheckpointerUpdates
<1>4. Later /\ undo' = undo
  BY <1>1, <1>2, <1>3 DEF Later, Snapshot
<1>5. Scope' = Scope /\ ws' = ws
  BY ScopeFixed DEF Snapshot
<1>6. ASSUME call'.at = "run"
      PROVE  call'.others = {} /\ call'.snap = IF AddMatches THEN "taken" ELSE "partly"
  BY <1>6, SnapshotStore
<1>7. Scope \in SUBSET Files
  BY ScopeOfFiles DEF StoreInv
<1>8. AddMatches => \A f \in Scope : Added[f] = ws[f]
  BY <1>7 DEF Added
<1>9. cp'.last \in 1..Len(commits') /\ commits'[cp'.last] = Added
  BY <1>1, <1>2, <1>3
<1> QED
  BY <1>4, <1>5, <1>6, <1>8, <1>9 DEF RunInv, Listed

LEMMA RunBaseline ==
  ASSUME StoreInv, BaselineInv, Run
  PROVE  UndoInv' /\ RunInv'
<1>1. call \in ExecCalls /\ cp.last \in Nat
  BY CallKinds DEF Run, StoreInv, Checkpointers
<1>2. config' = config /\ commits' = commits /\ cp' = cp /\ call' = Idle
  BY DEF Run
<1>3. RunInv'
  BY <1>2, IdleAndOver DEF RunInv
<1>4. CASE undo' = undo
  <2>1. Later
    BY <1>2, SameCommits
  <2> QED BY <1>3, <1>4, <2>1, UndoKept DEF BaselineInv
<1>5. CASE ~(undo' = undo)
  <2> DEFINE kept == IF call.snap = "taken" THEN Scope \ call.others ELSE {}
  <2>1. /\ call.writes
        /\ undo' = [snap |-> call.snap, id |-> cp.last, files |-> [f \in kept |-> ws[f]]]
    BY <1>5 DEF Run
  <2>2. Scope' = Scope /\ InWorkspace' = InWorkspace /\ Scope \in SUBSET Files
    BY <1>2, ScopeFixed, ScopeOfFiles DEF StoreInv
  <2>3. kept \in SUBSET Scope
    OBVIOUS
  <2> HIDE DEF kept
  <2>4. PICK files \in [kept -> Contents] : files = [f \in kept |-> ws[f]]
    BY <2>2, <2>3 DEF StoreInv, Trees
  <2>5. undo' = [snap |-> call.snap, id |-> cp.last, files |-> files]
    BY <2>1, <2>4
  <2>6. undo'.snap = call.snap /\ undo'.id = cp.last /\ undo'.files = files /\ DOMAIN files = kept
    BY <2>5
  <2>7. call.snap \in {"skipped", "failed", "taken", "partly"}
    BY <1>1 DEF ExecCalls
  <2>8. undo' \in [snap : {"skipped", "failed", "taken", "partly"}, id : Nat,
                   files : UNION {[some -> Contents] : some \in SUBSET Scope}]
    BY <1>1, <2>3, <2>5, <2>7
  <2>9. call.snap = "skipped" => Excused
    BY <2>1 DEF Run, BaselineInv, RunInv
  <2>10. call.snap = "taken" =>
           cp.last \in Listed /\ \A f \in kept : commits[cp.last][f] = files[f]
    <3>1. call.snap = "taken" =>
            cp.last \in Listed /\ \A f \in Scope \ call.others : commits[cp.last][f] = ws[f]
      BY DEF Run, BaselineInv, RunInv
    <3> QED BY <2>4, <3>1 DEF kept
  <2>11. UndoInv'
    BY <1>2, <2>2, <2>6, <2>8, <2>9, <2>10 DEF UndoInv, Excused, Listed
  <2> QED BY <1>3, <2>11
<1> QED
  BY <1>4, <1>5

LEMMA OthersBaseline ==
  ASSUME StoreInv, RunInv, Others
  PROVE  Later /\ undo' = undo /\ RunInv'
<1>1. Later /\ undo' = undo
  BY SameCommits DEF Others
<1>2. /\ call'.at = call.at
      /\ call.at = "run" => /\ call'.writes = call.writes /\ call'.snap = call.snap
                            /\ call'.others = call.others \cup {f \in Files : ws'[f] # ws[f]}
  BY OthersStore
<1>3. UNCHANGED <<config, cp, commits>> /\ InWorkspace' = InWorkspace /\ Scope' = Scope
      /\ Scope \in SUBSET Files
  BY ScopeFixed, ScopeOfFiles DEF Others, StoreInv
<1>4. ASSUME call.at = "run"
      PROVE  /\ call.writes /\ call.snap = "skipped" => Excused
             /\ call.snap = "taken" =>
                  cp.last \in Listed /\ \A f \in Scope \ call'.others : commits[cp.last][f] = ws'[f]
  <2>1. call.snap = "taken" =>
          cp.last \in Listed /\ \A f \in Scope \ call.others : commits[cp.last][f] = ws[f]
    BY <1>4 DEF RunInv
  <2>2. \A f \in Scope \ call'.others : f \notin call.others /\ ws'[f] = ws[f]
    BY <1>2, <1>3, <1>4
  <2> QED BY <1>4, <2>1, <2>2 DEF RunInv
<1> QED
  BY <1>1, <1>2, <1>3, <1>4 DEF RunInv, Excused, Listed

LEMMA NextBaseline == StoreInv /\ BaselineInv /\ [Next]_vars => BaselineInv'
<1> SUFFICES ASSUME StoreInv, BaselineInv, [Next]_vars PROVE UndoInv' /\ RunInv'
  BY NextCleanInv DEF BaselineInv
<1>1. UndoInv /\ RunInv
  BY DEF BaselineInv
<1>2. CASE (\E words \in Commands : Exec(words)) \/ Probe \/ InitRepo \/ Snapshot
  BY <1>1, <1>2, ExecBaseline, InitBaseline, SnapshotBaseline, UndoKept
<1>3. CASE Checkpoint
  <2>1. call'.at # "run"
    BY <1>3, BegunCall DEF Checkpoint, CheckpointCalls
  <2>2. Later /\ undo' = undo
    BY <1>3, SameCommits DEF Checkpoint
  <2> QED BY <1>1, <2>1, <2>2, UndoKept DEF RunInv
<1>4. CASE SnapshotFails
  <2>1. call'.at = "run" => call'.snap = "failed"
    BY <1>4, SnapshotFailsStore
  <2>2. Later /\ undo' = undo
    BY <1>4, GrownCommits DEF SnapshotFails
  <2> QED BY <1>1, <2>1, <2>2, UndoKept DEF RunInv
<1>5. CASE Run
  BY <1>5, RunBaseline
<1>6. CASE (\E id \in Listed \cup {NoId} : Restore(id)) \/ Count \/ Checkout
  <2>1. call'.at # "run"
    BY <1>6, RestoreBegins, RestoreCounts, RestoreChecksOut
  <2>2. Later /\ undo' = undo
    BY <1>6, SameCommits DEF Restore, Count, Checkout
  <2> QED BY <1>1, <2>1, <2>2, UndoKept DEF RunInv
<1>7. CASE CheckoutFails \/ Clean \/ CleanFails
  <2>1. call'.at # "run"
    BY <1>7, IdleAndOver DEF CheckoutFails, Clean, CleanFails, Return
  <2>2. Later /\ undo' = undo
    BY <1>7, SameCommits DEF CheckoutFails, Clean, CleanFails
  <2> QED BY <1>1, <2>1, <2>2, UndoKept DEF RunInv
<1>8. CASE Drop
  <2>1. call'.at # "run" /\ undo' = NoUndo /\ NoUndo.snap = "none"
    BY <1>8, IdleAndOver DEF Drop, NoUndo
  <2> QED BY <2>1 DEF RunInv, UndoInv
<1>9. CASE Others
  BY <1>1, <1>9, OthersBaseline, UndoKept
<1>10. CASE UNCHANGED vars
  <2>1. Later /\ undo' = undo /\ Scope' = Scope
    BY <1>10, SameCommits, ScopeFixed DEF vars
  <2>2. RunInv'
    BY <1>1, <1>10, <2>1 DEF RunInv, vars, Excused, InWorkspace, Listed
  <2> QED BY <1>1, <2>1, <2>2, UndoKept
<1> QED
  BY <1>2, <1>3, <1>4, <1>5, <1>6, <1>7, <1>8, <1>9, <1>10 DEF Next

\* Only the clean of a restore reports success.
LEMMA OnlyClean ==
  ASSUME StoreInv, Next, call.at = "clean", call' = Idle, answer' = "ok"
  PROVE  Clean
<1>1. call \in RestoreCalls /\ call # Idle
  BY CallKinds DEF StoreInv, Idle
<1>2. call \notin ExecCalls \cup CheckpointCalls
  BY <1>1, CallKinds, ExecUpdates, CheckpointUpdates DEF StoreInv
<1>3. /\ ~(\E words \in Commands : Exec(words)) /\ ~Checkpoint
      /\ ~(\E id \in Listed \cup {NoId} : Restore(id)) /\ ~Drop
  BY <1>1 DEF Exec, Checkpoint, Restore, Drop
<1>4. ~Probe /\ ~InitRepo /\ ~Snapshot /\ ~SnapshotFails /\ ~Run /\ ~Count /\ ~Checkout
  BY DEF Probe, InitRepo, Snapshot, SnapshotFails, Run, Count, Checkout
<1>5. ~CheckoutFails /\ ~CleanFails
  BY DEF CheckoutFails, CleanFails, Return
<1>6. ~Others
  BY OthersStore, IdleAndOver
<1> QED
  BY <1>3, <1>4, <1>5, <1>6 DEF Next

LEMMA BaselineRestored ==
  ASSUME StoreInv, BaselineInv, Next, RestoresBaseline
  PROVE  \A f \in DOMAIN undo.files \ call.others : ws'[f] = undo.files[f]
<1>1. Clean /\ call \in RestoreCalls /\ call.op = "restore"
  BY OnlyClean, CleanStore DEF RestoresBaseline, RestoreCalls
<1>2. /\ undo.snap = "taken" /\ call.id = undo.id
      /\ \A f \in DOMAIN undo.files : Chosen[f] = undo.files[f]
  BY DEF RestoresBaseline, BaselineInv, UndoInv, Chosen
<1>3. DOMAIN undo.files \in SUBSET Scope
  BY <1>2 DEF BaselineInv, UndoInv, NoUndo
<1>4. Scope \in SUBSET Files
  BY ScopeOfFiles DEF StoreInv
<1>5. ASSUME NEW f \in DOMAIN undo.files \ call.others
      PROVE  ws'[f] = Chosen[f]
  <2>1. f \in Scope /\ f \in Files
    BY <1>3, <1>4
  <2>2. index[f] = Chosen[f] /\ (index[f] = Absent \/ ws[f] = Chosen[f])
    BY <1>1, <1>5, <2>1 DEF BaselineInv, CleanInv, RestoresBaseline
  <2>3. ws'[f] = IF index[f] = Absent THEN Absent ELSE ws[f]
    BY <1>1, <2>1 DEF Clean, With, Untracked, Nothing
  <2> QED BY <2>2, <2>3
<1> QED
  BY <1>2, <1>5

\* maybe_auto_snapshot, is_read_only and restore: for every set of commands and with
\* other programs editing at any moment, no command that writes escapes the snapshot
\* before it, and a restore of that snapshot that reports success leaves every captured
\* file as the command found it, but for those that others changed after the snapshot
\* or under the restore.
THEOREM BaselineKeptCorrect == Spec => BaselineKept
<1>1. ASSUME StoreInv, BaselineInv, BaselineInv', [Next]_vars
      PROVE  [/\ undo'.snap = "skipped" => Excused'
              /\ RestoresBaseline =>
                   \A f \in DOMAIN undo.files \ call.others : ws'[f] = undo.files[f]]_vars
  <2>1. undo'.snap = "skipped" => Excused'
    BY <1>1 DEF BaselineInv, UndoInv
  <2> QED BY <1>1, <2>1, BaselineRestored
<1>2. Spec => [](StoreInv /\ BaselineInv)
  BY InitStore, NextStore, NextBaseline, PTL DEF Spec
<1> QED
  BY <1>1, <1>2, PTL DEF Spec, BaselineKept
=============================================================================
