------------------------------ MODULE Snapshots ------------------------------
(***************************************************************************)
(* What a session's checkpoints promise: a checkpoint holds the captured   *)
(* files as they are when it is taken; a restore brings back one after     *)
(* another, files made since included, and touches nothing else; it        *)
(* reports success only if it has brought back all of them.                *)
(***************************************************************************)
EXTENDS Naturals, Sequences

CONSTANTS
  Files,      \* every file of the machine that the model tells apart
  Contents    \* what a file may hold, its absence included

VARIABLES
  files,      \* the files on the machine
  captured,   \* which of them checkpoints are about
  reachable,  \* every configured path exists or is known to the store
  saved,      \* the checkpoints taken so far
  restoring,  \* the checkpoint a call is restoring, or 0
  brought,    \* the files it has brought back
  result      \* what a restore has reported, until the next call

vars == <<files, captured, reachable, saved, restoring, brought, result>>

Trees == [Files -> Contents]

\* The files, some of them as in the checkpoint that is being restored.
Back(some) == [f \in Files |-> IF f \in some THEN saved[restoring][f] ELSE files[f]]

Init ==
  /\ files \in Trees /\ captured \in SUBSET Files
  /\ reachable \in BOOLEAN
  /\ saved = <<>> /\ restoring = 0 /\ brought = {} /\ result = "none"

\* Commands of the agent and other programs, at any time.
Change ==
  /\ files' \in Trees
  /\ reachable' \in BOOLEAN
  /\ UNCHANGED <<captured, saved, restoring, brought, result>>

Take ==
  /\ \E tree \in Trees :
       /\ reachable => \A f \in captured : tree[f] = files[f]
       /\ saved' = Append(saved, tree)
  /\ reachable' \in BOOLEAN
  /\ UNCHANGED <<files, captured, restoring, brought, result>>

Begin ==
  /\ restoring = 0
  /\ restoring' \in 1..Len(saved) /\ result' = "none"
  /\ UNCHANGED <<files, captured, reachable, saved, brought>>

Put ==
  /\ restoring # 0
  /\ \E some \in SUBSET captured : files' = Back(some) /\ brought' = brought \cup some
  /\ reachable' \in BOOLEAN
  /\ UNCHANGED <<captured, saved, restoring, result>>

Return(outcome) ==
  /\ restoring' = 0 /\ brought' = {} /\ result' = outcome
  /\ reachable' \in BOOLEAN
  /\ UNCHANGED <<captured, saved>>

Restored ==
  /\ restoring # 0
  /\ \E some \in SUBSET captured : files' = Back(some) /\ captured \subseteq brought \cup some
  /\ Return("ok")

Failed ==
  /\ restoring # 0
  /\ \E some \in SUBSET captured : files' = Back(some)
  /\ Return("err")

\* A restore of a checkpoint that does not exist.
Refused ==
  /\ restoring = 0
  /\ result' = "err"
  /\ UNCHANGED <<files, captured, reachable, saved, restoring, brought>>

\* A call begins.
Call ==
  /\ result' = "none"
  /\ UNCHANGED <<files, captured, reachable, saved, restoring, brought>>

\* The end of the session.
Forget ==
  /\ saved' = <<>> /\ result' = "none"
  /\ reachable' \in BOOLEAN
  /\ UNCHANGED <<files, captured, restoring, brought>>

Next == Change \/ Take \/ Call \/ Begin \/ Put \/ Restored \/ Failed \/ Refused \/ Forget

Spec == Init /\ [][Next]_vars
=============================================================================
