------------------------------ MODULE MCViewer ------------------------------
(***************************************************************************)
(* The files around a server for TLC, in three parts that are explored one *)
(* by one: the audit directory and its sweeps, the same directory with the *)
(* viewer that follows it, and the viewer's own files, which share nothing *)
(* with either.                                                            *)
(***************************************************************************)
EXTENDS AuditDir, Viewer

VARIABLE part   \* which of them this behaviour is about

McBodies == {[id |-> 1, len |-> 1, ok |-> TRUE], [id |-> 2, len |-> 2, ok |-> TRUE],
             [id |-> 3, len |-> 1, ok |-> FALSE], [id |-> 4, len |-> 4, ok |-> TRUE]}

McSymmetry == Permutations(Servers) \cup Permutations(Posters)

\* Bounds of the model where the viewer follows: the sessions write no more than four
\* events together; and the clock moves between two polls, from the first day to the
\* last, on which what was written on the first has expired.
Few == \A j, k \in Keys : j # k => Len(written'[j]) + Len(written'[k]) <= 4
ClockRests == today \in {0, MaxDay} /\ today' = today
ClockJumps == today' # today /\ polling = {} /\ reading = NotReading

MCInit == DirInit /\ ViewerInit /\ part \in {"serve", "follow", "post"}

MCNext ==
  /\ \/ part = "serve" /\ Serves /\ UNCHANGED viewerVars
     \/ part = "follow" /\ DirNext /\ Few /\ (ClockRests \/ ClockJumps) /\ UNCHANGED viewerVars
     \/ part = "post" /\ ViewerNext /\ UNCHANGED dirVars
  /\ UNCHANGED part
MCSpec == MCInit /\ [][MCNext]_<<dirVars, viewerVars, part>>
=============================================================================
