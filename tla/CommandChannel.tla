--------------------------- MODULE CommandChannel ---------------------------
(***************************************************************************)
(* What run_framed_for promises its callers about a persistent shell: one  *)
(* command at a time. A command is submitted when a call opens, starts at  *)
(* most once and only while that call is open, and the call is answered    *)
(* only when the command is over. When the shell can no longer be relied   *)
(* on the channel is unusable for ever and promises nothing more.          *)
(***************************************************************************)
VARIABLES
  call,   \* "idle" or "open"
  work,   \* the submitted command: "queued", "started" or "over"
  usable

vars == <<call, work, usable>>

Init == call = "idle" /\ work = "over" /\ usable = TRUE

Submit ==
  /\ call = "idle" /\ work = "over"
  /\ call' = "open" /\ work' = "queued"

Start ==
  /\ call = "open" /\ work = "queued"
  /\ work' = "started" /\ UNCHANGED call

\* It ended or was interrupted, or was discarded before it started.
Finish ==
  /\ call = "open" /\ work \in {"queued", "started"}
  /\ work' = "over" /\ UNCHANGED call

Answer ==
  /\ call = "open" /\ work = "over"
  /\ call' = "idle" /\ UNCHANGED work

\* The shell exits, or does not come back after Ctrl-C.
Break == usable /\ usable' = FALSE

Next ==
  \/ usable /\ (Submit \/ Start \/ Finish \/ Answer) /\ UNCHANGED usable
  \/ Break
  \/ ~usable /\ ~usable'

Spec == Init /\ [][Next]_vars
=============================================================================
