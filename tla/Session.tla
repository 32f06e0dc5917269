------------------------------- MODULE Session -------------------------------
(***************************************************************************)
(* One Session of the library (crates/execkit/src/session.rs) and the      *)
(* shell at the other end of its transport. The library is single-threaded *)
(* (&mut self); the shell runs concurrently, and only three queues connect *)
(* them: lines written and not yet read, a pending Ctrl-C, and output not  *)
(* yet received. A call (`op`) is a sequence of framed commands (`step`),  *)
(* each of which is written, awaited, and after its deadline interrupted   *)
(* and resynchronised (`stage`). Output is abstracted to the trailers      *)
(* ("frames"): the token, whether the command succeeded, and whose late    *)
(* stderr the frame carries. Time is abstracted: a deadline may pass       *)
(* whenever the library waits.                                             *)
(***************************************************************************)
EXTENDS Naturals, Sequences, Functions

CONSTANTS
  Modes,     \* session configurations to start from, a subset of AllModes
  MaxTokens  \* bound of the model: tokens the library may mint

\* "local": no checkpointer. "manual": remote with a workspace, snapshots on
\* request. "auto": remote with a workspace and automatic snapshots.
AllModes == {"local", "manual", "auto"}

ASSUME SessionAssumption == Modes \subseteq AllModes /\ MaxTokens \in Nat

VARIABLES
  mode,         \* how the session was built
  op,           \* the public call in progress
  step,         \* the framed command in progress, "idle" or "closed"
  stage,        \* where that command is
  tok, rtok,    \* its token, and the token of its resync
  next,         \* the next unused token
  poisoned, initialized, nogit,  \* the flags of Session and Checkpointer
  last,         \* Checkpointer.last: the token of the snapshot, or 0
  reply,        \* how the last framed command ended
  shell,        \* "up" or "gone"
  running,      \* the run line the shell executes, or NoLine
  ended,        \* the command of that line is over, its trailer is not
  success,      \* the status the trailer will report
  late,         \* whose stderr file the command copied to its own stderr
  inq,          \* lines the shell has not read
  sigint,       \* a Ctrl-C the shell has not handled
  out,          \* frames the library has not received
  files,        \* stderr temp files, named by the token of their run line
  lost,         \* history: those whose line Ctrl-C ended before it had their name
  ekf, ekx,     \* the shell variables __ek_f and __ek_x (0: unset)
  repo,         \* the shadow repository exists
  commits       \* its commits, oldest first, named by token

library == <<mode, op, step, stage, tok, rtok, next, poisoned, initialized,
             nogit, last, reply>>
process == <<shell, running, ended, success, late, ekf, ekx>>
queues == <<inq, sigint, out>>
disk == <<files, lost, repo, commits>>
vars == <<library, process, queues, disk>>

Ops == {"none", "exec", "checkpoint", "list", "restore", "drop"}
Commands == {"probe", "init", "snapshot", "user", "list", "diff", "restore", "cleanup"}
Outcomes == {"ok", "fail", "timeout", "exited", "stuck", "error"}
NoLine == [cmd |-> "none", tok |-> 0]
Save == [cmd |-> "save", tok |-> 0]
RunLine(c, t) == [cmd |-> c, tok |-> t]

\* Tokens one call may use: four framed commands, each with its resync.
CallTokens == 8

Init ==
  /\ mode \in Modes
  /\ op = "none" /\ step = "idle" /\ stage = "send"
  /\ tok = 0 /\ rtok = 0 /\ next = 1
  /\ poisoned = FALSE /\ initialized = FALSE /\ nogit = FALSE /\ last = 0
  /\ reply = [cmd |-> "none", outcome |-> "ok", mine |-> 0, frame |-> 0, late |-> 0]
  /\ shell = "up" /\ running = NoLine
  /\ ended = FALSE /\ success = TRUE /\ late = 0
  /\ inq = <<>> /\ sigint = FALSE /\ out = <<>>
  /\ files = {} /\ lost = {} /\ ekf = 0 /\ ekx = 0
  /\ repo = FALSE /\ commits = <<>>
-----------------------------------------------------------------------------
(***************************************************************************)
(* Public calls. A call that sends nothing (an unsupported or refused one, *)
(* a list before the first snapshot) leaves the state alone.               *)
(***************************************************************************)
Begin(o, s) ==
  /\ step = "idle" /\ next + CallTokens <= MaxTokens + 1
  /\ op' = o /\ step' = s
  /\ UNCHANGED <<mode, stage, tok, rtok, next, poisoned, initialized, nogit, last,
                 reply, process, queues, disk>>

\* The first framed command of ensure_init followed by a snapshot.
SnapshotStart == IF initialized THEN "snapshot" ELSE "probe"

\* exec: refused when poisoned; a changing command is preceded by a snapshot.
Exec ==
  /\ ~poisoned
  /\ \/ Begin("exec", "user")
     \/ mode = "auto" /\ ~nogit /\ Begin("exec", SnapshotStart)

\* checkpoint, checkpoints and restore do not look at `poisoned`.
Checkpoint ==
  /\ mode # "local" /\ (initialized \/ ~nogit)
  /\ Begin("checkpoint", SnapshotStart)

Checkpoints == initialized /\ Begin("list", "list")

Restore == initialized /\ Begin("restore", "diff")

\* Drop: nothing to clean up, or a best-effort removal of the shadow repository.
DropQuietly ==
  /\ step = "idle" /\ (poisoned \/ ~initialized)
  /\ op' = "drop" /\ step' = "closed"
  /\ UNCHANGED <<mode, stage, tok, rtok, next, poisoned, initialized, nogit, last,
                 reply, process, queues, disk>>

DropCleaning == ~poisoned /\ initialized /\ Begin("drop", "cleanup")
-----------------------------------------------------------------------------
(***************************************************************************)
(* run_framed_for, interrupt and resync.                                   *)
(***************************************************************************)

\* Mutant: a snapshot that was interrupted is tried again before the command.
ContinuationRetrying(outcome, dead) ==
  IF outcome = "timeout" /\ step = "snapshot" THEN "snapshot"
  ELSE IF outcome = "ok" /\ step \in {"probe", "init"} THEN [probe |-> "init", init |-> "snapshot"][step]
  ELSE IF step \in {"diff", "cleanup"} THEN [diff |-> "restore", cleanup |-> "closed"][step]
  ELSE IF op = "exec" /\ step # "user" /\ ~dead THEN "user"
  ELSE "idle"

\* The framed command that follows the current one, "idle" when the call returns.
\* A failed snapshot degrades to the user's command, unless it poisoned the
\* session; restore goes on after whatever happened to its diff.
Continuation(outcome, dead) ==
  LET afterOk == [probe |-> "init", init |-> "snapshot"]
      always == [diff |-> "restore", cleanup |-> "closed"]
  IN  IF outcome = "ok" /\ step \in DOMAIN afterOk THEN afterOk[step]
      ELSE IF step \in DOMAIN always THEN always[step]
      ELSE IF op = "exec" /\ step # "user" /\ ~dead THEN "user"
      ELSE "idle"

\* Mutant: a timed-out internal command is taken for a result (run_framed
\* without its test of timed_out).
EndTimeoutIsResult(outcome, frame, stderr, dead) ==
  /\ step' = Continuation(outcome, dead)
  /\ op' = IF step' = "idle" THEN "none" ELSE op
  /\ stage' = "send"
  /\ poisoned' = (poisoned \/ dead)
  /\ reply' = [cmd |-> step, outcome |-> outcome, mine |-> tok, frame |-> frame, late |-> stderr]
  /\ nogit' = (nogit \/ (step = "probe" /\ outcome = "fail"))
  /\ initialized' = (initialized \/ (step = "init" /\ outcome \in {"ok", "timeout"}))
  /\ last' = IF step = "snapshot" /\ outcome \in {"ok", "timeout"} THEN tok ELSE last
  /\ UNCHANGED <<mode, rtok>>

\* The framed command is over; `frame` is the token of the trailer that ended it.
End(outcome, frame, stderr, dead) ==
  /\ step' = Continuation(outcome, dead)
  /\ op' = IF step' = "idle" THEN "none" ELSE op
  /\ stage' = "send"
  /\ poisoned' = (poisoned \/ dead)
  /\ reply' = [cmd |-> step, outcome |-> outcome, mine |-> tok, frame |-> frame, late |-> stderr]
  /\ nogit' = (nogit \/ (step = "probe" /\ outcome = "fail"))
  /\ initialized' = (initialized \/ (step = "init" /\ outcome = "ok"))
  /\ last' = IF step = "snapshot" /\ outcome = "ok" THEN tok ELSE last
  /\ UNCHANGED <<mode, rtok>>

\* A fresh token and the payload. Bytes written to a shell that is gone vanish.
Send ==
  /\ step \in Commands /\ stage = "send"
  /\ tok' = next /\ next' = next + 1
  /\ inq' = IF shell = "up" THEN Append(inq, RunLine(step, next)) ELSE inq
  /\ stage' = "wait"
  /\ UNCHANGED <<mode, op, step, rtok, poisoned, initialized, nogit, last, reply,
                 process, sigint, out, disk>>

\* Or the transport notices, and the `?` behind write_all returns its error.
SendFails ==
  /\ step \in Commands /\ stage = "send" /\ shell = "gone"
  /\ End("error", 0, 0, FALSE)
  /\ UNCHANGED <<tok, next, process, queues, disk>>

\* parse skips whatever is not framed by the command's own markers.
Receive ==
  /\ stage = "wait" /\ out # <<>>
  /\ out' = Tail(out)
  /\ IF Head(out).tok = tok
       THEN /\ End(IF Head(out).ok THEN "ok" ELSE "fail", tok, Head(out).late, FALSE)
            /\ UNCHANGED <<tok, next>>
       ELSE UNCHANGED library
  /\ UNCHANGED <<process, inq, sigint, disk>>

\* recv_timeout returned None before the deadline: the channel is closed.
Eof ==
  /\ stage = "wait" /\ shell = "gone" /\ out = <<>>
  /\ End("exited", 0, 0, TRUE)
  /\ UNCHANGED <<tok, next, process, queues, disk>>

\* Mutant: the save line is missing, so the cleanup finds its own file's name.
DeadlineWithoutSave ==
  /\ stage = "wait" /\ shell = "up"
  /\ rtok' = next /\ next' = next + 1
  /\ \E kept \in {inq, <<>>} : inq' = Append(kept, RunLine("resync", next))
  /\ sigint' = TRUE
  /\ stage' = "resync"
  /\ UNCHANGED <<mode, op, step, tok, poisoned, initialized, nogit, last, reply,
                 process, out, disk>>

\* Mutant: the resync is framed by the markers of the interrupted command.
DeadlineSameMarkers ==
  /\ stage = "wait" /\ shell = "up"
  /\ rtok' = tok
  /\ \E kept \in {inq, <<>>} : inq' = kept \o <<Save, RunLine("resync", tok)>>
  /\ sigint' = TRUE
  /\ stage' = "resync"
  /\ UNCHANGED <<mode, op, step, tok, next, poisoned, initialized, nogit, last, reply,
                 process, out, disk>>

\* The deadline passed: Ctrl-C, the line that saves __ek_f, and the cleanup
\* under a token of its own. The terminal may discard unread input on Ctrl-C.
Deadline ==
  /\ stage = "wait"
  /\ rtok' = next /\ next' = next + 1
  /\ IF shell = "up"
       THEN /\ \E kept \in {inq, <<>>} : inq' = kept \o <<Save, RunLine("resync", next)>>
            /\ sigint' = TRUE
       ELSE UNCHANGED <<inq, sigint>>
  /\ stage' = "resync"
  /\ UNCHANGED <<mode, op, step, tok, poisoned, initialized, nogit, last, reply,
                 process, out, disk>>

\* Mutant: the first trailer that arrives is taken for the end of the resync.
ResyncFirstFrame ==
  /\ stage = "resync" /\ out # <<>>
  /\ out' = Tail(out)
  /\ End("timeout", Head(out).tok, Head(out).late, FALSE)
  /\ UNCHANGED <<tok, next, process, inq, sigint, disk>>

\* Everything before the end of the resync is discarded.
ResyncReceive ==
  /\ stage = "resync" /\ out # <<>>
  /\ out' = Tail(out)
  /\ IF Head(out).tok = rtok
       THEN /\ End("timeout", rtok, Head(out).late, FALSE)
            /\ UNCHANGED <<tok, next>>
       ELSE UNCHANGED library
  /\ UNCHANGED <<process, inq, sigint, disk>>

\* Mutant: the resync ends with the shell or with its answer, never with time.
ResyncNoDeadline ==
  /\ stage = "resync" /\ shell = "gone" /\ out = <<>>
  /\ End("stuck", 0, 0, TRUE)
  /\ UNCHANGED <<tok, next, process, queues, disk>>

\* Mutant: the failed resync is reported, but the session is not poisoned.
ResyncFailsUsable ==
  /\ stage = "resync"
  /\ End("stuck", 0, 0, FALSE)
  /\ UNCHANGED <<tok, next, process, queues, disk>>

\* Five seconds without an answer, a closed channel, or a failed write.
ResyncFails ==
  /\ stage = "resync"
  /\ End("stuck", 0, 0, TRUE)
  /\ UNCHANGED <<tok, next, process, queues, disk>>
-----------------------------------------------------------------------------
(***************************************************************************)
(* The shell.                                                              *)
(***************************************************************************)

\* It reads a line when it is idle. The save line copies the name of a stderr file.
ShellReads ==
  /\ shell = "up" /\ running = NoLine /\ ~sigint /\ inq # <<>>
  /\ inq' = Tail(inq)
  /\ IF Head(inq) = Save
       THEN /\ ekx' = ekf
            /\ UNCHANGED <<running, ended, late>>
       ELSE /\ running' = Head(inq)
            /\ ended' = FALSE /\ late' = 0
            /\ UNCHANGED ekx
  /\ UNCHANGED <<library, shell, success, ekf, sigint, out, disk>>

\* The run line begins with __ek_f=$(mktemp): a process of its own makes the file.
ShellMakesFile ==
  /\ shell = "up" /\ running # NoLine /\ ekf # running.tok
  /\ files' = files \cup {running.tok}
  /\ UNCHANGED <<library, process, queues, lost, repo, commits>>

\* The shell assigns the name: mktemp's, or where that failed one of its own, which
\* the next command of the line creates.
ShellNamesFile ==
  /\ shell = "up" /\ running # NoLine /\ ekf # running.tok
  /\ ekf' = running.tok
  /\ files' \in {files, files \cup {running.tok}}
  /\ UNCHANGED <<library, shell, running, ended, success, late, ekx, queues, lost, repo, commits>>

\* The command of the run line does its work, its stderr in the file. The cleanup of
\* a resync copies the saved file to its stderr, removes it and unsets the name.
ShellExecutes ==
  /\ shell = "up" /\ running # NoLine /\ ekf = running.tok /\ ~ended
  /\ ended' = TRUE
  /\ \E ok \in BOOLEAN :
       /\ success' = ok
       /\ repo' = IF ok THEN (running.cmd = "init" \/ (repo /\ running.cmd # "cleanup"))
                        ELSE repo
       /\ commits' = IF ok /\ running.cmd = "snapshot" THEN Append(commits, running.tok)
                                                      ELSE commits
       /\ IF running.cmd = "resync"
            THEN /\ late' = IF ekx \in files THEN ekx ELSE 0
                 /\ files' = (files \cup {ekf}) \ {ekx}
                 /\ ekx' = 0
            ELSE /\ files' = files \cup {ekf}
                 /\ UNCHANGED <<late, ekx>>
  /\ UNCHANGED <<library, shell, running, ekf, queues, lost>>

\* The trailer prints the frame and the stderr file and removes the file.
ShellPrints ==
  /\ shell = "up" /\ ended
  /\ running' = NoLine /\ ended' = FALSE
  /\ files' = files \ {ekf}
  /\ ekf' = 0
  /\ out' = Append(out, [tok |-> running.tok, ok |-> success, late |-> late])
  /\ UNCHANGED <<library, shell, success, late, ekx, inq, sigint, lost, repo, commits>>

\* Ctrl-C finds the shell idle, or the command ignores it, or the run line is
\* abandoned: before it has a file or its name, or before, during or after the
\* trailer's `rm`.
ShellInterrupted ==
  /\ shell = "up" /\ sigint
  /\ sigint' = FALSE
  /\ \/ UNCHANGED <<running, ended, files, lost>>
     \/ /\ running # NoLine
        /\ running' = NoLine /\ ended' = FALSE
        /\ files' \in {files} \cup (IF ended THEN {files \ {ekf}} ELSE {})
        /\ lost' = IF ekf # running.tok THEN lost \cup ({running.tok} \cap files) ELSE lost
  /\ UNCHANGED <<library, shell, success, late, ekf, ekx, inq, out, repo, commits>>

\* `exit`, a kill, a lost connection: unread input is lost, output is not.
ShellExits ==
  /\ shell = "up"
  /\ shell' = "gone"
  /\ running' = NoLine /\ ended' = FALSE
  /\ inq' = <<>> /\ sigint' = FALSE
  /\ UNCHANGED <<library, success, late, ekf, ekx, out, disk>>
-----------------------------------------------------------------------------
Call == Exec \/ Checkpoint \/ Checkpoints \/ Restore \/ DropQuietly \/ DropCleaning

Library == Send \/ SendFails \/ Receive \/ Eof \/ Deadline \/ ResyncReceive \/ ResyncFails

Shell ==
  \/ ShellReads \/ ShellMakesFile \/ ShellNamesFile \/ ShellExecutes \/ ShellPrints
  \/ ShellInterrupted \/ ShellExits

Next == Call \/ Library \/ Shell

Spec == Init /\ [][Next]_vars

\* The library's thread runs and its clock advances. Nothing is owed by the shell.
FairSpec == Spec /\ WF_vars(Library)
-----------------------------------------------------------------------------
(***************************************************************************)
(* Properties.                                                             *)
(***************************************************************************)
\* Framing of a live session (run_framed_for: "it poisons the session only if
\* that fails or the shell exits"): whenever the next command may be sent, the
\* previous one is entirely over. The shell is idle, nothing is left to read on
\* either side and no Ctrl-C is under way that would hit the next command.
InSync ==
  stage = "send" /\ ~poisoned =>
    running = NoLine /\ inq = <<>> /\ out = <<>> /\ ~sigint

\* What a framed command returns is its own: a result comes from the trailer
\* that its token framed, and the stderr reported with a timeout is that of the
\* interrupted command.
OwnFrame ==
  /\ reply.outcome \in {"ok", "fail"} => reply.frame = reply.mine
  /\ reply.outcome = "timeout" /\ ~poisoned => reply.late \in {0, reply.mine}

\* resync and the trailer together: a live session leaves no stderr temp file
\* behind, whether commands ended, timed out or were interrupted in the trailer,
\* but those of lines that Ctrl-C ended after mktemp had made the file and before
\* the shell had its name: nothing that runs later can know of them.
NoStrayFiles ==
  stage = "send" /\ ~poisoned /\ shell = "up" => files \subseteq lost

\* The command in flight, as the shell sees it.
Work ==
  IF RunLine(step, tok) \in Range(inq) THEN "queued"
  ELSE IF running = RunLine(step, tok) /\ ~ended THEN "started"
  ELSE "over"

Channel == INSTANCE CommandChannel WITH
  call <- IF stage = "send" THEN "idle" ELSE "open",
  work <- IF stage = "send" THEN "over" ELSE Work,
  usable <- ~poisoned /\ shell = "up"

\* The session implements the abstract channel: no interrupted, late or unread
\* command starts, or goes on, once its call has returned.
ImplementsChannel == Channel!Spec

\* What the checkpointer believes exists on the other side: `initialized` stands
\* for a repository, and `last`, which restore_last passes on unseen, for a commit.
SnapshotsExist ==
  /\ initialized /\ step \notin {"cleanup", "closed"} => repo
  /\ last # 0 => last \in Range(commits)

\* Every call returns, whatever the shell does or fails to do: a deadline ends
\* the wait for the trailer and another one the resync.
CallReturns == step \in Commands ~> step \in {"idle", "closed"}

\* The core of it, without fairness: whatever comes back, or does not, a call tries
\* nothing twice. Each thing it does, and each time it gives up waiting, brings it
\* nearer to its end; nothing but passing over an alien frame leaves it where it was.
CommandsLeft ==
  [probe |-> 4, init |-> 3, snapshot |-> 2, user |-> 1, list |-> 1, diff |-> 2, restore |-> 1,
   cleanup |-> 1, idle |-> 0, closed |-> 0]
StagesLeft == [send |-> 2, wait |-> 1, resync |-> 0]
CallLeft == 3 * CommandsLeft[step] + StagesLeft[stage]
CallAdvances ==
  [][(step \in Commands => CallLeft' < CallLeft \/ UNCHANGED library)]_vars

\* The commands of a list or a restore never belong to an exec: nothing the user
\* typed is behind them.
CallInv == step \in {"list", "diff", "restore"} => op # "exec"
-----------------------------------------------------------------------------
(***************************************************************************)
(* The inductive invariant of the proofs (SessionProofs). BeliefsInv holds *)
(* in every session, also in a poisoned one whose shell still runs what    *)
(* was left to it: tokens are fresh, and what a trailer reports was done.  *)
(***************************************************************************)
Steps == Commands \cup {"idle", "closed"}
Lines == [cmd : Commands \cup {"none", "save", "resync"}, tok : Nat]
Frames == [tok : Nat, ok : BOOLEAN, late : Nat]
Replies == [cmd : Commands \cup {"none"}, outcome : Outcomes, mine : Nat, frame : Nat, late : Nat]

SessionTypeOK ==
  /\ mode \in Modes /\ op \in Ops /\ step \in Steps /\ stage \in {"send", "wait", "resync"}
  /\ tok \in Nat /\ rtok \in Nat /\ next \in Nat \ {0} /\ last \in Nat
  /\ poisoned \in BOOLEAN /\ initialized \in BOOLEAN /\ nogit \in BOOLEAN
  /\ reply \in Replies
  /\ shell \in {"up", "gone"} /\ running \in Lines
  /\ ended \in BOOLEAN /\ success \in BOOLEAN /\ late \in Nat
  /\ inq \in Seq(Lines) /\ sigint \in BOOLEAN /\ out \in Seq(Frames)
  /\ files \in SUBSET Nat /\ lost \in SUBSET Nat /\ ekf \in Nat /\ ekx \in Nat
  /\ repo \in BOOLEAN /\ commits \in Seq(Nat)

Closing == step \in {"cleanup", "closed"}

\* Every token in use was minted before, and the two of a resync differ.
TokensInv ==
  /\ tok < next /\ rtok < next
  /\ stage # "send" => step \in Commands /\ tok > 0
  /\ stage = "resync" => tok < rtok
  /\ step = "closed" => stage = "send"

\* A run line: its token is old or that of the command awaited, and only the
\* Drop of a session sends a cleanup.
Known(line) ==
  /\ line.tok < next
  /\ line.cmd = "cleanup" => Closing
  /\ stage = "wait" /\ line.tok = tok => line.cmd = step

\* The lasting effect that command c with token t has when it succeeds.
Done(c, t) ==
  /\ c = "init" /\ ~Closing => repo
  /\ c = "snapshot" => t \in Range(commits)

\* A frame: if it ends the command awaited with success, the command was done.
Truthful(frame) ==
  /\ frame.tok < next
  /\ stage = "wait" /\ frame.tok = tok /\ frame.ok => Done(step, tok)

BeliefsInv ==
  /\ TokensInv
  /\ \A line \in {running} \cup Range(inq) : Known(line)
  /\ running = NoLine => ~ended
  /\ ended /\ success => Done(running.cmd, running.tok)
  /\ \A frame \in Range(out) : Truthful(frame)
  /\ SnapshotsExist
-----------------------------------------------------------------------------
(***************************************************************************)
(* LiveInv: where the one command of a live session can be, from the line  *)
(* the library wrote to the frame it receives, and which stderr file each  *)
(* of the shell's two names stands for. A resync puts two more lines       *)
(* behind the command and follows it through the same places.              *)
(***************************************************************************)
Mine == RunLine(step, tok)
Resync == RunLine("resync", rtok)
Rest == IF stage = "resync" THEN <<Save, Resync>> ELSE <<>>

MyFrames == [tok : {tok}, ok : BOOLEAN, late : {0}]
MyOut == {<<>>} \cup {<<f>> : f \in MyFrames}

\* The resync's frame may carry the stderr of the command it interrupted.
EndFrames == [tok : {rtok}, ok : BOOLEAN, late : {0, tok}]
EndOut == {<<g>> : g \in EndFrames} \cup {<<f, g>> : f \in MyFrames, g \in EndFrames}

AtRest == running = NoLine /\ ~ended
Tidy == ekf = 0 /\ ekx = 0 /\ files \subseteq lost

\* A name in use.
Named(name) == {name} \ {0}

\* The command is unread, runs (or has just ended), and is over: printed, or
\* discarded unread by the terminal.
Unread == inq = <<Mine>> \o Rest /\ AtRest /\ Tidy /\ out = <<>>
Runs ==
  /\ inq = Rest /\ running = Mine /\ out = <<>>
  /\ late = 0 /\ ekf \in {0, tok} /\ (ended => ekf = tok) /\ ekx = 0
  /\ files \subseteq lost \cup {tok}
Over == inq = Rest /\ AtRest /\ Tidy /\ out \in MyOut

\* The resync: Ctrl-C abandoned the run line, the save line was read, the cleanup
\* is about to remove the saved file, has done it, and has printed its trailer.
Abandoned ==
  /\ inq = Rest /\ AtRest /\ out = <<>>
  /\ ekf \in {0, tok} /\ ekx = 0 /\ files \subseteq lost \cup Named(ekf)
Saved ==
  /\ inq = <<Resync>> /\ AtRest /\ out \in MyOut
  /\ ekx = ekf /\ ekf \in {0, tok} /\ files \subseteq lost \cup Named(ekf)
Cleans ==
  /\ inq = <<>> /\ running = Resync /\ ~ended /\ out \in MyOut
  /\ late = 0 /\ ekx \in {0, tok} /\ ekf \in {ekx, rtok}
  /\ files \subseteq lost \cup {rtok} \cup Named(ekx)
Cleaned ==
  /\ inq = <<>> /\ running = Resync /\ ended /\ out \in MyOut
  /\ late \in {0, tok} /\ ekf = rtok /\ ekx = 0 /\ files \subseteq lost \cup {rtok}
Answered == inq = <<>> /\ AtRest /\ Tidy /\ out \in MyOut \cup EndOut

LiveInv ==
  ~poisoned =>
    /\ stage = "send" => AtRest /\ inq = <<>> /\ out = <<>> /\ ~sigint /\ (shell = "up" => Tidy)
    /\ stage = "wait" /\ shell = "up" => ~sigint /\ (Unread \/ Runs \/ Over)
    /\ stage = "resync" /\ shell = "up" =>
         \/ Unread \/ Runs \/ Over
         \/ ~sigint /\ (Abandoned \/ Saved \/ Cleans \/ Cleaned \/ Answered)
    /\ stage = "wait" /\ shell = "gone" => AtRest /\ inq = <<>> /\ ~sigint /\ out \in MyOut
    /\ stage = "resync" /\ shell = "gone" => AtRest /\ inq = <<>> /\ ~sigint /\ out \in MyOut \cup EndOut

SessionInv == SessionTypeOK /\ BeliefsInv /\ LiveInv /\ OwnFrame
=============================================================================
