----------------------------- MODULE Checkpoints -----------------------------
(***************************************************************************)
(* Checkpoints of a remote workspace (execkit/src/checkpoint.rs and the    *)
(* calls of session.rs that use them): a shadow git repository per         *)
(* session, a snapshot before every command that may write, and restore.   *)
(* A step is one framed command, or one git command of it where it has     *)
(* two that change something; a command that its deadline cuts or that     *)
(* fails half-way leaves any part of its work. What the deadline does to   *)
(* the session is module Session.                                          *)
(***************************************************************************)
EXTENDS Naturals, Sequences, SequencesExt

CONSTANTS
  Files,       \* the files of the workspace
  Texts,       \* contents of a file
  Scopes,      \* checkpoint_paths, each as the files under it, with the files that
               \* the built-in and the user's exclude patterns match
  Commands,    \* what the agent may run, as words
  MaxCommits   \* bound of the model: snapshots of a session

\* A path that names an excluded file makes git add complain and add the rest.
ASSUME CheckpointsAssumption ==
  /\ Texts # {}
  /\ \A s \in Scopes : /\ s.paths \subseteq SUBSET Files /\ s.ignored \subseteq Files
                       /\ \A p \in s.paths : ~(p \subseteq s.ignored)
  /\ \A words \in Commands : words \in Seq(STRING) /\ words # <<>>

Absent == "absent"
Contents == Texts \cup {Absent}
Trees == [Files -> Contents]
Nothing == [f \in Files |-> Absent]
NoId == 0                 \* no commit: parse_sha found none, or git knows no such id

VARIABLES
  config,      \* the builder's choices: paths, auto, workspace
  ws,          \* contents of the files
  root,        \* the workspace directory exists
  git,         \* git is installed
  index,       \* the shadow repository's index
  commits,     \* its commits, oldest first
  cp,          \* Checkpointer: initialized, git_unavailable, last
  call,        \* the call in progress and where it is; history: the files that others
               \* have changed since its snapshot or its checkout
  answer,      \* what a restore has returned, until the next call
  undo         \* history: the snapshot of the last writing command, and the files as the
               \* command found them, without those that others changed between the two

vars == <<config, ws, root, git, index, commits, cp, call, answer, undo>>

Idle == [op |-> "none", at |-> "idle", others |-> {}]
Over == [op |-> "drop", at |-> "dropped", others |-> {}]
NoUndo == [snap |-> "none"]

Init ==
  /\ config \in [scope : Scopes, auto : BOOLEAN, workspace : BOOLEAN]
  /\ ws \in {Nothing, [f \in Files |-> CHOOSE t \in Texts : TRUE]}
  /\ root \in BOOLEAN /\ (~root => ws = Nothing)
  /\ git \in BOOLEAN
  /\ index = Nothing /\ commits = <<>>
  /\ cp = [initialized |-> FALSE, git_unavailable |-> FALSE, last |-> NoId]
  /\ call = Idle /\ answer = "none" /\ undo = NoUndo
-----------------------------------------------------------------------------
(***************************************************************************)
(* is_read_only. A command is a sequence of words and operators.           *)
(***************************************************************************)
READ_ONLY == {"ls", "cat", "echo", "/bin/ls"}
Splits == {"|", ";", "&", "nl", "cr"}
Hiding == {">", "$(", "backtick", "<("}

\* The first words of the segments.
StartsAfter(words, separators) ==
  LET starts == {1} \cup {i + 1 : i \in {j \in 1..(Len(words) - 1) : words[j] \in separators}}
  IN {words[i] : i \in starts} \ separators
Programs(words) == StartsAfter(words, Splits)

\* Mutant: only the first program of a pipeline counts.
IsReadOnlyFirst(words) ==
  /\ ToSet(words) \cap Hiding = {}
  /\ Head(words) \in READ_ONLY

IsReadOnly(words) ==
  /\ ToSet(words) \cap Hiding = {}
  /\ Programs(words) \subseteq READ_ONLY

\* What the shell does with a command: programs run in substitutions, too, and >
\* writes whatever the program is.
Writes(words) ==
  \/ ">" \in ToSet(words)
  \/ StartsAfter(words, Splits \cup Hiding) \ READ_ONLY # {}
-----------------------------------------------------------------------------
(***************************************************************************)
(* git with the work-tree at the root. The pathspecs of a command must all *)
(* match, or the command fails as a whole.                                 *)
(***************************************************************************)
Paths == config.scope.paths
Ignored == config.scope.ignored
Whole == Files                        \* the path "."
Scope == (UNION Paths) \ Ignored

Present(tree, path) == \E f \in path \ Ignored : tree[f] # Absent

\* git add: "." always matches, any other path must exist or be in the index.
AddMatches == \A p \in Paths : p = Whole \/ Present(ws, p) \/ Present(index, p)

Added == IF AddMatches THEN [f \in Files |-> IF f \in Scope THEN ws[f] ELSE index[f]]
         ELSE index

\* git checkout --no-overlay: every path must be in the commit or in the index.
CheckoutMatches(tree) == \A p \in Paths : Present(tree, p) \/ Present(index, p)

\* Mutant: without --no-overlay a file that the commit lacks stays where it is tracked.
CheckoutOverlay(tree) == {f \in Scope : tree[f] # Absent}

\* What git checkout makes as in the commit: the files of the commit, and with
\* --no-overlay the tracked ones that the commit lacks.
CheckoutWrites(tree) == {f \in Scope : tree[f] # Absent \/ index[f] # Absent}

\* What git clean -fdq removes.
Untracked == {f \in Scope : index[f] = Absent}

With(files, tree, other) == [f \in Files |-> IF f \in files THEN other[f] ELSE tree[f]]
-----------------------------------------------------------------------------
InWorkspace == config.workspace       \* require_workspace

\* A writing command must fit the bound on snapshots.
RoomFor(words) == IsReadOnly(words) \/ Len(commits) < MaxCommits

\* maybe_auto_snapshot's conditions.
ShouldSnapshot(words) ==
  /\ config.auto /\ ~cp.git_unavailable /\ InWorkspace
  /\ ~IsReadOnly(words)

\* ensure_init, up to its first command.
AfterInit(op) == [op EXCEPT !.at = IF cp.initialized THEN "snapshot" ELSE "probe"]

\* exec_inner up to the snapshot.
Exec(words) ==
  LET exec == [op |-> "exec", at |-> "run", others |-> {}, writes |-> Writes(words), snap |-> "skipped"]
  IN /\ call = Idle /\ RoomFor(words)
     /\ call' = IF ShouldSnapshot(words) THEN AfterInit(exec) ELSE exec
     /\ answer' = "none"
     /\ UNCHANGED <<config, ws, root, git, index, commits, cp, undo>>

\* checkpoint; on an error nothing is sent.
Checkpoint ==
  /\ call = Idle /\ InWorkspace /\ Len(commits) < MaxCommits
  /\ cp.initialized \/ ~cp.git_unavailable
  /\ call' = AfterInit([op |-> "checkpoint", at |-> "idle", others |-> {}])
  /\ answer' = "none"
  /\ UNCHANGED <<config, ws, root, git, index, commits, cp, undo>>

\* An auto-snapshot that fails lets the command run; a checkpoint returns the error.
Abandon == call' = IF call.op = "exec" THEN [call EXCEPT !.at = "run", !.snap = "failed"] ELSE Idle

Probe ==
  /\ call.at = "probe"
  /\ \/ git /\ call' = [call EXCEPT !.at = "init"] /\ UNCHANGED cp
     \/ ~git /\ cp' = [cp EXCEPT !.git_unavailable = TRUE] /\ Abandon
  /\ UNCHANGED <<config, ws, root, git, index, commits, answer, undo>>

\* init_cmd runs in the root, which must exist.
InitRepo ==
  /\ call.at = "init"
  /\ \/ root /\ cp' = [cp EXCEPT !.initialized = TRUE] /\ call' = [call EXCEPT !.at = "snapshot"]
     \/ ~root /\ Abandon /\ UNCHANGED cp
  /\ UNCHANGED <<config, ws, root, git, index, commits, answer, undo>>

\* snapshot_cmd: add, which reads the files at one moment here, and whatever it did,
\* commit --allow-empty.
Snapshot ==
  /\ call.at = "snapshot" /\ root
  /\ index' = Added
  /\ commits' = Append(commits, Added)
  /\ cp' = [cp EXCEPT !.last = Len(commits) + 1]
  /\ call' = IF call.op = "exec"
             THEN [call EXCEPT !.at = "run", !.snap = IF AddMatches THEN "taken" ELSE "partly",
                               !.others = {}]
             ELSE Idle
  /\ UNCHANGED <<config, ws, root, git, answer, undo>>

\* No id: the root is gone, git cannot write the commit, or the deadline has passed,
\* before the add, after it, or when the commit is there.
SnapshotFails ==
  /\ call.at = "snapshot"
  /\ \/ UNCHANGED <<index, commits>>
     \/ root /\ index' = Added /\ commits' \in {commits, Append(commits, Added)}
  /\ Abandon
  /\ UNCHANGED <<config, ws, root, git, cp, answer, undo>>

\* One file, the whole root, or nothing: what a command or another program changes.
Edit ==
  \/ /\ root
     /\ \E f \in Files, c \in Contents : ws' = [ws EXCEPT ![f] = c]
     /\ UNCHANGED root
  \/ /\ root' = ~root
     /\ ws' = Nothing

\* The command itself.
Run ==
  /\ call.at = "run"
  /\ \/ /\ call.writes
        /\ Edit
        /\ LET kept == IF call.snap = "taken" THEN Scope \ call.others ELSE {}
           IN undo' = [snap |-> call.snap, id |-> cp.last, files |-> [f \in kept |-> ws[f]]]
     \/ ~call.writes /\ UNCHANGED <<ws, root, undo>>
  /\ call' = Idle
  /\ UNCHANGED <<config, git, index, commits, cp, answer>>

\* checkpoints: list_cmd names every commit, and parse_log keeps them all.
Listed == 1..Len(commits)

\* restore of an id that a snapshot returned, or of one that git does not know;
\* restore_last is restore of cp.last. An id that is no hex string is refused.
Restore(id) ==
  /\ call = Idle /\ InWorkspace /\ cp.initialized
  /\ call' = [op |-> "restore", at |-> "count", others |-> {}, id |-> id, back |-> {}]
  /\ answer' = "none"
  /\ UNCHANGED <<config, ws, root, git, index, commits, cp, undo>>

\* diff_count_cmd, of which a result is reported and an error ignored.
Count ==
  /\ call.at = "count"
  /\ call' = [call EXCEPT !.at = "checkout"]
  /\ UNCHANGED <<config, ws, root, git, index, commits, cp, answer, undo>>

\* restore_cmd: checkout, and if it succeeds, clean; whose success is the restore's.
Chosen == commits[call.id]
CanCheckout == root /\ call.id # NoId /\ CheckoutMatches(Chosen)

Checkout ==
  /\ call.at = "checkout" /\ CanCheckout
  /\ LET written == CheckoutWrites(Chosen)
     IN /\ ws' = With(written, ws, Chosen)
        /\ index' = With(written, index, Chosen)
        /\ call' = [call EXCEPT !.at = "clean", !.back = written, !.others = {}]
  /\ UNCHANGED <<config, root, git, commits, cp, answer, undo>>

Return(result) == call' = Idle /\ answer' = result

\* The checkout is refused, fails for some of the files, or is cut.
CheckoutFails ==
  /\ call.at = "checkout"
  /\ \/ UNCHANGED <<ws, index>>
     \/ /\ CanCheckout
        /\ \E written \in SUBSET CheckoutWrites(Chosen) : ws' = With(written, ws, Chosen)
        /\ index' \in {index, With(CheckoutWrites(Chosen), index, Chosen)}
  /\ Return("err")
  /\ UNCHANGED <<config, root, git, commits, cp, undo>>

Clean ==
  /\ call.at = "clean" /\ root
  /\ ws' = With(Untracked, ws, Nothing)
  /\ Return("ok")
  /\ UNCHANGED <<config, root, git, index, commits, cp, undo>>

\* The clean fails for some of the files, or the deadline falls after the checkout.
CleanFails ==
  /\ call.at = "clean"
  /\ \E removed \in SUBSET Untracked : ws' = With(removed, ws, Nothing)
  /\ Return("err")
  /\ UNCHANGED <<config, root, git, index, commits, cp, undo>>

\* Drop with cleanup_cmd.
Drop ==
  /\ call = Idle
  /\ call' = Over
  /\ IF cp.initialized THEN commits' = <<>> /\ index' = Nothing ELSE UNCHANGED <<commits, index>>
  /\ undo' = NoUndo /\ answer' = "none"
  /\ UNCHANGED <<config, ws, root, git, cp>>

\* Other programs on the machine, whatever call is in progress.
Others ==
  /\ Edit
  /\ call' = IF call.at \in {"run", "clean"}
             THEN [call EXCEPT !.others = @ \cup {f \in Files : ws'[f] # ws[f]}]
             ELSE call
  /\ UNCHANGED <<config, git, index, commits, cp, answer, undo>>

Next ==
  \/ \E words \in Commands : Exec(words)
  \/ Checkpoint \/ Probe \/ InitRepo \/ Snapshot \/ SnapshotFails \/ Run
  \/ \E id \in Listed \cup {NoId} : Restore(id)
  \/ Count \/ Checkout \/ CheckoutFails \/ Clean \/ CleanFails \/ Drop \/ Others

Spec == Init /\ [][Next]_vars
-----------------------------------------------------------------------------
(***************************************************************************)
(* Properties.                                                             *)
(***************************************************************************)

\* The git commands implement snapshots: a checkpoint holds the captured files as
\* they are when every configured path exists or is tracked; a restore that reports
\* success has brought back every one of them, with files made since removed, one that
\* reports an error has left each as it was or brought it back, wherever the deadline
\* fell, and neither touches the files outside the paths or the ignored ones.
Snaps == INSTANCE Snapshots WITH
  files <- ws, captured <- Scope, reachable <- AddMatches, saved <- commits, result <- answer,
  restoring <- IF call.op = "restore" THEN call.id ELSE NoId,
  brought <- IF call.op = "restore" THEN call.back ELSE {}
ImplementsSnapshots == Snaps!Spec

\* What the automatic snapshots are for. With auto-snapshot on, a workspace set and
\* git there a snapshot is skipped for no command that writes, whatever pipeline,
\* redirection or substitution hides the writer. And where it was taken, restoring it
\* undoes the command, also after other calls, cut snapshots and failed restores: each
\* file is as the command found it, but for those that other programs changed between
\* snapshot and command or under the restore.
Excused == ~config.auto \/ ~InWorkspace \/ cp.git_unavailable
RestoresBaseline ==
  /\ call.at = "clean" /\ call' = Idle /\ answer' = "ok"
  /\ undo.snap = "taken" /\ call.id = undo.id
BaselineKept ==
  [][/\ undo'.snap = "skipped" => Excused'
     /\ RestoresBaseline =>
          \A f \in DOMAIN undo.files \ call.others : ws'[f] = undo.files[f]]_vars

\* The inductive invariants behind them. A checkpoint a call has begun to restore is
\* there; after the checkout of one the index has its files, and so has the workspace
\* but for the untracked; a writing command that is about to run was left without a
\* snapshot for a reason, or has the files as they are in the last one.
ExecCalls == [op : {"exec"}, at : {"probe", "init", "snapshot", "run"}, others : SUBSET Files,
              writes : BOOLEAN, snap : {"skipped", "failed", "taken", "partly"}]
CheckpointCalls == [op : {"checkpoint"}, at : {"probe", "init", "snapshot"}, others : SUBSET Files]
RestoreCalls == [op : {"restore"}, at : {"count", "checkout", "clean"}, others : SUBSET Files,
                 id : Nat, back : SUBSET Files]
Calls == ExecCalls \cup CheckpointCalls \cup RestoreCalls \cup {Idle, Over}
Checkpointers == [initialized : BOOLEAN, git_unavailable : BOOLEAN, last : Nat]
StoreInv ==
  /\ config \in [scope : Scopes, auto : BOOLEAN, workspace : BOOLEAN]
  /\ ws \in Trees /\ index \in Trees /\ commits \in Seq(Trees)
  /\ cp \in Checkpointers /\ call \in Calls
  /\ call.op = "restore" => call.id <= Len(commits)

CleanInv ==
  call.op = "restore" =>
    /\ call.at # "clean" => call.back = {}
    /\ call.at = "clean" =>
         /\ call.id # NoId
         /\ \A f \in Scope : /\ index[f] = Chosen[f]
                             /\ f \in call.back \/ index[f] = Absent
                             /\ f \in call.others \/ index[f] = Absent \/ ws[f] = Chosen[f]
RunInv ==
  call.at = "run" =>
    /\ call.writes /\ call.snap = "skipped" => Excused
    /\ call.snap = "taken" => /\ cp.last \in Listed
                             /\ \A f \in Scope \ call.others : commits[cp.last][f] = ws[f]
UndoInv ==
  /\ undo \in {NoUndo} \cup [snap : {"skipped", "failed", "taken", "partly"}, id : Nat,
                             files : UNION {[kept -> Contents] : kept \in SUBSET Scope}]
  /\ undo.snap = "skipped" => Excused
  /\ undo.snap = "taken" =>
       /\ undo.id \in Listed
       /\ \A f \in DOMAIN undo.files : commits[undo.id][f] = undo.files[f]
BaselineInv == CleanInv /\ RunInv /\ UndoInv

\* checkpoint.rs, snapshot_cmd: even an empty workspace produces a restorable point,
\* so that the command after a snapshot can be undone.
BaselineRestorable ==
  undo.snap \in {"taken", "partly"} => CheckoutMatches(commits[undo.id])
=============================================================================
