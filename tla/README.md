# execkit: TLA+ specifications

This directory specifies and verifies execkit: the Rust library that keeps a
shell open on a local, container or SSH host and runs framed commands in it
(`crates/execkit`), the MCP server that shares such sessions between concurrent
tool calls (`crates/execkit-mcp`), and the Python binding (`crates/execkit-py`).
Source paths are relative to the repository root, with `execkit/`,
`execkit-mcp/` and `execkit-py/` short for the `src` directories of the crates.

Contents: [the system](#the-system) · [modules](#modules) ·
[model and code](#how-the-models-correspond-to-the-code) · [runs](#runs) ·
[fairness](#fairness) · [proofs](#proofs) ·
[what the checks found](#what-the-checks-found) ·
[what is not modelled](#what-is-not-modelled) · [plan](#plan)

To repeat a check: `tlc -config MCSession_channel.cfg MCSession`; to repeat a
proof: `tlapm SessionServerProofs.tla`. `PROJECT.json` lists every run with its
properties, every definition with the lines it models, the mutations of the code
each property is known to notice, the hazards and the findings.

## The system

| Part | State | Operations | Hard because |
|---|---|---|---|
| Session registry, `execkit-mcp/main.rs` | map id → `Arc<SessionEntry>`, atomic `live`, two mutexes per entry | `session_create` (with `reap_idle`), `session_exec`, `session_checkpoint(s)`, `session_restore`, `session_destroy`, `session_list`, drop tasks | calls run concurrently; removal, counting, auditing and dropping are separate steps of several handlers |
| Session, `execkit/session.rs` | transport, `poisoned`, `Checkpointer`, stderr temp files and variables of the remote shell | `exec`, `checkpoint`, `checkpoints`, `restore`, `restore_last`, `Drop` | one byte stream to a shell that may be late, deaf to Ctrl-C, or gone; after a deadline the stream must be resynchronised or given up |
| Framing, `execkit/framing.rs` | `Accumulator`: kept bytes, searched prefix, tracked marker and header, elision counts | `push`, `parse`, `partial_stdout`, `build_payload` | bounded memory over an unbounded stream; markers split over chunks, look-alikes in the output |
| Transports, `execkit/transport/*` | reader thread, bounded channels, child process or SSH task | connect, `shell_init`, `write_all`, `recv_timeout`, `Drop` | threads and an async task that must all end; bounded queues in both directions |
| Host keys and ssh options, `transport/ssh.rs`, `execkit-mcp/sshconfig.rs` | `known_hosts`, shared by processes; the operator's `ssh_config` | `resolve_ssh`, `build_ssh_config`, `verify_known_hosts` | read, decide, append is not atomic |
| Python binding, `execkit-py/lib.rs` | `Mutex<Option<Session>>` | constructors, `exec`, `is_poisoned`, `close` | the interpreter lock and the mutex |
| Checkpoints, `execkit/checkpoint.rs` | shadow git repository on the remote: workspace, index, commits | init, snapshot, restore, list, diff, cleanup, `is_read_only` | composed of shell commands whose failures are partly ignored |
| Output, `execkit/output.rs`, `budget.rs`, `redact.rs`, `policy.rs`, `execkit-mcp/policy.rs` | learned secret values | `clean`, `apply`, `learn_from_command`, `redact`, both policies' checks | passes over one text whose order matters; arithmetic on a caller's counts |
| Audit log, `execkit-mcp/audit.rs`, `retention.rs` | append-only files, a directory shared by servers | `append`, `sweep` | an event reaches the file in two writes; followers read while it grows; sweeps run beside writers |
| Watching, `execkit-mcp/watch/*` | tailers, backlog, broadcast channel, folded state, URL token, `viewer-state.json` | poll, publish, subscribe, stream, apply, list, load and save | a file that grows while it is read; subscribers that join and lag; files truncated before they are written |
| CLI, doctor, rendering | none | one-shot | — |

How they interact. A tool call of the registry clones an `Arc` to an entry and
blocks in the `Session` behind it; the `Session` checks its policy, learns
secrets, frames a command, writes it through its transport and reads chunks back
into an `Accumulator` until the trailer is complete or the deadline passes; the
text is cleaned, redacted and cut to the caller's budget; each finished call is
appended to the audit log, which the watchers tail and stream to browsers. Calls
meet in the registry's map, its counter and the entries' mutexes; library and
shell meet in the two directions of the transport; writer and watchers meet in
the file; programs of one user meet in `known_hosts`, in the audit directory and
in the viewer's files.

What makes each part correct:

- **Registry** — the admission counter equals what it counts in every
  interleaving; the cap holds; a session is closed (audited and released) once;
  a shell is never dropped under a running command, and is dropped in the end.
- **Session** — between two commands the stream is in step; a result, and the
  stderr of an interrupted command, belong to the command that asked; no
  interrupted or unread command goes on during a later call; no temp file stays
  behind whose name the shell had; every call returns; what the checkpointer
  believes is true.
- **Framing** — the trailer is found with its last byte however it is cut;
  fields are exact; memory is bounded; elision counts are true.
- **Transports** — nothing is lost or reordered on the way; every call returns,
  dropping included, but for the few waits that nothing bounds; no thread outlives
  its transport, unless a process that the shell left behind keeps it.
- **Host keys** — an address is trusted unseen only while no key of it is recorded,
  and the key recorded first is the one that decides from then on.
- **Python binding** — one thread at a time is inside a session; all get through.
- **Checkpoints** — a restore that reports success has put the scope back as the
  snapshot saw it, one that fails has left each file or brought it back, and neither
  touches anything else; no writing command escapes the snapshot before it, and
  restoring that snapshot undoes the command.
- **Output** — no learned value is shown; a budget shows exactly the lines it
  asks for; what is not marked truncated is whole.
- **Watching** — no line is lost or repeated on the way from the log to a
  stream; a connected client is brought up to date; the view shows each session
  once, its events in order.
- **Files** — a sweep removes old sessions only; restarts keep the viewer's URL;
  a page reads the state saved last.

## Modules

| Module | Models | Checked by | Proved in |
|---|---|---|---|
| `SessionServer` | the session registry of `execkit-mcp/main.rs` | `MCSessionServer` | `SessionServerProofs` |
| `Session` | one `Session` of `execkit/session.rs` and its shell | `MCSession` | `SessionProofs` |
| `CommandChannel` | what `run_framed_for` promises; `Session` implements it | property `ImplementsChannel` of `MCSession` | `SessionProofs` |
| `Accumulator` | `parse` and `framing::Accumulator` | `MCOutput` | `AccumulatorProofs` |
| `OutputText` ← `Redaction` ← `Policy` ← `ExecOutput` | from a command's bytes to what a caller sees: escapes and budgets; learned secrets; both policies; `session_exec` with `exec_inner` | `MCOutput` | `OutputProofs` |
| `Transport` | the three transports and the caller that uses them | `MCTransport` | `TransportProofs` |
| `SshOptions` ← `KnownHosts` ← `PySession` | lookup of hosts and policies; connections and the shared `known_hosts`; the Python class over both | `MCPySession` | `PySessionProofs` |
| `Checkpoints` | the shadow repository and the calls that use it | `MCCheckpoints` | `CheckpointsProofs` |
| `Snapshots` | what checkpoints promise; `Checkpoints` implements it | property `ImplementsSnapshots` of `MCCheckpoints` | `CheckpointsProofs` |
| `AuditFeed` | one log, its writer, `Tailer.poll`, the web viewer's poller and streams | `MCAuditFeed` | `AuditProofs` |
| `AuditDir` | a directory of logs: sweeps, sessions, the directory source and the folded view | `MCViewer` | `AuditProofs` |
| `Viewer` | the URL token and the state file of the web viewer | `MCViewer` | `AuditProofs` |

`←` reads "is extended by". Definitions whose comment begins with "Mutant:" are
not used by any specification. Each is a definition of the module as a plausible
bug would have it; substituted for the original, some property of a run fails.

## How the models correspond to the code

### SessionServer

`sessions` and `live` are the map and the counter of `ExeckitServer`; `holder[i]`
is the owner of `SessionEntry.session`; `arcs[c]` are the Arcs a handler's frame
holds and `dropping` those moved into a `spawn_blocking` drop; `shell[i]` is the
process behind the Session and how it ended. `pc[c]` is where a handler stands
between two accesses to shared state, and one action is one such stretch:

- `session_create` is `CreateStart`, the reaper's `ReapProbe`, `ReapTry`,
  `ReapSelected`, `ReapRemove`, `ReapDone`, then `Reserve` (the `fetch_add`),
  `Reject` or `Built`/`BuildFailed`, and `Insert`.
- every other handler is `Lookup` (map lock and clone of the Arc) and `Touch`
  (the stamp, after the map is released), then `Leave` (refused or malformed),
  or `LockSession`, `CommandDone`, and `ExecFinish` with `ReportAlive` or
  `CloseDead`, or `MaintenanceFinish` for the three checkpoint calls.
- `session_destroy` is `Destroy` and `DestroyRelease`; `SpawnedDrop` is the task
  that drops an Arc, and with the last one the Session.

Steps taken under the map lock are merged into one unless another lock is
taken inside: the reaper's are not, since it holds the map through its whole
sweep while it takes and tries entry locks. `CloseDead` is one action because
the guard in `if let Some(entry) = lock(&self.sessions).remove(..)` lives to the
end of that block. Time is one bit per entry, `stale`, which `Age` sets at any
moment and `Touch` clears: every order of clock and calls is covered. The model
abstracts what a command prints, and keeps what its end means to the handler.
Panics inside a command are left out.

### Session and CommandChannel

The library is single-threaded; the shell runs beside it and only three queues
connect them: `inq` (lines written), `sigint` and `out` (frames). `op` is the
public call, `step` the framed command it is at and `stage` where
`run_framed_for` is with that command: about to write, waiting for the trailer,
or waiting for the resync. `Continuation` is the control flow of `exec_inner`,
`maybe_auto_snapshot`, `ensure_init`, `checkpoint` and `restore` between framed
commands; `End` is everything that the end of one changes. Output is abstracted
to the trailer's frame. A deadline may pass whenever the library waits, Ctrl-C
may find the shell anywhere, the terminal may or may not discard unread input,
and the shell may exit at any moment. Of a run line the shell takes four steps that
Ctrl-C can separate: `mktemp` makes the file (`ShellMakesFile`), the shell assigns
its name to `__ek_f` (`ShellNamesFile`, also the other name of `framing.rs:143-145`
where `mktemp` failed), the command runs with its stderr in that file
(`ShellExecutes`), and the trailer prints and removes it (`ShellPrints`). `lost` is a
history variable: the files whose line Ctrl-C ended between the first two. Writes
always complete.

### Accumulator

The stream a command produces is a sequence of kinds of bytes; the buffer holds
*positions* of that stream, so that "exact" means these very bytes in this very
order. Markers are two symbols long and an exit code has at most two digits: what
matters is that both can be cut, by a chunk or by the deadline. `SepLen` is the
length of the elision separator, which grows with the number it names. A
separator's text cannot be mistaken for a marker or a header. `CapAssumption`
says that a compacted half is longer than an unfinished marker; the code's caps
are at least 65536 (`session.rs:555`). `Push` is `push` as a whole: the
end-marker test on the unsearched suffix with its overlap, `parse`,
`track_start`, and `compact`.

The code's comment at `session.rs:759` says the first and last `cap/2` of stdout
are kept. The kept tail may also hold an unfinished start marker, so the
properties allow for its length.

### OutputText, Redaction, Policy, ExecOutput

A text is a sequence of positions of what the command printed and of the marks
execkit inserts, so a character that is shown can be traced to where it came
from. `OutputText` is `strip_ansi`, `clean`, `bound`, the selection of lines and
`to_budget` with saturating and wrapping arithmetic on a caller's counts;
`Redaction` is learning from a command line and the two passes of `redact`;
`Policy` is both fences; `ExecOutput.Exec` is one call of `session_exec` through
`exec_inner` with everything in the order of the code, for a command that ends
and for one that is interrupted, whose stderr is the tail of a file. A secret
name, a program and a credential of a known shape are one symbol each;
characters of values are symbols of their own.

### Transport

One module for three transports: `kind` selects what a write and the end of the
link mean. `writeQ` and `readQ` are the two bounded queues of the SSH thread
(`readQ` alone for a terminal), `line` and `hand` what that thread has taken
from one side and not handed to the other, `net` and `out` what is in the
terminal or the SSH window. `task` is the place of `io_loop`, or of the thread
that reads a terminal. The caller follows `shell_init`, `run_framed_for`,
`interrupt` and `resync`: one line and its reply, or three writes and theirs,
so `caller`, `burst` and `tries` say which of `write_all`, `recv_timeout` and
`Drop` is under way. `Drop` is a sequence of its own for each kind: over SSH both
queues are closed and the thread is joined (`Drop`, `Joined`); a local child is
killed and reaped (`Hangup`, `Killed`); for a container `docker exec` comes first, for as
long as it takes (`ContainerCleaned`). `survivor` says that a process which the shell left
behind has its terminal open: then the reader's end of file comes with that
process's end (`SurvivorEnds`), not with the shell's. Output is counted in chunks
and input in lines; a chunk carries the number of the line it replies to. The remote
shell and everything behind it is external: it reads, prints and exits when it likes.

### SshOptions, KnownHosts, PySession

`SshOptions` is pure: what a request becomes under an `ssh_config`, for the
server and for the binding, and `LookupExact`, a declarative reading of the same
file. `KnownHosts` is a connection: `Begin`, `Handshake`, `ReadKnown` and
`AppendKey` with the failures of both, beside connections of other programs.
`PySession` adds the interpreter lock `gil` and the mutex: `ExecLocks` takes the
mutex with the GIL held and gives the GIL up, `ExecReturns` takes it back
before it lets the mutex go, and `Takes` frees the mutex before `Closed`.
Constructors are `KnownHosts` clients. Panics poison the mutex (`broken`).

### Checkpoints and Snapshots

A file's content is a text or its absence; `ws`, `index` and `commits` are what git
has. `call` is the public call under way with the framed command it is at: `Probe`
and `InitRepo` (`ensure_init`), `Snapshot` or `SnapshotFails`, `Run`, `Count`, and
the two commands of a restore, `Checkout` and `Clean`, each with its failure.
`SnapshotFails` leaves the add and the commit done or not; `CheckoutFails` and
`CleanFails` leave any part of their work done, for a refusal, an error on some file
and a deadline alike, and the call returns an error (`answer`). The effect of each
git command follows its options as `checkpoint.rs` composes them, failures that the
`;` or `2>/dev/null` of the composed line hides included: `Added` when no pathspec
matches, `Restored` when the checkout fails. `config.scope` is `checkpoint_paths`
with the ignored files, `Others` is anything else on the machine that changes the
workspace, between any two steps; `call.others` and `undo.files` are history, the
files they changed since the snapshot or the checkout, and what the last writing
command found. A command is a sequence of words and separators, which `IsReadOnly`
judges as the code does and `Writes` as a shell would run it. What a deadline does
to the session is `Session`'s part. `git add` reads all files at one moment, and a
git command that outlives its deadline ends with the interrupt: one that goes on in
a session given up is left out. `Snapshots` is the abstract store: take, begin a
restore, put files back in any number of steps, report success once all are back or
an error at any time, forget; `Snaps` maps it.

### AuditFeed

A byte of the file is the body of an event or its newline: the two writes of
`writeln!`. A poll is two steps, because the length is taken before the file is
read to its end. Published lines are named by their backlog positions. The
broadcast keeps the last `Capacity` lines. A client that disconnects and
connects again starts with an empty page, which is what the viewer does when its
event source opens. A file that is truncated and grows past the old offset
between two polls is not noticed by the code; `CatchesUp` speaks of positions
and `ReadExactly` of unrotated files, so neither claims otherwise.

### AuditDir and Viewer

`AuditDir`: a server starts, sweeps file by file (`SweepLook` takes the age,
`SweepRemove` removes), then serves sessions that append to files of their own;
a session's calls may end after it was closed. `Discover` is the first half of
`DirTailer::poll`; then each file in the order of the paths has `PollLength`, which takes its
length and may rewind, and `PollToEnd`, which reads to the end the file has by then and
stores the length taken before, or `PollFails`. Where the file has grown in
between, the read may stop inside its last line, the half stays in the tailer's
buffer, and both are read again: `overtaken` is the history of these sessions. A
file that a sweep removes meanwhile is read on. What is read is folded into the
views at once, where the code does so when the poll is over; nothing looks at the
views in between. That two runs never draw the same 16-bit run id is assumed. `views`
is `AppState.sessions`, `ListSessions` and `SessionTranscript` are the two requests
that fold files anew. Time is in days. `Viewer`: `load_or_create_token` as a
read, a truncation and a write; a page's post as the checks on its body, a
truncation and a write, either of which may be the last thing the viewer does.

## Runs

| Run | Question | Bounds | States |
|---|---|---|---|
| `server_safety` | Do counter, map, audit log and shells agree in every interleaving? Does each step of a sweep bring it nearer to its end? | 3 calls in flight, 2 ids, cap 1, TTL; symmetric | 288 412 |
| `server_liveness` | Do removed sessions lose their shell, do dead ones leave, is the map lock released? | 2 calls, 2 ids, cap 1, TTL | 105 863 |
| `session` | Is the stream in step, does the session implement the channel, does every call come nearer to its end and return? | every mode, 11 tokens: two or three calls with a resync after each command | 266 307 |
| `output` | Is the trailer found in time, are fields and counts exact? Is a learned value ever shown, a budget ever off, a loss ever unmarked? | cap 12, streams of 0, 2 or 34 bytes, chunks up to 8; 4 commands that teach, then 8 commands, 12 budgets and every output of `MCOutput` | 26 738 |
| `links` | Does every byte arrive, is nobody held by what waits for it, does every call return and every thread end, but for the waits that nothing bounds? | 3 transports, queues of 4 and 1, a window of 2, which a session's lines overflow, 6 lines, 3 chunks | 116 708 |
| `python` | Is trust given only without a recorded key, is one thread at a time in a session, is lookup what `ssh_config` says? | 2 threads, 1 other program, 6 requests, 2 keys, 3 connections; 16 106 configurations | 583 744 |
| `checkpoints` | Do the git commands implement the store of snapshots, with a baseline for every writing command? | 2 files, 2 texts, 2 scopes, 6 commands, 2 commits | 914 578 |
| `feed` | Does every line reach every stream? | 3 events, 2 rotations, 1 client, capacity 1 | 56 074 |
| `files` | Are only old sessions swept? Are sessions shown once and their events in order? Do token and state survive races? | 2 servers, 2 runs, 1 session each, 3 events, 4 of both where the viewer follows, 3 days; 3 starts, 2 pages, 4 bodies; symmetric | 697 648 |
| three `violation` runs | see [below](#what-the-checks-found) | as small as shows it | |

Why the bounds are enough.

- *Registry*: a hazard needs one call that removes an entry, one that uses it and
  one that creates; three slots, each serving call after call, are all three at
  once, and a cap of one makes admission contended from the first session on.
- *Session*: 8 tokens are the most one call can use (four framed commands, each
  with a resync), so 11 leave room for what a call does to the next one.
- *Output*: 34 bytes against a cap of 12 force repeated compaction of both zones,
  2 bytes leave them whole, and with chunks of 1 to 8 bytes every cut of the
  trailer occurs. The text half runs every pass on values that contain each
  other, balanced and unbalanced brackets, quotes, escapes that hide or split
  a value, and counts whose sum exceeds `MaxUsize` (65535 here, the least that a
  `usize` may be).
- *Links*: six lines are the first one of `shell_init` and a command with a
  resync; a queue of one chunk is full at once, and the queue of four lines is as
  long as `FewLines` says a session can make it, so that `NoStandoff` speaks of a
  queue with room. The window of two lines is overflowed by a command with its
  interrupt and resync when the shell does not read: a stand-in for one line larger
  than a window, since lines are not cut. (A window of four never is:
  `NoStallWithRoom`.) A call may then stay where it is, and `CallReturns` says that
  it does only while it is in one of four places: the setup of an SSH channel,
  `docker inspect`, `docker exec` of a drop, and a write to a full window or
  terminal that nobody reads.
- *Python*: two threads are enough to wait for each other and a third client to
  race with; every `ssh_config` of up to four lines is looked up.
- *Checkpoints*: two files make the difference between captured and not, tracked
  and not; two commits make an older and a newer one; one scope is
  the workspace with one file ignored, the other names each file by a path of its own.
- *Feed*: a capacity of one makes the client lag after two lines; three events
  make one old, one current and one torn line.
- *Files*: two servers sweep each other's sessions; three starts are one that
  makes the token, one that races and one that must keep it.
  What a view shows needs one session with an event before, at and after a poll's two
  moments, beside one that must not be disturbed, and a sweep at any of these
  moments: four events of both sessions. There the clock moves only between two
  polls, and at once to the day on which what the first day wrote has expired.

`MCOutput` holds two halves that share no variable; one rests in its first state
while the other moves, so the sum and not the product of their states is explored.
In `MCViewer` the variable `part` says which of three a behaviour is about: the
directory and its sweeps, the directory with the viewer that follows it, or the
viewer's own files.

Deadlock is checked in `server_*` and `feed`, where a system that has nothing to
do can still act. The others switch it off because the system really stops: a
dropped session or one out of tokens (`session`); a parsed command and a second
answer (`output`); a dropped transport whose thread has ended (`links`); threads
that wait for each other, which is the finding, or a bound on connections
(`python*`); a removed repository (`checkpoints*`); servers and pages that have
used up their runs, days and events (`files`).

## Fairness

- `SessionServer`: weak fairness of each handler that is past its first step
  and of each drop task — runtime threads that can run do. Strong fairness of
  `Insert` and `CloseDead`, which wait for the map mutex that other creates take
  again and again: the mutex is not held for ever by any of them, and a waiter
  is eventually served. Nothing says that a command ends, that a client calls
  again, or that the TTL passes: a command may run as long as it likes, and the
  properties say what happens then.
- `Session`: weak fairness of the library's own steps — its thread runs and its
  deadlines pass. Nothing is assumed of the shell.
- `Transport`: weak fairness of the caller's steps (its deadlines pass, a killed
  child is reaped), of the SSH thread or reader, and of the end of an SSH login, which
  `connect_timeout` bounds. Nothing makes a server answer after the login, `docker
  inspect` or `docker exec` return, a shell or a process it left behind read, print
  or exit, or a session call or drop: `CallReturns` excepts the waits for these
  (`Unbounded`) for as long as they last, and `ThreadEnds` a terminal that is still
  open.
- `PySession`: strong fairness of each method's and constructor's steps — a
  waiter is not passed over for ever by a lock that is free again and again — and
  weak fairness of giving up the GIL. It is what makes `ExecGoesThrough` a real
  disagreement: even then a second `exec` never returns.
- `AuditFeed`: weak fairness of the poller, whose timer fires, and of each
  stream. Nothing makes the server write or a client connect.

## Proofs

Each theorem is about every value of the constants; the runs check the properties
among them on small instances.

**Registry** (`SessionServerProofs`; any finite set of calls and ids, any cap;
`ConstantsAssumption`). `AdmissionInv` gives `TypeOK`, `LiveAccounting` and
`CapRespected`, which are not inductive alone: `ReapRemove` decrements the counter
for an entry it selected earlier, so `ReaperInv` says that what the reaper still
has to visit is registered; `Insert` adds an id that must not be there yet, so
`InsertInv` says a built session belongs to one call, and rests on `FreshInv`,
that an id not yet minted has left no trace. `CallMoves`, `CountAdd` and
`CountRemove` say what a step of one call does to the cardinalities.
`RegistryInv` gives `NoUseAfterDrop` and `ClosedOnce`: every reference of a frame is
counted, a session is unlocked, removed and closed in that order, and whoever
removed it still owes the release. `RefsStep`, `ArcsStep`, `ReleaseStep` and
`ClosesStep` take its parts one by one; it is an invariant only together with
`AdmissionInv`. `ReaperEnds` is `ReaperAdvances`, what `MapLockReleased` needs
besides fairness: the steps left to the call that holds the map (`StepsLeft`)
decrease with each of its steps and grow with nobody's. `ReaperInv` says who can
be at a sweep at all: only the owner of the map (`OthersWait`).

**Session** (`SessionProofs`; any set of configurations, any number of calls and
tokens). `SessionInv` gives `InSync`, `OwnFrame`, `NoStrayFiles` (but for the files
in `lost`, which Ctrl-C ended between `mktemp` and the assignment of its result) and
`SnapshotsExist`. None of them is inductive: `InSync` speaks of the moment between
two commands, and what it says there is the outcome of a race of the deadline,
Ctrl-C, the trailer and the three lines of a resync. `LiveInv` therefore names the
places where the one command of a live session can be (`Unread`, `Runs`, `Over`, and
during a resync `Abandoned`, `Saved`, `Cleans`, `Cleaned`, `Answered`), each with
what the queues, the two shell variables and the directory hold there; one lemma per
action says from which place to which it leads. In a poisoned session the shell goes
on with whatever it was left, so `BeliefsInv` holds in every session: a token in a
queue is old or that of the command awaited, and a frame that reports success with
it belongs to a command that took effect. `SessionImplementsChannel` is the
refinement: under `SessionInv` every action is a step of `CommandChannel` or a
stutter. It needs from the invariant that a run line is in at most one place, and
that a call that ends leaves its line in none of them or poisons the session.
`CallsAdvance` is `CallAdvances`, what `CallReturns` needs besides fairness: of the
framed commands and stages a call still has before it (`CallLeft`), each step of the
library takes away at least one, but for a frame that is not its own. It needs
`CallInv`, that nothing of a user's is behind the commands of a list or a restore.

**Accumulator** (`AccumulatorProofs`; every cap that `CapAssumption` allows,
every output and every cutting into chunks). `AccInv` gives `TypeOK` and
`Counted`: the fields after `t` bytes are well formed (`Held`) and the buffer
without its separators plus what was elided balances to `t` (`Balance`).
`CompactRangeCounts` says what one compaction preserves: the distance from the
end of the compacted zone to the end of the buffer, so the tracked marker moves
with its bytes, and the count. The difficulty is that a second compaction removes
the separator of the first, whose length depends on the number it names.

`ContentInv` gives `FoundInTime`, `ResultExact`, `Bounded` and `PartialExact`. A
result is exact only if every compaction before it kept the right bytes, so the
invariant says of every index of the buffer which byte of the stream stands there
(`Layout`), that a separator has as many bytes behind it as before it and never
reaches into the trailer's header (`Gaps`), that each marker is tracked from the
very byte that completes it (`TrailerInv`), and that stdout is not compacted again
once the share of stderr is fixed (`ShareInv`; without it a later, shorter stdout
would break `Bounded`). The argument goes in five parts. The stream of a command
holds each marker once, and once more in an echo (`StreamStands`). In a laid-out
buffer a byte of the trailer stands where its shift says and nowhere else
(`HeaderStands`, `EndStands`), so the searches of `track_start` and `parse` find the
trailer, never the echo (`StartTracked`, `StderrTracked`, `CompleteAt`,
`BlockValid`). `OutCompacted` and `ErrCompacted` show that `compact_range` leaves a
layout, `CompactedEarly` and `CompactedLate` that `compact` does, within the bound.
`ParsedExact` cuts a result out of a layout, `Prefix` a partial output.

**Output** (`OutputProofs`; any symbols, commands, streams, requests, policies and
bounds that `ExecAssumption` allows: a mark of execkit's is not a symbol, what is
learned or paired has at least one character, counts are natural numbers, no stream
is longer than `isize::MAX`, which no Rust `String` is, and a `usize` has at least 16
bits).
`ResultsHide` is `LearnedHidden`: no position of a value that a command taught the
session is shown, but for occurrences that overlap another one in part or of which a
shape or a pair has taken a piece first (see [below](#what-the-checks-found)). The
invariant is small (`OutputInv`: only values
that are not empty are learned, and the last answer hides them); the work is in what
one call computes, `ResultHides`, and it is about texts of any length. Every pass of
`redact` replaces parts of a text, each by one mark, and moves nothing else
(`Thinning`, kept by `ShapesThin` for shapes and pairs). So a value that stands in
what is left stood in the text (`SpelledBefore`), and one that stood there still does
if no part of it was replaced (`SpelledAfter`). The passes over the values go longest
first (`ByLengthIs`): of values that contain each other or have nothing in common, a
value either still stands whole when its own pass comes, or a longer one that
contains it has taken it away whole (`RedactHides`). No position is in a text twice
(`ErrTextIs`), so what a pass took away is in no other place, and what the budget
shows is part of what it was given (`ApplyShows`). For an interrupted command,
`TailPlain` says that the tail is empty or the end of the file from the beginning of
a line on, so a value of one line is in it whole or not at all (`HidesCut`).

`BudgetsKept` and `NothingMissing` are `BudgetExact` and `WholeUnlessTruncated`, from
`BudgetInv`: both of them and that what is learned is a list of values. Again a step is what
one call computes (`ResultFits`), and about texts of any length. Lines that
are joined come apart at the line breaks into the same lines (`PiecesJoined`), and the
lines of a text, joined, are the text but for a line break at its end (`ElemLines`).
Each pass of `select` keeps a list that *enumerates* the set of lines it asks for, in
order and each once: the lines near a match, then the first and the last of them, where the
sum of the two counts may wrap (`KeptExact`: a wrapped sum never makes it keep a line too
many). What `render` makes of an enumeration, lines and gap marks in turn,
comes apart into the same lines and marks, so reading it back line by line arrives
at the last one (`RenderRead`); a mark of execkit's is no symbol, so no line
reads as a gap. If no line is left out, the list is all of them, and what is shown is all of the
text (`StreamWhole`). That no stream is longer than an `isize` is needed here and
only here: redaction makes no text longer (`RedactShort`), the guidance adds one short
line, and with more lines than a `usize` counts `saturating_add` would lose the last
ones.

**Transport** (`TransportProofs`; any capacity of the queues and any number of
lines and chunks; `TransportAssumption`). `LinkInv` gives `NothingLost`, `FewLines`
and `NoStandoff`. None is inductive: that a concatenation of queues is gapless says
nothing of what one step takes from one of them, so `Lined` and `Chained` number
every element of every queue; and that at most four lines are under way needs to
know where the caller is (`CallerInv`) and that no chunk replies to a line the
shell has not read (`RepliesInv`), since a reply is what lets the caller write
again. One lemma per step that moves an element, one (`StillQuiet`) for all that
move none; `LinesTogether` and `ChunksTogether` return to the concatenations.
`NoStandoff` is what `CallReturns` and `ThreadEnds` need besides fairness: a write
under way finds room or fails, and a dropped transport's thread is held by nobody,
but for a line that does not fit (`Stalled`), which `Unbounded` excepts. The first is
the bound on the lines under way again, of which a queue holds no more than there are
(`HeldInv`), with one line to spare for each write still to come (`CallerInv`); the
second is how the thread's place, the caller's and the two ends that Drop lets go of
belong together (`PlaceInv`). It speaks of queues that take four lines (`Roomy`); the
code's has 64. The reader of a terminal is excepted while a survivor keeps it open:
nobody joins it. `NoStallWithRoom` says by the same bounds that the exception needs a
window or a terminal of less than four lines.

**Trust and the Python class** (`PySessionProofs`; any
threads, programs, requests and configurations; `Threads ⊆ Clients`,
`Free ∉ Threads`, fingerprints differ from the two words that stand for none).
`TrustInv` gives `TrustOnFirstUse`: the first line of an address stays its first
line under every append, so what a connection found pinned is still pinned when
it is decided. `ExclusiveInv` gives `Exclusive`: the mutex is held by whoever runs
a command or returns its result, and a session is taken out once.
`LookupExactCorrect` is about a fold: for every `ssh_config` of any length
(`ConfigsAssumption`) one pass with an accumulator computes what `ssh_config(5)`
says, the first value of each option among the sections that match and all
identity files in their order. `Found` says what the pass has after `n` lines, and
`LineStep` that one more line keeps it (`HostLine`, `MatchLine`, `FieldLine`).

**Checkpoints** (`CheckpointsProofs`; any files, texts, scopes and commands;
`CheckpointsAssumption`). `ImplementsSnapshotsCorrect` is the refinement: `StoreInv`
makes a restore's id one of the commits, and each git-level step, complete or cut, is shown
to be a step of `Snapshots` or a stutter. That a restore which reports success has
brought back everything is `CleanInv`: after the checkout the index has the
files of the commit, so what the clean removes as untracked is what the commit
lacks. `BaselineKeptCorrect` adds `RunInv`, that a writing command about to run was left
without a snapshot for a reason or has the files as they are in the last one but for
those that others changed since, and `UndoInv`, that the snapshot of the last
writing command stays what it was; `ReadOnlyNeverWrites` says that what
`is_read_only` lets pass changes nothing.

**Feed** (`AuditProofs`; any clients, capacity and log; `FeedAssumption`).
`FeedInv` gives `NoGap`: at most one published line is not broadcast yet, so what a
stream replays goes at most one line beyond where it subscribed. `ReceivedDue` is
the heart: the line received is the next one, or the one already replayed.
`ReadInv` gives `ReadExactly`: however the polls cut the lines, what was published
and what is kept are the events and the remainder of what was read. It rests on
`SplitRead`: reading on from the remainder is reading the whole, for contents of any
length (`ReadsBehind`, by induction on what is read on).

**Files** (`AuditProofs`; any servers, runs, sessions, events, starts, pages and
bodies). `NothingRecentSwept` for a retention whose seconds fit in a `u64`
(`NoWrap`): without it `retention_days * 86400` wraps in a release build and the
property fails. `RestartsKeepUrl` from `TokenInv`, `StateSaved` from `StateInv` and
`BlocksTellBodies` (a body is known by its blocks; `ViewerAssumption`).
`ViewExact` from `DirInv`: the file of a session that was not swept has every event
written (`HistoryInv`), the file a poll has open is at its path or in the reader's
hands and no shorter than the length taken (`PollInv`), and the viewer shows the
events before its offset, as long as no read went past that length (`ViewInv`).
`PollToEndView` is one read, over all its events by induction (`ApplyAllKeeps`), also one
that went too far, which must leave every other session's view alone (`AnyRead`);
`Apply1Keeps` is one event, which makes a view or changes the one of its session.

The temporal steps are PTL over those lemmas. Model-checked only: liveness
(`RemovedShellEnds`, `DeadSessionClosed`, `MapLockReleased`, both `CallReturns`,
`ThreadEnds`, `CatchesUp`), out of the prover's reach, though `ReaperAdvances`,
`CallAdvances` and `NoStandoff` are the part of four of them that does not rest on
fairness. Every invariant and every action property that a passing run checks is a
theorem. Induction over data is possible where it is written as first-order logic:
`FirstExists` is the library's well-foundedness of the numbers, and `SetInduction`
follows from it for a *set* of numbers; that a recursive function exists is itself
shown this way (`EventsRead`, `ScanExists`, `ApplySteps`), for every
pass over a text by one lemma (`Recursion`).

## What the checks found

| Run | Kind | The code |
|---|---|---|
| `feed_TailSafe` | bug | `Tailer::poll` reads to the end of the file but remembers the length it took before: an append in between is returned twice, or its halves are joined to a line that does not parse (`watch/tail.rs:47`) |
| `python_ExecGoesThrough` | bug | `exec`, `is_poisoned` and `close` wait for the session's mutex with the interpreter lock held, which the `exec` that owns the mutex needs to return: both threads stop for ever (`execkit-py/lib.rs:421`) |
| `checkpoints_BaselineRestorable` | bug | the snapshot of an empty workspace cannot be restored: `git checkout` finds no matching path, so `clean` never runs (`checkpoint.rs:234`) |

Seen while modelling, without a run of their own:

*Registry.* The reaper tests that a session is idle when it selects, not when it
removes (`main.rs:756`), runs only from `session_create`, and never reaps an entry
whose mutex is poisoned. A refused `session_exec` may drop the last reference, and
with it the Session, on the async executor (`main.rs:501`). Only `session_exec`
closes a session it finds dead; the checkpoint calls leave it registered
(`main.rs:608`). Shells beyond `max_sessions` may exist while removed sessions
finish their commands (`main.rs:686`).

*Session and framing.* `checkpoint`, `checkpoints` and `restore` do not test
`poisoned` (`session.rs:354`). A snapshot that commits and then times out is
listed, but `restore_last` restores an older one (`session.rs:366`). A write to a
shell that is gone reports an error without poisoning the session
(`session.rs:582`). An initialisation that times out after `git init` leaves a
repository nobody cleans up (`session.rs:744`). Ctrl-C that falls between `mktemp`
and the assignment of its result leaves a stderr file whose name nobody has, although
the comment of `resync` says the path is still in `$__ek_f` (`session.rs:664`):
`NoStrayFiles` excepts these files. The partial stdout of a timed-out command may end
with a fragment of the marker, and under `set -v` stops at the echoed run line
(`framing.rs:339`).

*Output.* A learned value of several lines is hidden only where the lines stay
together; a shape or an overlapping value may cut a learned value so that its
rest stays; the tail of an interrupted command's stderr may start inside a value
or end in an unterminated escape; a blocked command of a busy session is recorded
without the values its session has learned.

*Transports.* A line larger than the terminal's buffer makes `write_all` wait for a
shell that does not read. Over SSH such a line holds the thread, and `Drop` in its
join, which its comment says ends wherever the thread is parked (`ssh.rs:315`). The
opening of the channel, the PTY request and the start of the shell have no timeout
(`ssh.rs:432`), nor has `docker inspect` before a session. `Drop` of a container's
transport waits for `docker exec` however long it takes (`docker.rs:93`). A
background process of a local shell that ignores SIGHUP keeps the terminal open, so
the session's reader thread lives on after the session (`local.rs:74`).
`CallReturns` and `ThreadEnds` except exactly these. A `known_hosts` line whose
`chmod` fails stays although the connection is refused. A huge timeout panics in the
Python binding (`lib.rs:198`).

*Checkpoints.* A configured path that does not exist makes `git add` capture
nothing while the commit goes on and returns an id. A restore whose clean fails or is
cut by the deadline returns an error after the checkout has changed files
(`checkpoint.rs:234`). `files_changed` counts tracked files only.

*Watching and files.* The poller sends a line after it released the backlog's
lock, so a stream that connects in between has it twice (`watch/web.rs:141`). What
`feed_TailSafe` shows of one file holds of each file of a directory, so the terminal
view shows an event twice, or misses one. An
exec may be recorded after its session's close. `follow_lines` sorts a batch by
`display_ts`, which can put an exec before a blocked event written before it
(`watch/mod.rs:66`). A session that writes between a sweep's look and its removal
loses its file. `retention_days * 86400` wraps for huge values. Two overlapping
saves of `viewer-state.json`, or one cut off, read as the default. Servers that
start together may serve different tokens. `AuditWriter`'s lock is per process:
servers that append to one file may interleave a body and a newline.

## What is not modelled

- **Terminal and page rendering, `follow_lines`** — print what `AuditFeed` and
  `AuditDir` deliver; the sort of a batch is noted above.
- **Progress messages** of the server (`notify_*`) — change no state.
- **CLI, doctor** — one-shot: each prints or checks something and ends.
- **Results and errors** — types; the models name the outcomes they tell apart.
- **Parts of modelled components** — the text of `build_payload` and its base64
  (`Session` has its effect, run by a shell outside the library); reading a
  request's head (`Viewer` starts from its body); the cursor of the terminal view;
  reading the policy file; the credentials an SSH login tries; `paths.rs`,
  conversion of results to Python. All of these are data without state of their
  own.

## Plan

Done: every component with state has a module and its inductive invariants proved.
What is left, most useful first:

1. **Composition** — `Session` over `Transport`'s queues (today each assumes what
   the other shows: `Session` a channel that may end, `Transport` a caller that
   waits for replies), and `SessionServer` with `Session`'s outcomes in place of
   its free choice.
2. **Transport** — bytes instead of lines, for payloads larger than a window.
