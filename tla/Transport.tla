------------------------------ MODULE Transport ------------------------------
(***************************************************************************)
(* The link between a Session and its shell (execkit/src/transport):       *)
(* LocalPty and DockerExec write to a terminal and have a thread that      *)
(* reads it; SshTransport has one thread for both directions behind two    *)
(* queues. The caller is a Session: it waits for the reply to a run line   *)
(* before it writes the next, or interrupts with three writes, and drops   *)
(* the link at any time it is not inside a call.                           *)
(***************************************************************************)
EXTENDS Naturals, Sequences, SequencesExt

CONSTANTS
  Kinds,      \* transports considered
  WriteCap,   \* CHANNEL_CAP (64) of the queue to the SSH thread
  ReadCap,    \* CHANNEL_CAP (64) of the queue of received chunks
  Window,     \* writes the terminal or the SSH window takes unread
  MaxLines,   \* bound of the model: writes of a session
  MaxChunks   \* bound of the model: chunks the shell prints

ASSUME TransportAssumption ==
  /\ Kinds \subseteq {"ssh", "local", "docker"}
  /\ WriteCap \in Nat \ {0} /\ ReadCap \in Nat \ {0} /\ Window \in Nat \ {0}
  /\ MaxLines \in Nat /\ MaxChunks \in Nat

VARIABLES
  kind,      \* which transport this is
  caller,    \* what the thread that owns the transport is doing
  burst,     \* writes it has still to make before it reads
  tries,     \* 2: the reply of a command is awaited, 1: that of its resync
  sent,      \* lines write_all has accepted
  got,       \* chunks recv_timeout has returned
  writing,   \* the caller's end of writeQ is open
  reading,   \* the caller's end of readQ is open
  task,      \* the SSH thread, or the thread that reads the terminal
  hand,      \* the chunk that thread has read and not yet sent
  line,      \* the line it has taken and not yet written
  ready,     \* what it reported to connect
  writeQ,    \* lines on their way to the SSH thread
  readQ,     \* chunks on their way to the caller
  net,       \* lines the shell has not read
  out,       \* chunks the shell has printed and nobody has read
  printed,   \* how many it has printed
  heard,     \* lines the shell has read
  shell,     \* "up", "gone", or "orphan": alive in a container without client
  survivor   \* the shell is gone and a process it left behind keeps its terminal open

callerVars == <<caller, burst, tries, sent, got, writing, reading>>
taskVars == <<task, hand, line, ready>>
shellVars == <<printed, heard, shell, survivor>>
vars == <<kind, callerVars, taskVars, writeQ, readQ, net, out, shellVars>>

Ssh == kind = "ssh"
Dead == task = "ended"

\* Somebody has the shell's terminal open: it can be written, and read without end.
Linked == shell = "up" \/ survivor

Init ==
  /\ kind \in Kinds
  /\ caller = "connecting" /\ burst = 0 /\ tries = 0 /\ sent = 0 /\ got = <<>>
  /\ writing = TRUE /\ reading = TRUE
  /\ task = IF kind = "ssh" THEN "login" ELSE IF kind = "docker" THEN "check" ELSE "select"
  /\ hand = <<>> /\ line = <<>> /\ ready = IF kind = "local" THEN "ok" ELSE "none"
  /\ writeQ = <<>> /\ readQ = <<>> /\ net = <<>> /\ out = <<>>
  /\ printed = 0 /\ heard = 0 /\ shell = "up" /\ survivor = FALSE
-----------------------------------------------------------------------------
(***************************************************************************)
(* connect and shell_init. establish bounds connect_and_auth by a timeout, *)
(* and neither the opening of the channel nor the start of the shell.      *)
(***************************************************************************)
Report(outcome) ==
  /\ ready' = outcome
  /\ task' = IF outcome = "ok" THEN "select" ELSE "ended"
  /\ UNCHANGED <<kind, callerVars, hand, line, writeQ, readQ, net, out, shellVars>>

LoggedIn ==
  /\ task = "login"
  /\ task' = "setup"
  /\ UNCHANGED <<kind, callerVars, hand, line, ready, writeQ, readQ, net, out, shellVars>>

\* Refused, not authenticated, or connect_timeout has passed.
LoginFailed == task = "login" /\ Report("err")

ChannelOpened == task = "setup" /\ Report("ok")

ChannelFailed == task = "setup" /\ Report("err")

\* check_running: docker inspect, before anything is started, for as long as it takes.
Inspected == task = "check" /\ (Report("ok") \/ Report("err"))

\* connect returns: the transport, whose first line is that of shell_init.
Connected ==
  /\ caller = "connecting" /\ ready = "ok"
  /\ caller' = "sending" /\ burst' = 1 /\ tries' = 1
  /\ UNCHANGED <<kind, sent, got, writing, reading, taskVars, writeQ, readQ, net, out, shellVars>>

\* It returns an error, after the SSH thread has been joined.
ConnectFailed ==
  /\ caller = "connecting" /\ ready = "err" /\ Dead
  /\ caller' = "dropped" /\ writing' = FALSE /\ reading' = FALSE
  /\ UNCHANGED <<kind, burst, tries, sent, got, taskVars, writeQ, readQ, net, out, shellVars>>
-----------------------------------------------------------------------------
(***************************************************************************)
(* write_all and recv_timeout, as run_framed_for, interrupt and resync     *)
(* call them.                                                              *)
(***************************************************************************)
Command ==
  /\ caller = "idle" /\ sent + 4 <= MaxLines
  /\ caller' = "sending" /\ burst' = 1 /\ tries' = 2
  /\ UNCHANGED <<kind, sent, got, writing, reading, taskVars, writeQ, readQ, net, out, shellVars>>

AfterWrite ==
  /\ sent' = sent + 1
  /\ burst' = burst - 1
  /\ caller' = IF burst = 1 THEN "receiving" ELSE "sending"
  /\ UNCHANGED <<tries, got, writing, reading>>

\* blocking_send: waits while the queue is full.
Enqueue ==
  /\ caller = "sending" /\ Ssh /\ ~Dead
  /\ Len(writeQ) < WriteCap
  /\ writeQ' = Append(writeQ, sent + 1)
  /\ AfterWrite
  /\ UNCHANGED <<kind, taskVars, readQ, net, out, shellVars>>

\* A write to the terminal waits while its buffer is full.
WriteTerminal ==
  /\ caller = "sending" /\ ~Ssh /\ Linked
  /\ Len(net) < Window
  /\ net' = Append(net, sent + 1)
  /\ AfterWrite
  /\ UNCHANGED <<kind, taskVars, writeQ, readQ, out, shellVars>>

\* Error::Transport: nobody takes the line.
WriteFails ==
  /\ caller = "sending"
  /\ IF Ssh THEN Dead ELSE ~Linked
  /\ caller' = IF sent = 0 THEN "spent" ELSE "idle"
  /\ burst' = 0
  /\ UNCHANGED <<kind, tries, sent, got, writing, reading, taskVars, writeQ, readQ, net, out, shellVars>>

\* Mutant: whatever arrives ends the call.
ReceiveAny ==
  /\ caller = "receiving" /\ readQ # <<>>
  /\ got' = Append(got, Head(readQ))
  /\ caller' = "idle"
  /\ readQ' = Tail(readQ)
  /\ UNCHANGED <<kind, burst, tries, sent, writing, reading, taskVars, writeQ, net, out, shellVars>>

\* A chunk: the reply awaited ends the call; that of shell_init may be that
\* the shell cannot decode. Output and older replies are passed over.
Receive ==
  /\ caller = "receiving" /\ readQ # <<>>
  /\ LET chunk == Head(readQ)
         answered == chunk.reply = sent
     IN /\ got' = Append(got, chunk)
        /\ caller' = IF ~answered THEN "receiving" ELSE IF chunk.ok THEN "idle" ELSE "spent"
  /\ readQ' = Tail(readQ)
  /\ UNCHANGED <<kind, burst, tries, sent, writing, reading, taskVars, writeQ, net, out, shellVars>>

\* None with time on the clock: the other end is gone.
Disconnected ==
  /\ caller = "receiving" /\ readQ = <<>> /\ Dead
  /\ caller' = "spent"
  /\ UNCHANGED <<kind, burst, tries, sent, got, writing, reading, taskVars, writeQ, readQ, net, out, shellVars>>

\* The deadline of a command starts a resync; that of a resync, or of
\* shell_init, is the end of the session.
Deadline ==
  /\ caller = "receiving"
  /\ IF tries = 2
     THEN caller' = "sending" /\ burst' = 3 /\ tries' = 1
     ELSE caller' = "spent" /\ UNCHANGED <<burst, tries>>
  /\ UNCHANGED <<kind, sent, got, writing, reading, taskVars, writeQ, readQ, net, out, shellVars>>
-----------------------------------------------------------------------------
(***************************************************************************)
(* Drop. SshTransport closes both queues and joins its thread. LocalPty    *)
(* kills and reaps its child before its fields are closed; DockerExec, of  *)
(* which that child is the docker client, first runs `docker exec` to kill *)
(* the process tree in the container, and waits for it.                    *)
(***************************************************************************)

\* The shell is gone. What it left behind may have its terminal open, except that
\* the terminal of a container's shell goes with the docker client.
Gone ==
  /\ shell' = "gone"
  /\ \/ survivor' = FALSE /\ net' = <<>>
     \/ kind # "docker" /\ survivor' = TRUE /\ UNCHANGED net

\* Mutant: the child of a terminal is not killed.
HangupSpares == UNCHANGED <<net, shell, survivor>>

\* The child is killed, if it is alive; a shell in a container may outlive its client.
Hangup ==
  \/ shell # "up" /\ UNCHANGED <<net, shell, survivor>>
  \/ shell = "up" /\ Gone
  \/ shell = "up" /\ kind = "docker" /\ shell' = "orphan" /\ net' = <<>> /\ UNCHANGED survivor

\* Mutant: the queue of received chunks outlives the join.
DropKeepsReceiver ==
  /\ caller \in {"idle", "spent"}
  /\ caller' = [ssh |-> "dropping", local |-> "killing", docker |-> "cleaning"][kind]
  /\ writing' = (writing /\ ~Ssh)
  /\ UNCHANGED <<kind, burst, tries, sent, got, reading, taskVars, writeQ, readQ, net, out, shellVars>>

Drop ==
  /\ caller \in {"idle", "spent"}
  /\ caller' = [ssh |-> "dropping", local |-> "killing", docker |-> "cleaning"][kind]
  /\ IF Ssh THEN writing' = FALSE /\ reading' = FALSE ELSE UNCHANGED <<writing, reading>>
  /\ UNCHANGED <<kind, burst, tries, sent, got, taskVars, writeQ, readQ, net, out, shellVars>>

\* docker exec has returned, whatever it achieved.
ContainerCleaned ==
  /\ caller = "cleaning"
  /\ caller' = "killing"
  /\ UNCHANGED <<kind, burst, tries, sent, got, writing, reading, taskVars, writeQ, readQ, net, out, shellVars>>

\* The child is reaped and the terminal closed; its reader is left to end by itself.
Killed ==
  /\ caller = "killing"
  /\ caller' = "dropped"
  /\ writing' = FALSE /\ reading' = FALSE
  /\ Hangup
  /\ UNCHANGED <<kind, burst, tries, sent, got, taskVars, writeQ, readQ, out, printed, heard>>

\* The SSH thread is joined.
Joined ==
  /\ caller = "dropping" /\ Dead
  /\ caller' = "dropped"
  /\ UNCHANGED <<kind, burst, tries, sent, got, writing, reading, taskVars, writeQ, readQ, net, out, shellVars>>
-----------------------------------------------------------------------------
(***************************************************************************)
(* The thread: io_loop, whose select takes what is ready on either side,   *)
(* or the reader of a terminal, which has the first two steps only. The    *)
(* send of a chunk blocks the thread while the queue is full.              *)
(***************************************************************************)
ReadShell ==
  /\ task = "select" /\ out # <<>>
  /\ hand' = <<Head(out)>> /\ out' = Tail(out)
  /\ task' = "forward"
  /\ UNCHANGED <<kind, callerVars, line, ready, writeQ, readQ, net, shellVars>>

\* Mutant: a chunk that finds the queue full is dropped.
ForwardLossy ==
  /\ task = "forward"
  /\ readQ' = IF reading /\ Len(readQ) < ReadCap THEN readQ \o hand ELSE readQ
  /\ task' = IF reading THEN "select" ELSE "ended"
  /\ hand' = <<>>
  /\ UNCHANGED <<kind, callerVars, line, ready, writeQ, net, out, shellVars>>

Forward ==
  /\ task = "forward"
  /\ reading => Len(readQ) < ReadCap
  /\ readQ' = IF reading THEN readQ \o hand ELSE readQ
  /\ task' = IF reading THEN "select" ELSE "ended"
  /\ hand' = <<>>
  /\ UNCHANGED <<kind, callerVars, line, ready, writeQ, net, out, shellVars>>

TakeLine ==
  /\ task = "select" /\ writeQ # <<>>
  /\ line' = <<Head(writeQ)>> /\ writeQ' = Tail(writeQ)
  /\ task' = "write"
  /\ UNCHANGED <<kind, callerVars, hand, ready, readQ, net, out, shellVars>>

\* wr.write_all waits for the window and fails when the channel is closed.
WriteLine ==
  /\ task = "write"
  /\ \/ /\ Linked /\ Len(net) < Window
        /\ net' = net \o line
        /\ task' = "select"
     \/ /\ ~Linked
        /\ task' = "ended"
        /\ UNCHANGED net
  /\ line' = <<>>
  /\ UNCHANGED <<kind, callerVars, hand, ready, writeQ, readQ, out, shellVars>>

\* The output has an end, when the last process that has the terminal open is gone,
\* and is read to it; or the transport is dropped, which only the SSH thread sees.
TaskEnds ==
  /\ task = "select"
  /\ (~Linked /\ out = <<>>) \/ (Ssh /\ writeQ = <<>> /\ ~writing)
  /\ task' = "ended"
  /\ UNCHANGED <<kind, callerVars, hand, line, ready, writeQ, readQ, net, out, shellVars>>
-----------------------------------------------------------------------------
(***************************************************************************)
(* The shell, external to the library: it reads when it likes, replies to  *)
(* the last line it read, prints what background jobs print, and exits.    *)
(* What it leaves behind may print, and ends when it likes.                *)
(***************************************************************************)
ShellReads ==
  /\ shell = "up" /\ net # <<>>
  /\ heard' = Head(net) /\ net' = Tail(net)
  /\ UNCHANGED <<kind, callerVars, taskVars, writeQ, readQ, out, printed, shell, survivor>>

ShellPrints ==
  /\ Linked /\ ready = "ok" /\ printed < MaxChunks /\ Len(out) < Window
  /\ \E reply \in {0, heard}, ok \in BOOLEAN :
       /\ reply # 0 => shell = "up"
       /\ ~ok => reply = 1     \* shell_init: no base64 decoder
       /\ out' = Append(out, [n |-> printed + 1, reply |-> reply, ok |-> ok])
  /\ printed' = printed + 1
  /\ UNCHANGED <<kind, callerVars, taskVars, writeQ, readQ, net, heard, shell, survivor>>

ShellExits ==
  /\ shell = "up" /\ ready = "ok"
  /\ Gone
  /\ UNCHANGED <<kind, callerVars, taskVars, writeQ, readQ, out, printed, heard>>

SurvivorEnds ==
  /\ shell = "gone" /\ survivor
  /\ survivor' = FALSE /\ net' = <<>>
  /\ UNCHANGED <<kind, callerVars, taskVars, writeQ, readQ, out, printed, heard, shell>>
-----------------------------------------------------------------------------
LoginEnds == LoggedIn \/ LoginFailed

Caller ==
  \/ Connected \/ ConnectFailed
  \/ Enqueue \/ WriteTerminal \/ WriteFails
  \/ Receive \/ Disconnected \/ Deadline
  \/ Killed \/ Joined

Task == ReadShell \/ Forward \/ TakeLine \/ WriteLine \/ TaskEnds

Next ==
  \/ LoginEnds \/ ChannelOpened \/ ChannelFailed \/ Inspected
  \/ Caller \/ Command \/ Drop \/ ContainerCleaned
  \/ Task
  \/ ShellReads \/ ShellPrints \/ ShellExits \/ SurvivorEnds

Spec == Init /\ [][Next]_vars

\* connect_timeout and the deadlines pass, both threads run, a killed child is
\* reaped. Nothing makes the server answer after the login, docker ever answer, a
\* shell or what it left behind read or exit, or a session call or drop.
FairSpec == Spec /\ WF_vars(LoginEnds) /\ WF_vars(Caller) /\ WF_vars(Task)
-----------------------------------------------------------------------------
(***************************************************************************)
(* Properties.                                                             *)
(***************************************************************************)
\* recv_timeout and write_all, through both queues and whichever side is full:
\* while the link is in use every chunk printed is received, or waits, exactly once
\* and in order; and so is every line as long as somebody is there to read it.
Numbers(from, to) == [i \in 1..(to - from + 1) |-> from + i - 1]

NothingLost ==
  /\ reading =>
       LET chunks == got \o readQ \o hand \o out
       IN [i \in 1..Len(chunks) |-> chunks[i].n] = Numbers(1, printed)
  /\ shell = "up" /\ ~Dead =>
       net \o line \o writeQ = Numbers(heard + 1, sent)

\* Somebody takes what the caller writes.
Open == ~Dead /\ (Ssh \/ Linked)

\* A session asks one thing at a time: what is not yet read by the shell is at
\* most a command's line and the three writes of its resync, so the queue
\* of a real link is never full of lines.
FewLines == Open => sent - heard <= 4

\* A line that does not fit, also for being larger than the room, waits for a shell
\* that does not read: where the terminal is full the caller waits, where the SSH
\* window is, the thread does, and with it whoever waits for the thread.
Stalled ==
  /\ Linked /\ Len(net) >= Window
  /\ IF Ssh THEN task = "write" ELSE caller = "sending"

\* write_all and Drop never wait for one another's cause. Where the queue takes the
\* lines that a session can have under way, a write goes through or fails, however
\* full the way back is and whatever the thread is parked in; and from the moment the
\* transport is dropped its thread waits neither for the caller nor for the queues, so
\* that the join ends. Excepted are a line that does not fit, and the reader of a
\* terminal, which nobody joins and which waits on for a process left behind.
Roomy == WriteCap >= 4
Writable ==
  IF Ssh THEN Dead \/ Len(writeQ) < WriteCap ELSE ~Linked \/ Len(net) < Window
TaskUnheld ==
  \/ Dead
  \/ task = "forward" /\ (reading => Len(readQ) < ReadCap)
  \/ task = "write" /\ (~Linked \/ Len(net) < Window)
  \/ task = "select" /\ (out # <<>> \/ writeQ # <<>> \/ ~Linked \/ (Ssh /\ ~writing))
NoStandoff ==
  Roomy => /\ caller = "sending" => Writable \/ Stalled
           /\ caller \in {"dropping", "dropped"} => TaskUnheld \/ Stalled \/ (~Ssh /\ survivor)

\* The inductive invariant behind both: what each queue holds follows on what the
\* one before it holds, the thread carries a chunk or a line only between two steps,
\* and where the caller is tells how many lines are under way.
Chunks == [n : Nat, reply : Nat, ok : BOOLEAN]
Live == shell = "up" /\ ~Dead
QueuesInv ==
  /\ net \in Seq(Nat) /\ line \in Seq(Nat) /\ writeQ \in Seq(Nat)
  /\ got \in Seq(Chunks) /\ readQ \in Seq(Chunks) /\ hand \in Seq(Chunks) /\ out \in Seq(Chunks)
  /\ printed \in Nat /\ heard \in Nat /\ sent \in Nat
  /\ task # "forward" => hand = <<>>
  /\ task # "write" => line = <<>>
  /\ ~Ssh => line = <<>> /\ writeQ = <<>>
Lined(n, l, q, from, to) ==
  /\ \A i \in 1..Len(n) : n[i] = from + i
  /\ \A i \in 1..Len(l) : l[i] = from + Len(n) + i
  /\ \A i \in 1..Len(q) : q[i] = from + Len(n) + Len(l) + i
  /\ to = from + Len(n) + Len(l) + Len(q)
Chained(g, r, h, o, to) ==
  /\ \A i \in 1..Len(g) : g[i].n = i
  /\ \A i \in 1..Len(r) : r[i].n = Len(g) + i
  /\ \A i \in 1..Len(h) : h[i].n = Len(g) + Len(r) + i
  /\ \A i \in 1..Len(o) : o[i].n = Len(g) + Len(r) + Len(h) + i
  /\ to = Len(g) + Len(r) + Len(h) + Len(o)
RepliesUpTo(s, n) == \A i \in 1..Len(s) : s[i].reply <= n
LinesInv == Live => Lined(net, line, writeQ, heard, sent)
ChunksInv == reading => Chained(got, readQ, hand, out, printed)
RepliesInv ==
  Open => RepliesUpTo(readQ, heard) /\ RepliesUpTo(hand, heard) /\ RepliesUpTo(out, heard)
HeldInv == Open => Len(net) + Len(line) + Len(writeQ) <= sent - heard
CallerInv ==
  Open =>
    /\ FewLines
    /\ caller = "connecting" => sent = 0
    /\ caller \in {"sending", "receiving"} => tries \in {1, 2}
    /\ caller = "sending" => burst \in 1..3 /\ sent - heard + burst <= IF tries = 2 THEN 1 ELSE 4
    /\ caller = "receiving" /\ tries = 2 => sent - heard <= 1
    /\ caller = "idle" => sent = heard
PlaceInv ==
  /\ reading = (caller \notin {"dropping", "dropped"}) /\ writing = reading
  /\ ready = "none" <=> task \in {"login", "setup", "check"}
  /\ ready = "none" => caller = "connecting"
  /\ task \in {"login", "setup", "check", "select", "forward", "write", "ended"}
  /\ ready = "err" => Dead
  /\ caller \notin {"connecting", "dropped"} => ready = "ok"
  /\ shell \in {"up", "gone", "orphan"} /\ survivor \in BOOLEAN
  /\ ~Ssh /\ Dead /\ ready = "ok" => ~Linked \/ caller = "dropped"
  /\ kind \in {"ssh", "local", "docker"}
  /\ caller \in {"cleaning", "killing"} => ~Ssh
  /\ caller = "dropping" => Ssh
  /\ ~Ssh /\ caller = "dropped" => Dead \/ shell # "up"
  /\ task = "write" => Len(line) = 1
LinkInv == QueuesInv /\ LinesInv /\ ChunksInv /\ RepliesInv /\ HeldInv /\ CallerInv /\ PlaceInv

\* The waits that nothing in the library bounds: for a server that falls silent
\* after the login, for the docker CLI, and for a shell that does not read.
Unbounded == task \in {"setup", "check"} \/ caller = "cleaning" \/ Stalled

\* Every call returns unless it meets one of those waits and it never ends: write_all
\* although a flood holds the thread in a blocking send, recv_timeout by its
\* deadline, and Drop wherever else the thread is parked.
CallReturns ==
  \A c \in {"connecting", "sending", "receiving", "cleaning", "killing", "dropping"} :
    caller = c ~> (caller # c \/ []Unbounded)

\* No thread outlives its transport for long, although LocalPty does not join it: it
\* ends once no process that the shell left behind has the terminal open.
ThreadEnds == caller = "dropped" /\ ~survivor ~> Dead
=============================================================================
