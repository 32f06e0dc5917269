------------------------------ MODULE AuditFeed ------------------------------
(***************************************************************************)
(* From the audit log to the browser: AuditWriter.append                   *)
(* (execkit-mcp/src/audit.rs), the Tailer that polls the file while it     *)
(* grows (watch/tail.rs), the web viewer's poller, which keeps a backlog   *)
(* and broadcasts, and its event streams (watch/web.rs).                   *)
(* A byte of the file is the body of event n or the newline that ends it;  *)
(* every event renders to one line. Published lines are named by their     *)
(* position in the backlog.                                                *)
(***************************************************************************)
EXTENDS Naturals, Sequences, SequencesExt

CONSTANTS
  Clients,       \* event streams
  MaxEvents,     \* bound of the model: events written
  MaxRotations,  \* bound of the model: truncations of the file
  Capacity       \* of the broadcast channel (1024 in serve)

ASSUME FeedAssumption ==
  MaxEvents \in Nat /\ MaxRotations \in Nat /\ Capacity \in Nat \ {0}

VARIABLES
  file,       \* the audit file
  begun,      \* events whose append has begun
  open,       \* the append of the last one still owes its newline
  rotations,  \* truncations so far
  stat,       \* the length poll has seen, or None between polls
  offset,     \* Tailer.offset
  buf,        \* Tailer.buf
  overrun,    \* history: a read went past the length taken before it
  batch,      \* events of this poll not yet published
  backlog,    \* events published, in order
  sent,       \* how many of them have been broadcast
  on,         \* per client: connected
  todo,       \* per client: lines of the snapshot not yet written
  pos,        \* per client: how much of the broadcast it has taken
  lagged,     \* per client: the channel dropped lines it had not taken
  view        \* per client: the lines written to it

log == <<file, begun, open, rotations>>
tailer == <<stat, offset, buf, overrun>>
streams == <<on, todo, pos, lagged, view>>
vars == <<log, tailer, batch, backlog, sent, streams>>

None == MaxEvents * 2 + 1   \* longer than any file
Body(n) == [ev |-> n, nl |-> FALSE]
Newline(n) == [ev |-> n, nl |-> TRUE]

Init ==
  /\ file = <<>> /\ begun = 0 /\ open = FALSE /\ rotations = 0
  /\ stat = None /\ offset = 0 /\ buf = <<>> /\ overrun = FALSE
  /\ batch = <<>> /\ backlog = <<>> /\ sent = 0
  /\ on = [k \in Clients |-> FALSE]
  /\ todo = [k \in Clients |-> <<>>]
  /\ pos = [k \in Clients |-> 0]
  /\ lagged = [k \in Clients |-> FALSE]
  /\ view = [k \in Clients |-> <<>>]
-----------------------------------------------------------------------------
(***************************************************************************)
(* The log. writeln! reaches the file as two writes.                       *)
(***************************************************************************)
AppendBody ==
  /\ ~open /\ begun < MaxEvents
  /\ begun' = begun + 1
  /\ file' = Append(file, Body(begun + 1))
  /\ open' = TRUE
  /\ UNCHANGED <<rotations, tailer, batch, backlog, sent, streams>>

AppendNewline ==
  /\ open
  /\ file' = Append(file, Newline(begun))
  /\ open' = FALSE
  /\ UNCHANGED <<begun, rotations, tailer, batch, backlog, sent, streams>>

\* The server dies or the disk is full between the two writes.
AppendTorn ==
  /\ open
  /\ open' = FALSE
  /\ UNCHANGED <<file, begun, rotations, tailer, batch, backlog, sent, streams>>

\* The file is truncated from outside.
Rotate ==
  /\ rotations < MaxRotations /\ file # <<>> /\ ~open
  /\ file' = <<>>
  /\ rotations' = rotations + 1
  /\ UNCHANGED <<begun, open, tailer, batch, backlog, sent, streams>>
-----------------------------------------------------------------------------
(***************************************************************************)
(* Tailer.poll, in two steps: the length is taken first, the file read to  *)
(* its end afterwards.                                                     *)
(***************************************************************************)

\* Mutant: a shorter file is taken for one without news.
PollStatNoReset ==
  /\ stat = None /\ batch = <<>> /\ sent = Len(backlog)
  /\ stat' = IF Len(file) <= offset THEN None ELSE Len(file)
  /\ UNCHANGED <<log, offset, buf, overrun, batch, backlog, sent, streams>>

\* A shorter file starts over; an unchanged one ends the poll.
PollStat ==
  /\ stat = None /\ batch = <<>> /\ sent = Len(backlog)
  /\ LET start == IF Len(file) < offset THEN 0 ELSE offset
     IN /\ offset' = start
        /\ buf' = IF Len(file) < offset THEN <<>> ELSE buf
        /\ stat' = IF Len(file) = start THEN None ELSE Len(file)
  /\ UNCHANGED <<log, overrun, batch, backlog, sent, streams>>

\* Where lines end in b.
LineEnds(b) == {i \in 1..Len(b) : b[i].nl}

\* The line that ends at index i parses if it is the body of one event.
Parses(b, i) == b[i].nl /\ i > 1 /\ ~b[i - 1].nl /\ (i = 2 \/ b[i - 2].nl)

\* The events of the lines of b that parse.
Events(b) ==
  LET read[n \in 0..Len(b)] ==
        IF n = 0 THEN <<>>
        ELSE IF Parses(b, n) THEN Append(read[n - 1], b[n].ev)
        ELSE read[n - 1]
  IN read[Len(b)]

Remainder(b) == IF LineEnds(b) = {} THEN b ELSE SubSeq(b, Max(LineEnds(b)) + 1, Len(b))

\* Mutant: the unfinished line is dropped instead of kept for the next poll.
PollReadNoRemainder ==
  /\ stat # None
  /\ batch' = Events(SubSeq(file, offset + 1, Len(file)))
  /\ buf' = <<>>
  /\ overrun' = (overrun \/ Len(file) # stat)
  /\ offset' = stat
  /\ stat' = None
  /\ UNCHANGED <<log, backlog, sent, streams>>

PollRead ==
  /\ stat # None
  /\ LET b == buf \o SubSeq(file, offset + 1, Len(file))
     IN buf' = Remainder(b) /\ batch' = Events(b)
  /\ overrun' = (overrun \/ Len(file) # stat)
  /\ offset' = stat
  /\ stat' = None
  /\ UNCHANGED <<log, backlog, sent, streams>>
-----------------------------------------------------------------------------
(***************************************************************************)
(* The poller of serve: a line enters the backlog under its lock and is    *)
(* broadcast after the lock is gone.                                       *)
(***************************************************************************)
Publish ==
  /\ batch # <<>> /\ sent = Len(backlog)
  /\ backlog' = Append(backlog, Head(batch))
  /\ batch' = Tail(batch)
  /\ UNCHANGED <<log, tailer, sent, streams>>

Broadcast ==
  /\ sent < Len(backlog)
  /\ sent' = sent + 1
  /\ UNCHANGED <<log, tailer, batch, backlog, streams>>
-----------------------------------------------------------------------------
(***************************************************************************)
(* stream_events; a client that connects again has a new stream.           *)
(***************************************************************************)

\* Mutant: the stream subscribes after the snapshot, and not under the lock.
ConnectUnlocked(k) ==
  /\ ~on[k]
  /\ on' = [on EXCEPT ![k] = TRUE]
  /\ \E n \in 0..Len(backlog) : todo' = [todo EXCEPT ![k] = [i \in 1..n |-> i]]
  /\ pos' = [pos EXCEPT ![k] = sent]
  /\ UNCHANGED <<log, tailer, batch, backlog, sent, lagged, view>>

Connect(k) ==
  /\ ~on[k]
  /\ on' = [on EXCEPT ![k] = TRUE]
  /\ todo' = [todo EXCEPT ![k] = [i \in 1..Len(backlog) |-> i]]
  /\ pos' = [pos EXCEPT ![k] = sent]
  /\ UNCHANGED <<log, tailer, batch, backlog, sent, lagged, view>>

Replay(k) ==
  /\ on[k] /\ todo[k] # <<>>
  /\ view' = [view EXCEPT ![k] = Append(@, Head(todo[k]))]
  /\ todo' = [todo EXCEPT ![k] = Tail(@)]
  /\ UNCHANGED <<log, tailer, batch, backlog, sent, on, pos, lagged>>

\* The next broadcast line; the channel keeps the last Capacity lines only.
Receive(k) ==
  /\ on[k] /\ todo[k] = <<>> /\ pos[k] < sent
  /\ \/ /\ sent - pos[k] <= Capacity
        /\ pos' = [pos EXCEPT ![k] = @ + 1]
        /\ view' = [view EXCEPT ![k] = Append(@, pos[k] + 1)]
        /\ UNCHANGED lagged
     \/ /\ sent - pos[k] > Capacity
        /\ pos' = [pos EXCEPT ![k] = sent - Capacity]
        /\ lagged' = [lagged EXCEPT ![k] = TRUE]
        /\ UNCHANGED view
  /\ UNCHANGED <<log, tailer, batch, backlog, sent, on, todo>>

Disconnect(k) ==
  /\ on[k]
  /\ on' = [on EXCEPT ![k] = FALSE]
  /\ todo' = [todo EXCEPT ![k] = <<>>]
  /\ pos' = [pos EXCEPT ![k] = 0]
  /\ lagged' = [lagged EXCEPT ![k] = FALSE]
  /\ view' = [view EXCEPT ![k] = <<>>]
  /\ UNCHANGED <<log, tailer, batch, backlog, sent>>
-----------------------------------------------------------------------------
Writer == AppendBody \/ AppendNewline \/ AppendTorn \/ Rotate

Poller == PollStat \/ PollRead \/ Publish \/ Broadcast

Stream(k) == Replay(k) \/ Receive(k)

Next ==
  \/ Writer \/ Poller
  \/ \E k \in Clients : Connect(k) \/ Stream(k) \/ Disconnect(k)

Spec == Init /\ [][Next]_vars

\* The poller's timer fires and its task runs; a connected client that reads is
\* written to. Nothing makes the server write, or a client connect or stay.
FairSpec == Spec /\ WF_vars(Poller) /\ \A k \in Clients : WF_vars(Stream(k))
-----------------------------------------------------------------------------
(***************************************************************************)
(* Properties.                                                             *)
(***************************************************************************)
\* What stream k has written, and still holds of its snapshot.
Due(k) == view[k] \o todo[k]

\* stream_events: no line falls between the snapshot and the subscription, and
\* none is passed over afterwards. What a stream that never lagged has written or
\* still holds of its snapshot is in order and has every line up to its position.
NoGap ==
  \A k \in Clients :
    on[k] /\ ~lagged[k] =>
      /\ 1..pos[k] \subseteq ToSet(Due(k))
      /\ \A i \in 2..Len(Due(k)) : Due(k)[i - 1] <= Due(k)[i]

\* The inductive invariant behind it: at most one published line is not broadcast
\* yet, so what a stream replays goes at most one line beyond where it subscribed.
BacklogInv ==
  /\ sent \in Nat /\ Len(backlog) \in {sent, sent + 1}
  /\ backlog \in Seq(ToSet(backlog))

Gapless(d, p) ==
  /\ \A i \in 1..Len(d) : d[i] <= p + 1
  /\ 1..p \subseteq ToSet(d)
  /\ \A i \in 2..Len(d) : d[i - 1] <= d[i]

StreamInv(k) ==
  /\ ~on[k] => view[k] = <<>> /\ ~lagged[k]
  /\ on[k] /\ ~lagged[k] => Gapless(Due(k), pos[k])

FeedInv ==
  /\ BacklogInv
  /\ on \in [Clients -> BOOLEAN] /\ lagged \in [Clients -> BOOLEAN]
  /\ pos \in [Clients -> Nat]
  /\ view \in [Clients -> Seq(Nat)] /\ todo \in [Clients -> Seq(Nat)]
  /\ \A k \in Clients : StreamInv(k)

\* Tailer.poll across polls: as long as the file was not rotated and no append
\* fell between a length and its read, the poller has published, or holds,
\* exactly the well-formed lines of what lies before the offset, in order,
\* however the polls cut the lines; the buffer holds the unfinished last one.
ReadExactly ==
  ~overrun /\ rotations = 0 =>
    LET read == SubSeq(file, 1, offset)
    IN backlog \o batch = Events(read) /\ buf = Remainder(read)

\* The inductive invariant behind it: until the file is rotated, what lies before
\* the offset stays there.
Bytes == [ev : Nat, nl : BOOLEAN]
ReadInv ==
  /\ file \in Seq(Bytes) /\ buf \in Seq(Bytes)
  /\ batch \in Seq(Nat) /\ backlog \in Seq(Nat)
  /\ begun \in Nat /\ rotations \in Nat /\ offset \in Nat /\ overrun \in BOOLEAN
  /\ stat # None => stat \in Nat /\ batch = <<>>
  /\ rotations = 0 => offset <= Len(file) /\ (stat # None => stat <= Len(file))
  /\ ReadExactly

\* serve and stream_events: a client that stays connected is brought up to date,
\* also after a rotation and after it has lagged.
UpToDate(k) ==
  /\ stat = None /\ offset = Len(file) /\ batch = <<>> /\ sent = Len(backlog)
  /\ todo[k] = <<>> /\ pos[k] = sent
CatchesUp == \A k \in Clients : on[k] ~> (~on[k] \/ UpToDate(k))

\* audit.rs calls its log "append-only and tail-safe" and tail.rs "reads new
\* complete lines from the audit file as it grows": once the poller has reached the
\* end of an unrotated log with no torn line, it has published every event once.
TailSafe ==
  /\ rotations = 0 /\ \A n \in 1..begun : Newline(n) \in ToSet(file)
  /\ stat = None /\ offset = Len(file)
  => backlog \o batch = [n \in 1..begun |-> n]
=============================================================================
