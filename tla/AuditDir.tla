------------------------------ MODULE AuditDir ------------------------------
(***************************************************************************)
(* A directory of per-session audit files (EXECKIT_MCP_AUDIT_DIR) that     *)
(* several servers share: each sweeps it when it starts (execkit-mcp/src/  *)
(* retention.rs), every session appends to a file of its own, and a viewer *)
(* tails them all (watch/dirtail.rs, watch/tail.rs, watch/state.rs). A     *)
(* session is named <<run, n>>; that two runs draw different run ids is    *)
(* assumed. An event is one line; AuditFeed has its bytes. Time is in days.*)
(***************************************************************************)
EXTENDS Integers, Sequences, SequencesExt, FiniteSets

CONSTANTS
  Servers,        \* server processes that share the directory
  RetentionDays,  \* EXECKIT_MCP_AUDIT_RETENTION_DAYS; 0 disables the sweep
  DaySeconds,     \* 86400
  MaxU64,         \* largest u64
  MaxRuns,        \* bound of the model: starts of a server
  MaxSessions,    \* bound of the model: sessions of one run
  MaxLines,       \* bound of the model: events of one session
  MaxDay          \* bound of the model: the clock

ASSUME AuditDirAssumption ==
  /\ RetentionDays \in Nat /\ DaySeconds \in Nat \ {0} /\ MaxU64 \in Nat
  /\ MaxRuns \in Nat /\ MaxSessions \in Nat /\ MaxLines \in Nat /\ MaxDay \in Nat

VARIABLES
  today,     \* the clock
  run,       \* per server: the number of its run, or 0 if it is down
  runs,      \* runs so far
  opened,    \* per run: next_num, sessions opened so far
  live,      \* sessions open in a server
  calls,     \* sessions with a session_exec under way, open or not any more
  entries,   \* per server: files of its sweep's read_dir still to visit
  sweepNow,  \* per server: the time its sweep took
  doomed,    \* per server: the file its sweep has found expired, or NoFile
  files,     \* per file: its events
  modified,  \* per file: day of the last append
  written,   \* history: all events of a session
  raced,     \* history: sessions that wrote between a sweep's look and its removal
  swept,     \* history: sessions whose file was removed
  tailers,   \* DirTailer.tailers: per file discovered, its offset in events, and
             \* whether buf has part of a line that is read again from its start
  polling,   \* the tailers that the poll in progress has yet to poll
  reading,   \* the file a Tailer::poll has open, the length it took, and whether the
             \* file has been removed since, then with its events
  overtaken, \* history: sessions that wrote between the length and the read of a poll
  views      \* AppState.sessions

serving == <<run, runs, opened, live, calls>>
sweeping == <<entries, sweepNow, doomed>>
directory == <<files, modified, written, raced, swept>>
viewer == <<tailers, polling, reading, overtaken, views>>
dirVars == <<today, serving, sweeping, directory, viewer>>

Keys == (1..MaxRuns) \X (1..MaxSessions)
NoFile == <<0, 0>>
NotReading == [key |-> NoFile, len |-> 0, gone |-> FALSE, last |-> <<>>]

DirInit ==
  /\ today = 0
  /\ run = [s \in Servers |-> 0] /\ runs = 0
  /\ opened = [r \in 1..MaxRuns |-> 0] /\ live = {} /\ calls = {}
  /\ entries = [s \in Servers |-> {}] /\ sweepNow = [s \in Servers |-> 0]
  /\ doomed = [s \in Servers |-> NoFile]
  /\ files = <<>> /\ modified = <<>>
  /\ written = [k \in Keys |-> <<>>] /\ raced = {} /\ swept = {}
  /\ tailers = <<>> /\ polling = {} /\ reading = NotReading
  /\ overtaken = {} /\ views = <<>>

\* f with x mapped to v, also if x is new.
Put(f, x, v) == [y \in DOMAIN f \cup {x} |-> IF y = x THEN v ELSE f[y]]
Without(f, x) == [y \in DOMAIN f \ {x} |-> f[y]]
-----------------------------------------------------------------------------
(***************************************************************************)
(* run_server sweeps before it serves.                                     *)
(***************************************************************************)
MaxAge == (RetentionDays * DaySeconds) % (MaxU64 + 1)

Start(s) ==
  /\ run[s] = 0 /\ runs < MaxRuns
  /\ runs' = runs + 1
  /\ run' = [run EXCEPT ![s] = runs + 1]
  /\ sweepNow' = [sweepNow EXCEPT ![s] = today]
  /\ entries' = [entries EXCEPT ![s] = IF RetentionDays > 0 THEN DOMAIN files ELSE {}]
  /\ UNCHANGED <<today, opened, live, calls, doomed, directory, viewer>>

\* Mutant: the age of a file is that of its session.
IsExpiredByOpening(key, now) == (now - files[key][1].day) * DaySeconds > MaxAge

\* is_expired: never for a file from the future, such as one written since.
IsExpired(key, now) == now >= modified[key] /\ (now - modified[key]) * DaySeconds > MaxAge

\* One entry: a file that is gone or young is passed over.
SweepLook(s) ==
  /\ doomed[s] = NoFile
  /\ \E key \in entries[s] :
       /\ entries' = [entries EXCEPT ![s] = @ \ {key}]
       /\ doomed' = [doomed EXCEPT ![s] =
            IF key \in DOMAIN files /\ IsExpired(key, sweepNow[s]) THEN key ELSE NoFile]
  /\ UNCHANGED <<today, serving, sweepNow, directory, viewer>>

\* A file that is open can be read on.
SweepRemove(s) ==
  /\ doomed[s] # NoFile
  /\ files' = Without(files, doomed[s]) /\ modified' = Without(modified, doomed[s])
  /\ swept' = swept \cup {doomed[s]}
  /\ doomed' = [doomed EXCEPT ![s] = NoFile]
  /\ reading' = IF reading.key = doomed[s] /\ ~reading.gone
                THEN [reading EXCEPT !.gone = TRUE, !.last = files[doomed[s]]]
                ELSE reading
  /\ UNCHANGED <<today, serving, entries, sweepNow, written, raced,
                 tailers, polling, overtaken, views>>

Serving(s) == run[s] # 0 /\ entries[s] = {} /\ doomed[s] = NoFile
-----------------------------------------------------------------------------
(***************************************************************************)
(* A serving process: sessions and their events. The file is created by    *)
(* the first append, and again by one after it was removed.                *)
(***************************************************************************)
AppendEvent(key, kind) ==
  LET event == [kind |-> kind, day |-> today]
      before == IF key \in DOMAIN files THEN files[key] ELSE <<>>
  IN /\ files' = Put(files, key, Append(before, event))
     /\ modified' = Put(modified, key, today)
     /\ written' = [written EXCEPT ![key] = Append(@, event)]
     /\ raced' = IF \E s \in Servers : doomed[s] = key THEN raced \cup {key} ELSE raced
     /\ UNCHANGED swept

OpenSession(s) ==
  LET key == <<run[s], opened[run[s]] + 1>>
  IN /\ Serving(s) /\ opened[run[s]] < MaxSessions
     /\ opened' = [opened EXCEPT ![run[s]] = @ + 1]
     /\ live' = live \cup {key}
     /\ AppendEvent(key, "open")
     /\ UNCHANGED <<today, run, runs, calls, sweeping, viewer>>

\* session_exec has its session's writer from here on, whatever becomes of the session.
Call(key) ==
  /\ key \in live \ calls /\ Len(written[key]) < MaxLines - 1
  /\ calls' = calls \cup {key}
  /\ UNCHANGED <<today, run, runs, opened, live, sweeping, directory, viewer>>

\* An exec's result, or a command the operator's policy blocked.
Record(key, kind) ==
  /\ key \in calls
  /\ calls' = calls \ {key}
  /\ AppendEvent(key, kind)
  /\ UNCHANGED <<today, run, runs, opened, live, sweeping, viewer>>

\* Destroyed, reaped, or closed by a dead shell.
CloseSession(key) ==
  /\ key \in live
  /\ live' = live \ {key}
  /\ AppendEvent(key, "close")
  /\ UNCHANGED <<today, run, runs, opened, calls, sweeping, viewer>>

\* The process ends; its sessions leave no close event.
Stop(s) ==
  /\ run[s] # 0
  /\ run' = [run EXCEPT ![s] = 0]
  /\ live' = {key \in live : key[1] # run[s]}
  /\ calls' = {key \in calls : key[1] # run[s]}
  /\ entries' = [entries EXCEPT ![s] = {}] /\ doomed' = [doomed EXCEPT ![s] = NoFile]
  /\ UNCHANGED <<today, runs, opened, sweepNow, directory, viewer>>

ClockMoves ==
  /\ today < MaxDay /\ today' = today + 1
  /\ UNCHANGED <<serving, sweeping, directory, viewer>>
-----------------------------------------------------------------------------
(***************************************************************************)
(* The viewer: Source, DirTailer and AppState. A poll takes its files in   *)
(* the order of the paths. Tailer::poll has two moments: it takes the      *)
(* length of a file, and reads it to its end. What it reads is shown at    *)
(* once here, with the rest of the poll in the code.                       *)
(***************************************************************************)
NewTailer == [offset |-> 0, half |-> FALSE]

\* Mutant: a file that is known gets a new tailer.
DiscoveredAgain == [key \in DOMAIN tailers \cup DOMAIN files |-> NewTailer]

\* A tailer for every file that has none.
Discovered ==
  [key \in DOMAIN tailers \cup DOMAIN files |->
     IF key \in DOMAIN tailers THEN tailers[key] ELSE NewTailer]

Discover ==
  /\ polling = {} /\ reading = NotReading
  /\ tailers' = Discovered /\ polling' = DOMAIN Discovered
  /\ UNCHANGED <<today, serving, sweeping, directory, reading, overtaken, views>>

\* The order of the paths.
KeyOrder(a, b) == a[1] < b[1] \/ (a[1] = b[1] /\ a[2] < b[2])
FirstPath(keys) == CHOOSE k \in keys : \A j \in keys : j = k \/ KeyOrder(k, j)

\* A file that became shorter is read from its start.
Rewound(tailer, len) == IF len < tailer.offset THEN NewTailer ELSE tailer

\* Tailer::poll up to the length: nothing is read of a file that is gone or unchanged.
PollLength ==
  LET key == FirstPath(polling)
      len == Len(files[key])
  IN /\ polling # {} /\ reading = NotReading
     /\ polling' = polling \ {key}
     /\ \/ key \notin DOMAIN files /\ UNCHANGED <<tailers, reading>>
        \/ /\ key \in DOMAIN files
           /\ tailers' = [tailers EXCEPT ![key] = Rewound(@, len)]
           /\ reading' = IF len = Rewound(tailers[key], len).offset THEN NotReading
                         ELSE [NotReading EXCEPT !.key = key, !.len = len]
     /\ UNCHANGED <<today, serving, sweeping, directory, overtaken, views>>

NewView(key) == [key |-> key, closed |-> FALSE, cmds |-> 0, transcript |-> <<>>]

\* The view of a session after one more of its events.
Pushed(view, event) ==
  [key |-> view.key,
   closed |-> view.closed \/ event.kind = "close",
   cmds |-> view.cmds + (IF event.kind = "exec" THEN 1 ELSE 0),
   transcript |-> Append(view.transcript, event)]

\* AppState::push: the view is made by the first event of its session.
Apply1(state, key, event) ==
  LET at == {i \in DOMAIN state : state[i].key = key}
      all == IF at = {} THEN Append(state, NewView(key)) ELSE state
      i == IF at = {} THEN Len(all) ELSE CHOOSE j \in at : TRUE
  IN [all EXCEPT ![i] = Pushed(@, event)]

\* The events of one file, in order.
ApplyAll(state, key, events) ==
  LET after[n \in 0..Len(events)] ==
        IF n = 0 THEN state ELSE Apply1(after[n - 1], key, events[n])
  IN after[Len(events)]

\* What the open file holds.
Held == IF reading.gone THEN reading.last ELSE files[reading.key]

\* Where a read may stop that goes past the length taken: the last line may be there
\* without its newline.
ReadEnds == IF Len(Held) > reading.len THEN {Len(Held) - 1, Len(Held)} ELSE {Len(Held)}

\* The events read: of a line whose beginning is in buf already, nothing parses.
Unread(to) ==
  LET tailer == tailers[reading.key]
  IN SubSeq(Held, tailer.offset + (IF tailer.half THEN 2 ELSE 1), to)

\* The rest of Tailer::poll: the offset becomes the length taken before the read.
PollToEnd ==
  /\ reading # NotReading
  /\ \E to \in ReadEnds :
       /\ views' = ApplyAll(views, reading.key, Unread(to))
       /\ tailers' = [tailers EXCEPT ![reading.key] =
                        [offset |-> reading.len, half |-> to < Len(Held)]]
  /\ overtaken' = IF Len(Held) > reading.len THEN overtaken \cup {reading.key} ELSE overtaken
  /\ reading' = NotReading
  /\ UNCHANGED <<today, serving, sweeping, directory, polling>>

\* The seek or the read fails: nothing is read this time.
PollFails ==
  /\ reading # NotReading
  /\ reading' = NotReading
  /\ UNCHANGED <<today, serving, sweeping, directory, tailers, polling, overtaken, views>>

\* The web viewer's history: list_sessions and session_transcript.
ListSessions == DOMAIN files
SessionTranscript(key) == files[key]
-----------------------------------------------------------------------------
Serves ==
  \/ \E s \in Servers : Start(s) \/ SweepLook(s) \/ SweepRemove(s) \/ OpenSession(s) \/ Stop(s)
  \/ \E key \in live \cup calls :
       Call(key) \/ CloseSession(key) \/ \E kind \in {"exec", "blocked"} : Record(key, kind)
  \/ ClockMoves

Views == Discover \/ PollLength \/ PollToEnd \/ PollFails

DirNext == Serves \/ Views

DirSpec == DirInit /\ [][DirNext]_dirVars
-----------------------------------------------------------------------------
(***************************************************************************)
(* Properties.                                                             *)
(***************************************************************************)

\* sweep, in a directory where other servers' sessions are live: a file is removed
\* only when every event in it was older than the retention as its sweep began,
\* although the sweep's time is older than some of them. (A session that writes
\* between the look at its file and the removal loses that event.)
SweptWasOld ==
  \A key \in DOMAIN files \ DOMAIN files' :
    \/ key \in raced
    \/ \E s \in Servers :
         /\ doomed[s] = key
         /\ \A i \in 1..Len(files[key]) : sweepNow[s] - files[key][i].day > RetentionDays
NothingRecentSwept == [][SweptWasOld]_dirVars

\* The inductive invariant behind it: no event is younger than its file, and a file
\* that a sweep has found expired is expired still, unless it is gone or was raced.
EventType == [kind : {"open", "exec", "blocked", "close"}, day : Nat]
FilesInv ==
  /\ today \in Nat
  /\ files = [k \in DOMAIN files |-> files[k]]
  /\ modified = [k \in DOMAIN files |-> modified[k]]
  /\ \A k \in DOMAIN files :
       /\ files[k] \in Seq(EventType) /\ modified[k] \in 0..today
       /\ \A i \in 1..Len(files[k]) : files[k][i].day <= modified[k]
SweepInv(s) ==
  /\ run[s] = 0 => entries[s] = {} /\ doomed[s] = NoFile
  /\ doomed[s] \in DOMAIN files \ (raced \cup {NoFile}) =>
       \A i \in 1..Len(files[doomed[s]]) : sweepNow[s] - files[doomed[s]][i].day > RetentionDays
SweepsInv ==
  /\ runs \in Nat /\ run \in [Servers -> Nat] /\ sweepNow \in [Servers -> Nat]
  /\ entries = [s \in Servers |-> entries[s]] /\ doomed = [s \in Servers |-> doomed[s]]
  /\ \A s \in Servers : SweepInv(s)

\* The viewer beside servers that come and go: one view per session, which counts
\* the commands it shows and says closed if it shows a close; and, however writes,
\* sweeps and the steps of a poll interleave, a session's events are shown in order and
\* each once, also one that comes after the close; the history, if it lists the
\* session, agrees. Except for a session whose file was removed, of which the viewer
\* keeps what it had, and for one that has written between the length and the read of
\* a poll: that poll's last events are shown twice, or one is lost (AuditFeed!TailSafe).
Tells(view) ==
  LET shown == view.transcript
  IN /\ view.cmds = Cardinality({n \in DOMAIN shown : shown[n].kind = "exec"})
     /\ view.closed <=> \E n \in DOMAIN shown : shown[n].kind = "close"
ViewExact ==
  /\ \A i, j \in DOMAIN views : views[i].key = views[j].key => i = j
  /\ \A i \in DOMAIN views :
       LET key == views[i].key
           shown == views[i].transcript
       IN /\ Tells(views[i])
          /\ key \notin swept \cup overtaken =>
               /\ IsPrefix(shown, written[key])
               /\ key \in ListSessions => IsPrefix(shown, SessionTranscript(key))

\* The inductive invariant behind it: the file of a session that was not swept has
\* all its events, and the viewer, until a poll is overtaken, shows those before its
\* offset; a file that is open is at its path or in the reader's hands.
ViewsOf(state, key) == {i \in DOMAIN state : state[i].key = key}
Shows(state, key, events) ==
  /\ ViewsOf(state, key) = {} => events = <<>>
  /\ \A i \in ViewsOf(state, key) : state[i].transcript = events
View == [key : Keys, closed : BOOLEAN, cmds : Nat, transcript : Seq(EventType)]
ViewState(state) ==
  /\ state \in Seq(View)
  /\ \A i, j \in DOMAIN state : state[i].key = state[j].key => i = j
  /\ \A i \in DOMAIN state : Tells(state[i])
SessionsInv ==
  /\ runs \in 0..MaxRuns /\ run \in [Servers -> 0..MaxRuns]
  /\ opened \in [1..MaxRuns -> 0..MaxSessions]
  /\ live \subseteq Keys /\ calls \subseteq Keys
HistoryInv ==
  /\ DOMAIN files \subseteq Keys /\ written \in [Keys -> Seq(EventType)]
  /\ \A k \in Keys \ swept : written[k] = IF k \in DOMAIN files THEN files[k] ELSE <<>>
TailerOf(k) == IF k \in DOMAIN tailers THEN tailers[k] ELSE NewTailer
PollInv ==
  /\ tailers \in [DOMAIN tailers -> [offset : Nat, half : BOOLEAN]] /\ DOMAIN tailers \subseteq Keys
  /\ polling \subseteq DOMAIN tailers
  /\ reading \in [key : DOMAIN tailers \cup {NoFile}, len : Nat, gone : BOOLEAN, last : Seq(EventType)]
  /\ reading.key = NoFile => reading = NotReading
  /\ reading.key # NoFile =>
       /\ ~reading.gone => reading.key \in DOMAIN files
       /\ reading.key \notin swept => ~reading.gone /\ reading.len <= Len(files[reading.key])
ViewInv ==
  /\ ViewState(views)
  /\ \A k \in Keys \ (swept \cup overtaken) :
       LET tailer == TailerOf(k)
       IN /\ ~tailer.half /\ tailer.offset <= Len(written[k])
          /\ Shows(views, k, SubSeq(written[k], 1, tailer.offset))
=============================================================================
