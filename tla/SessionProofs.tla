---------------------------- MODULE SessionProofs ----------------------------
(***************************************************************************)
(* Session, for every set of configurations and any number of calls: a     *)
(* live session stays in step with its shell, implements CommandChannel,   *)
(* and what it reports, leaves behind and believes is right. SessionInv    *)
(* is inductive: BeliefsInv says what tokens prove about the queues of any *)
(* session, LiveInv where the one command of a live session can be.        *)
(***************************************************************************)
EXTENDS Session, TLAPS

-----------------------------------------------------------------------------
(***************************************************************************)
(* Sequences of any elements, and the short ones the protocol writes.      *)
(***************************************************************************)
LEMMA RangeOfTail ==
  ASSUME NEW S, NEW s \in Seq(S), s # <<>>
  PROVE  Tail(s) \in Seq(S) /\ Head(s) \in Range(s) /\ Head(s) \in S /\ Range(Tail(s)) \subseteq Range(s)
BY DEF Range

LEMMA RangeOfAppend ==
  ASSUME NEW S, NEW s \in Seq(S), NEW e \in S
  PROVE  Append(s, e) \in Seq(S) /\ Range(Append(s, e)) = Range(s) \cup {e}
<1>1. /\ Append(s, e) \in Seq(S) /\ Len(Append(s, e)) = Len(s) + 1 /\ Len(s) \in Nat
      /\ \A i \in 1..Len(s) : Append(s, e)[i] = s[i]
      /\ Append(s, e)[Len(s) + 1] = e
      /\ DOMAIN s = 1..Len(s) /\ DOMAIN Append(s, e) = 1..Len(Append(s, e))
  OBVIOUS
<1> DEFINE a == Append(s, e)
<1> HIDE DEF a
<1>2. \A i \in 1..Len(a) : i \in 1..Len(s) \/ i = Len(s) + 1
  BY <1>1 DEF a
<1>3. \A i \in 1..Len(s) : i \in 1..Len(a)
  BY <1>1 DEF a
<1>4. Len(s) + 1 \in 1..Len(a)
  BY <1>1 DEF a
<1>5. Range(a) = Range(s) \cup {e}
  BY <1>1, <1>2, <1>3, <1>4 DEF a, Range
<1> QED BY <1>1, <1>5 DEF a

LEMMA RangeOfJoin ==
  ASSUME NEW S, NEW s \in Seq(S), NEW t \in Seq(S)
  PROVE  s \o t \in Seq(S) /\ Range(s \o t) = Range(s) \cup Range(t)
<1>1. /\ s \o t \in Seq(S) /\ Len(s \o t) = Len(s) + Len(t) /\ Len(s) \in Nat /\ Len(t) \in Nat
      /\ \A i \in 1..Len(s) : (s \o t)[i] = s[i]
      /\ \A i \in 1..Len(t) : (s \o t)[Len(s) + i] = t[i]
      /\ DOMAIN s = 1..Len(s) /\ DOMAIN t = 1..Len(t) /\ DOMAIN (s \o t) = 1..Len(s \o t)
  OBVIOUS
<1> DEFINE a == s \o t
<1> HIDE DEF a
<1>2. \A i \in 1..Len(a) : i \in 1..Len(s) \/ \E j \in 1..Len(t) : i = Len(s) + j
  <2> TAKE i \in 1..Len(a)
  <2>1. i \in Nat /\ i <= Len(s) + Len(t) /\ i >= 1
    BY <1>1 DEF a
  <2>2. CASE i > Len(s)
    <3>1. i - Len(s) \in 1..Len(t) /\ i = Len(s) + (i - Len(s))
      BY <1>1, <2>1, <2>2
    <3> QED BY <3>1
  <2> QED BY <1>1, <2>1, <2>2
<1>3. \A i \in 1..Len(s) : i \in 1..Len(a)
  BY <1>1 DEF a
<1>4. \A i \in 1..Len(t) : Len(s) + i \in 1..Len(a)
  BY <1>1 DEF a
<1>5. \A i \in 1..Len(a) : a[i] \in Range(s) \cup Range(t)
  BY <1>1, <1>2 DEF a, Range
<1>6. \A i \in 1..Len(s) : s[i] \in Range(a)
  BY <1>1, <1>3 DEF a, Range
<1>7. \A i \in 1..Len(t) : t[i] \in Range(a)
  BY <1>1, <1>4 DEF a, Range
<1>8. Range(a) = Range(s) \cup Range(t)
  BY <1>1, <1>5, <1>6, <1>7 DEF a, Range
<1> QED BY <1>1, <1>8 DEF a

LEMMA RangeOfPair ==
  ASSUME NEW S, NEW a \in S, NEW b \in S
  PROVE  <<a, b>> \in Seq(S) /\ Range(<<a, b>>) = {a, b} /\ Range(<<>>) = {} /\ Range(<<a>>) = {a} /\ <<a>> \in Seq(S)
BY DEF Range

LEMMA RangeOfEmpty == Range(<<>>) = {} /\ \A S : <<>> \in Seq(S)
BY DEF Range

LEMMA RangeTyped ==
  ASSUME NEW S, NEW s \in Seq(S)
  PROVE  Range(s) \subseteq S
BY DEF Range

LEMMA SmallHeads ==
  ASSUME NEW a, NEW b, NEW c
  PROVE  /\ Tail(<<a>>) = <<>> /\ Head(<<a>>) = a
         /\ <<a>> # <<>> /\ <<a, b>> # <<>> /\ <<a, b, c>> # <<>>
         /\ Head(<<a, b>>) = a /\ Head(<<a, b, c>>) = a
OBVIOUS

LEMMA SmallAppends ==
  ASSUME NEW a, NEW b
  PROVE  Append(<<>>, a) = <<a>> /\ Append(<<a>>, b) = <<a, b>>
<1>1. Append(<<>>, a) = <<a>>
  OBVIOUS
<1>2. <<a>> \in Seq({a, b}) /\ <<a, b>> \in Seq({a, b}) /\ Append(<<a>>, b) \in Seq({a, b})
  OBVIOUS
<1>3. Len(<<a>>) = 1 /\ <<a>>[1] = a /\ Len(<<a, b>>) = 2 /\ <<a, b>>[1] = a /\ <<a, b>>[2] = b
  OBVIOUS
<1>4. PICK s \in Seq({a, b}) : s = Append(<<a>>, b)
  BY <1>2
<1>5. Len(s) = 2 /\ s[1] = a /\ s[2] = b
  BY <1>2, <1>3, <1>4
<1>6. PICK p \in Seq({a, b}) : p = <<a, b>>
  BY <1>2
<1>7. Len(p) = 2 /\ \A i \in 1..2 : s[i] = p[i]
  BY <1>3, <1>5, <1>6
<1>8. s = p
  BY <1>5, <1>7
<1> QED BY <1>1, <1>4, <1>6, <1>8

LEMMA SmallTails ==
  ASSUME NEW a, NEW b, NEW c
  PROVE  Tail(<<a, b>>) = <<b>> /\ Tail(<<a, b, c>>) = <<b, c>>
OBVIOUS

LEMMA JoinedToNothing ==
  ASSUME NEW a, NEW b
  PROVE  <<>> \o <<a, b>> = <<a, b>>
OBVIOUS

LEMMA JoinedToOne ==
  ASSUME NEW a, NEW b, NEW c
  PROVE  <<a>> \o <<b, c>> = <<a, b, c>>
<1> DEFINE T == {a, b, c}
<1>2. <<a>> \in Seq(T) /\ <<b, c>> \in Seq(T) /\ <<a, b, c>> \in Seq(T)
  OBVIOUS
<1>3. /\ Len(<<a>>) = 1 /\ <<a>>[1] = a /\ Len(<<b, c>>) = 2 /\ <<b, c>>[1] = b /\ <<b, c>>[2] = c
      /\ Len(<<a, b, c>>) = 3 /\ <<a, b, c>>[1] = a /\ <<a, b, c>>[2] = b /\ <<a, b, c>>[3] = c
  OBVIOUS
<1> HIDE DEF T
<1>1. PICK p \in Seq(T), q \in Seq(T), r \in Seq(T) : p = <<a>> /\ q = <<b, c>> /\ r = <<a, b, c>>
  BY <1>2
<1>4. Len(p) = 1 /\ p[1] = a /\ Len(q) = 2 /\ q[1] = b /\ q[2] = c /\ Len(r) = 3 /\ r[1] = a /\ r[2] = b /\ r[3] = c
  BY <1>1, <1>3
<1>5. p \o q \in Seq(T) /\ Len(p \o q) = 3 /\ (p \o q)[1] = a /\ (p \o q)[2] = b /\ (p \o q)[3] = c
  <2>1. /\ p \o q \in Seq(T) /\ Len(p \o q) = Len(p) + Len(q)
        /\ \A i \in 1..Len(p) : (p \o q)[i] = p[i]
        /\ \A i \in 1..Len(q) : (p \o q)[Len(p) + i] = q[i]
    OBVIOUS
  <2>2. 1 \in 1..Len(p) /\ 1 \in 1..Len(q) /\ 2 \in 1..Len(q)
    BY <1>4
  <2>3. (p \o q)[1] = p[1] /\ (p \o q)[Len(p) + 1] = q[1] /\ (p \o q)[Len(p) + 2] = q[2]
    BY <2>1, <2>2
  <2> QED BY <1>4, <2>1, <2>3
<1>6. PICK s \in Seq(T) : s = p \o q
  BY <1>5
<1>7. Len(s) = 3 /\ \A i \in 1..3 : s[i] = r[i]
  BY <1>4, <1>5, <1>6
<1>8. s = r
  BY <1>4, <1>7
<1> QED BY <1>1, <1>6, <1>8

LEMMA NothingJoined ==
  ASSUME NEW a
  PROVE  <<a>> \o <<>> = <<a>>
OBVIOUS

\* The framed command that follows: only a cleanup closes the session.
LEMMA Continues ==
  ASSUME SessionTypeOK, NEW outcome, NEW dead \in BOOLEAN
  PROVE  /\ Continuation(outcome, dead) \in Steps
         /\ step = "cleanup" => Continuation(outcome, dead) = "closed"
         /\ step # "cleanup" => Continuation(outcome, dead) \notin {"cleanup", "closed"}
BY DEF Continuation, SessionTypeOK, Steps, Commands
-----------------------------------------------------------------------------
(***************************************************************************)
(* The invariant holds at the start and each step keeps it.                *)
(***************************************************************************)
LEMMA InitKeeps == Init => SessionInv
<1> SUFFICES ASSUME Init PROVE SessionInv
  OBVIOUS
<1>1. Range(inq) = {} /\ Range(out) = {}
  BY RangeOfPair DEF Init
<1>2. SessionTypeOK
  <2>1. <<>> \in Seq(Lines) /\ <<>> \in Seq(Frames) /\ <<>> \in Seq(Nat)
    OBVIOUS
  <2>2. NoLine \in Lines
    BY DEF NoLine, Lines
  <2>3. reply \in Replies
    BY DEF Init, Replies, Outcomes
  <2>4. mode \in Modes /\ op \in Ops /\ step \in Steps
    BY DEF Init, Ops, Steps
  <2>5. /\ inq \in Seq(Lines) /\ out \in Seq(Frames) /\ commits \in Seq(Nat)
        /\ files \in SUBSET Nat /\ lost \in SUBSET Nat /\ running \in Lines
    BY <2>1, <2>2 DEF Init
  <2>6. /\ poisoned \in BOOLEAN /\ initialized \in BOOLEAN /\ nogit \in BOOLEAN /\ ended \in BOOLEAN
        /\ success \in BOOLEAN /\ sigint \in BOOLEAN /\ repo \in BOOLEAN
    BY DEF Init
  <2>7. /\ stage \in {"send", "wait", "resync"} /\ shell \in {"up", "gone"} /\ tok \in Nat /\ rtok \in Nat
        /\ next \in Nat \ {0} /\ last \in Nat /\ late \in Nat /\ ekf \in Nat /\ ekx \in Nat
    BY DEF Init
  <2> QED BY <2>3, <2>4, <2>5, <2>6, <2>7 DEF SessionTypeOK
<1>3. BeliefsInv
  BY <1>1 DEF Init, BeliefsInv, TokensInv, Known, NoLine, SnapshotsExist
<1>4. LiveInv /\ OwnFrame
  BY DEF Init, LiveInv, AtRest, Tidy, OwnFrame
<1> QED BY <1>2, <1>3, <1>4 DEF SessionInv

\* A public call starts from a session at rest and only says what comes first.
LEMMA CallKeeps ==
  ASSUME SessionInv, step = "idle", op' \in Ops, step' \in Commands \cup {"closed"},
         UNCHANGED <<mode, stage, tok, rtok, next, poisoned, initialized, nogit, last, reply,
                     process, queues, disk>>
  PROVE  SessionInv'
<1> USE DEF process, queues, disk
<1>1. stage = "send" /\ ~Closing
  BY DEF SessionInv, BeliefsInv, TokensInv, SessionTypeOK, Commands, Closing
<1>2. SessionTypeOK'
  BY DEF SessionInv, SessionTypeOK, Steps
<1>3. BeliefsInv'
  BY <1>1 DEF SessionInv, BeliefsInv, TokensInv, Known, Truthful, Done, SnapshotsExist, Closing
<1>4. LiveInv' /\ OwnFrame'
  BY <1>1 DEF SessionInv, LiveInv, OwnFrame, AtRest, Tidy
<1> QED BY <1>2, <1>3, <1>4 DEF SessionInv

LEMMA CallsKeep ==
  ASSUME SessionInv, Call
  PROVE  SessionInv'
<1>1. step = "idle" /\ op' \in Ops /\ step' \in Commands \cup {"closed"}
      /\ UNCHANGED <<mode, stage, tok, rtok, next, poisoned, initialized, nogit, last, reply,
                     process, queues, disk>>
  BY DEF Call, Exec, Checkpoint, Checkpoints, Restore, DropQuietly, DropCleaning, Begin, SnapshotStart,
         Ops, Commands
<1> QED BY <1>1, CallKeeps

\* Send: the token is new to every queue, and the line is the only one under way.
LEMMA SendKeeps ==
  ASSUME SessionInv, Send
  PROVE  SessionInv'
<1> USE DEF process, queues, disk
<1>0. SessionTypeOK /\ BeliefsInv /\ LiveInv /\ OwnFrame
  BY DEF SessionInv
<1>a. step \in Commands /\ step' = step /\ next \in Nat \ {0} /\ inq \in Seq(Lines) /\ RunLine(step, next) \in Lines
  BY <1>0 DEF SessionTypeOK, Send, Lines, RunLine
<1>1. inq' \in Seq(Lines) /\ Range(inq') \subseteq Range(inq) \cup {RunLine(step, next)}
  BY <1>a, RangeOfAppend DEF Send
<1>2. SessionTypeOK'
  BY <1>0, <1>1 DEF SessionTypeOK, Send
<1>3. BeliefsInv'
  <2>0. running \in Lines /\ Range(inq) \subseteq Lines /\ Range(out) \subseteq Frames
    BY <1>0, RangeTyped DEF SessionTypeOK
  <2>1. \A line \in {running} \cup Range(inq) : line.tok < next /\ (line.cmd = "cleanup" => Closing) /\ line.tok \in Nat
    BY <1>0, <2>0 DEF BeliefsInv, Known, Lines
  <2>2. Closing' = Closing /\ next' = next + 1 /\ tok' = next /\ running' = running /\ stage' = "wait"
    BY DEF Send, Closing
  <2>3. \A line \in {running} \cup Range(inq) : Known(line)'
    BY <2>1, <2>2, <1>a DEF Known
  <2>4. \A line \in {RunLine(step, next)} : Known(line)'
    <3>1. RunLine(step, next).tok = next /\ RunLine(step, next).cmd = step
      BY DEF RunLine
    <3> QED BY <2>2, <1>a, <3>1 DEF Known, Closing
  <2>5. \A frame \in Range(out) : frame.tok < next /\ frame.tok \in Nat
    BY <1>0, <2>0 DEF BeliefsInv, Truthful, Frames
  <2>6. \A frame \in Range(out) : Truthful(frame)'
    BY <2>2, <2>5, <1>a DEF Truthful
  <2>7. TokensInv'
    BY <1>0, <1>a DEF BeliefsInv, TokensInv, Send, SessionTypeOK, Commands
  <2>8. (ended /\ success => Done(running.cmd, running.tok))' /\ SnapshotsExist' /\ (running = NoLine => ~ended)'
    BY <1>0 DEF BeliefsInv, Done, Closing, SnapshotsExist, Send
  <2>9. \A line \in {running'} \cup Range(inq') : Known(line)'
    BY <1>1, <2>2, <2>3, <2>4
  <2>10. \A frame \in Range(out') : Truthful(frame)'
    BY <2>6 DEF Send
  <2> QED BY <2>7, <2>8, <2>9, <2>10 DEF BeliefsInv
<1>4. LiveInv'
  <2> SUFFICES ASSUME ~poisoned' PROVE LiveInv'
    BY DEF LiveInv
  <2>1. AtRest /\ inq = <<>> /\ out = <<>> /\ ~sigint /\ (shell = "up" => Tidy)
    BY <1>0 DEF Send, LiveInv
  <2>2. AtRest' /\ out' = <<>> /\ ~sigint' /\ (shell = "up" => Tidy') /\ shell' = shell /\ stage' = "wait"
    BY <2>1 DEF Send, AtRest, Tidy
  <2>3. CASE shell = "up"
    <3>1. inq' = <<RunLine(step, next)>> \o <<>>
      BY <2>1, <2>3, SmallAppends, NothingJoined DEF Send
    <3>2. inq' = <<Mine'>> \o Rest'
      BY <3>1 DEF Send, Mine, Rest
    <3>3. Unread'
      BY <3>2, <2>2, <2>3 DEF Unread
    <3> QED BY <3>3, <2>2, <2>3 DEF LiveInv
  <2>4. CASE shell # "up"
    <3>1. inq' = <<>> /\ out' \in MyOut'
      BY <2>1, <2>2, <2>4 DEF Send, MyOut
    <3> QED BY <3>1, <2>2, <2>4 DEF LiveInv
  <2> QED BY <2>3, <2>4
<1>5. OwnFrame'
  BY <1>0 DEF Send, OwnFrame
<1> QED BY <1>2, <1>3, <1>4, <1>5 DEF SessionInv

\* The end of a framed command: what it leaves of the types and the beliefs.
LEMMA EndKeeps ==
  ASSUME SessionTypeOK, BeliefsInv, step \in Commands,
         NEW outcome \in Outcomes, NEW frame \in Nat, NEW stderr \in Nat, NEW dead \in BOOLEAN,
         End(outcome, frame, stderr, dead), outcome = "ok" => Done(step, tok),
         out' \in Seq(Frames), Range(out') \subseteq Range(out),
         UNCHANGED <<tok, next, process, inq, sigint, disk>>
  PROVE  SessionTypeOK' /\ BeliefsInv'
<1> USE DEF process, disk
<1>1. step' = Continuation(outcome, dead) /\ step' \in Steps /\ (Closing' <=> Closing) /\ stage' = "send" /\ tok' = tok
      /\ next' = next /\ rtok' = rtok
  <2>1. step' = Continuation(outcome, dead) /\ stage' = "send" /\ rtok' = rtok
    BY DEF End
  <2>2. /\ step' \in Steps
        /\ step = "cleanup" => step' = "closed"
        /\ step # "cleanup" => step' \notin {"cleanup", "closed"}
    BY <2>1, Continues
  <2>3. step # "closed"
    BY DEF Commands
  <2> QED BY <2>1, <2>2, <2>3 DEF Closing
<1>2. SessionTypeOK'
  <2>1. reply' \in Replies
    BY DEF End, Replies, SessionTypeOK
  <2>2. op' \in Ops
    BY DEF End, SessionTypeOK, Ops
  <2>3. last' \in Nat /\ poisoned' \in BOOLEAN /\ initialized' \in BOOLEAN /\ nogit' \in BOOLEAN
    BY DEF End, SessionTypeOK
  <2>4. mode' = mode
    BY DEF End
  <2> QED BY <1>1, <2>1, <2>2, <2>3, <2>4 DEF SessionTypeOK
<1>3. TokensInv'
  BY <1>1 DEF BeliefsInv, TokensInv
<1>4. \A line \in {running'} \cup Range(inq') : Known(line)'
  BY <1>1 DEF BeliefsInv, Known
<1>5. \A f \in Range(out') : Truthful(f)'
  BY <1>1 DEF BeliefsInv, Truthful
<1>6. (ended /\ success => Done(running.cmd, running.tok))' /\ (running = NoLine => ~ended)'
  BY <1>1 DEF BeliefsInv, Done
<1>7. SnapshotsExist'
  <2>1. (initialized /\ ~Closing => repo) /\ (last # 0 => last \in Range(commits))
    BY DEF BeliefsInv, SnapshotsExist, Closing
  <2>2. (initialized' /\ ~Closing => repo) /\ (last' # 0 => last' \in Range(commits))
    BY <2>1 DEF End, Done, Closing
  <2> QED BY <1>1, <2>2 DEF SnapshotsExist, Closing
<1> QED BY <1>2, <1>3, <1>4, <1>5, <1>6, <1>7 DEF BeliefsInv

LEMMA SendFailsKeeps ==
  ASSUME SessionInv, SendFails
  PROVE  SessionInv'
<1>1. SessionTypeOK /\ BeliefsInv /\ LiveInv /\ OwnFrame /\ step \in Commands /\ "error" \in Outcomes
  BY DEF SessionInv, SendFails, Outcomes
<1>2. out' = out /\ out \in Seq(Frames) /\ End("error", 0, 0, FALSE) /\ UNCHANGED <<tok, next, process, inq, sigint, disk>>
  BY <1>1 DEF SendFails, queues, SessionTypeOK
<1>3. SessionTypeOK' /\ BeliefsInv'
  BY <1>1, <1>2, EndKeeps
<1>4. poisoned' = poisoned /\ stage' = stage /\ shell' = "gone" /\ reply'.outcome = "error"
  BY <1>1 DEF SendFails, End, SessionTypeOK, process
<1>5. LiveInv' /\ OwnFrame'
  BY <1>1, <1>2, <1>4 DEF SendFails, LiveInv, OwnFrame, AtRest, process
<1> QED BY <1>3, <1>5 DEF SessionInv

\* Heads of the frames a live session can receive.
LEMMA MyOutHead ==
  ASSUME out \in MyOut, out # <<>>
  PROVE  Head(out) \in MyFrames /\ Tail(out) = <<>>
<1>1. PICK f \in MyFrames : out = <<f>>
  BY DEF MyOut
<1> QED BY <1>1, SmallHeads

LEMMA EndOutHead ==
  ASSUME out \in EndOut
  PROVE  \/ Head(out) \in EndFrames /\ Tail(out) = <<>>
         \/ Head(out) \in MyFrames /\ Tail(out) \in EndOut
<1>1. CASE \E g \in EndFrames : out = <<g>>
  BY <1>1, SmallHeads
<1>2. CASE \E f \in MyFrames, g \in EndFrames : out = <<f, g>>
  <2>1. PICK f \in MyFrames, g \in EndFrames : out = <<f, g>>
    BY <1>2
  <2>2. Head(out) = f /\ Tail(out) = <<g>>
    BY <2>1, SmallHeads, SmallTails
  <2> QED BY <2>2 DEF EndOut
<1> QED BY <1>1, <1>2 DEF EndOut

\* Receive: a live session finds its own frame or nothing; another one skips frames.
LEMMA ReceiveKeeps ==
  ASSUME SessionInv, Receive
  PROVE  SessionInv'
<1>0. SessionTypeOK /\ BeliefsInv /\ LiveInv /\ OwnFrame /\ stage = "wait" /\ out # <<>> /\ out' = Tail(out)
  BY DEF SessionInv, Receive
<1>1. step \in Commands /\ tok \in Nat
  BY <1>0 DEF BeliefsInv, TokensInv, SessionTypeOK
<1>2. out' \in Seq(Frames) /\ Range(out') \subseteq Range(out) /\ Head(out) \in Range(out) /\ Head(out) \in Frames
  BY <1>0, RangeOfTail DEF SessionTypeOK
<1>3. UNCHANGED <<process, inq, sigint, disk>>
  BY DEF Receive
<1>4. CASE Head(out).tok = tok
  <2> DEFINE outcome == IF Head(out).ok THEN "ok" ELSE "fail"
  <2>1. End(outcome, tok, Head(out).late, FALSE) /\ UNCHANGED <<tok, next>>
    BY <1>4 DEF Receive
  <2>2. Head(out).late \in Nat /\ Head(out).ok \in BOOLEAN /\ outcome \in {"ok", "fail"} /\ outcome \in Outcomes
    BY <1>2 DEF Frames, Outcomes
  <2>3. outcome = "ok" => Done(step, tok)
    BY <1>0, <1>2, <1>4 DEF BeliefsInv, Truthful
  <2> HIDE DEF outcome
  <2>4. SessionTypeOK' /\ BeliefsInv'
    BY <1>0, <1>1, <1>2, <1>3, <2>1, <2>2, <2>3, EndKeeps
  <2>5. reply'.outcome = outcome /\ reply'.frame = tok /\ reply'.mine = tok /\ stage' = "send" /\ poisoned' = poisoned
    BY <1>0, <2>1 DEF End, SessionTypeOK
  <2>6. OwnFrame'
    BY <2>2, <2>5 DEF OwnFrame
  <2>7. LiveInv'
    <3> SUFFICES ASSUME ~poisoned PROVE LiveInv'
      BY <2>5 DEF LiveInv
    <3>1. CASE shell = "up"
      <4>1. Over /\ stage = "wait" /\ ~sigint
        BY <1>0, <3>1 DEF LiveInv, Unread, Runs, Over
      <4>2. Tail(out) = <<>>
        BY <1>0, <4>1, MyOutHead DEF Over
      <4> QED BY <1>0, <1>3, <2>5, <4>1, <4>2 DEF LiveInv, Over, Rest, AtRest, Tidy, process, disk
    <3>2. CASE shell # "up"
      <4>1. shell = "gone" /\ AtRest /\ inq = <<>> /\ ~sigint /\ out \in MyOut
        BY <1>0, <3>2 DEF LiveInv, SessionTypeOK
      <4>2. Tail(out) = <<>>
        BY <1>0, <4>1, MyOutHead
      <4> QED BY <1>0, <1>3, <2>5, <4>1, <4>2 DEF LiveInv, AtRest, process, disk
    <3> QED BY <3>1, <3>2
  <2> QED BY <2>4, <2>6, <2>7 DEF SessionInv
<1>5. CASE Head(out).tok # tok
  <2>1. UNCHANGED library
    BY <1>5 DEF Receive
  <2>2. SessionTypeOK'
    BY <1>0, <1>2, <1>3, <2>1 DEF SessionTypeOK, library, process, disk
  <2>3. BeliefsInv'
    BY <1>0, <1>2, <1>3, <2>1 DEF BeliefsInv, TokensInv, Known, Truthful, Done, Closing, SnapshotsExist, library, process, disk
  <2>4. OwnFrame'
    BY <1>0, <2>1 DEF OwnFrame, library
  <2>5. LiveInv'
    <3>1. out \notin MyOut
      BY <1>0, <1>5, MyOutHead DEF MyFrames
    <3>2. ~(~poisoned)
      BY <1>0, <3>1 DEF LiveInv, SessionTypeOK, Unread, Runs, Over
    <3> QED BY <3>2, <2>1 DEF LiveInv, library
  <2> QED BY <2>2, <2>3, <2>4, <2>5 DEF SessionInv
<1> QED BY <1>4, <1>5

LEMMA EofKeeps ==
  ASSUME SessionInv, Eof
  PROVE  SessionInv'
<1>1. SessionTypeOK /\ BeliefsInv /\ stage = "wait" /\ "exited" \in Outcomes
  BY DEF SessionInv, Eof, Outcomes
<1>2. out' = out /\ out \in Seq(Frames) /\ End("exited", 0, 0, TRUE) /\ UNCHANGED <<tok, next, process, inq, sigint, disk>>
  BY <1>1 DEF Eof, queues, SessionTypeOK
<1>3. step \in Commands
  BY <1>1 DEF BeliefsInv, TokensInv
<1>4. SessionTypeOK' /\ BeliefsInv'
  BY <1>1, <1>2, <1>3, EndKeeps
<1>5. poisoned' /\ reply'.outcome = "exited"
  BY <1>2 DEF End
<1> QED BY <1>4, <1>5 DEF SessionInv, LiveInv, OwnFrame

LEMMA ResyncFailsKeeps ==
  ASSUME SessionInv, ResyncFails
  PROVE  SessionInv'
<1>1. SessionTypeOK /\ BeliefsInv /\ stage = "resync" /\ "stuck" \in Outcomes
  BY DEF SessionInv, ResyncFails, Outcomes
<1>2. out' = out /\ out \in Seq(Frames) /\ End("stuck", 0, 0, TRUE) /\ UNCHANGED <<tok, next, process, inq, sigint, disk>>
  BY <1>1 DEF ResyncFails, queues, SessionTypeOK
<1>3. step \in Commands
  BY <1>1 DEF BeliefsInv, TokensInv
<1>4. SessionTypeOK' /\ BeliefsInv'
  BY <1>1, <1>2, <1>3, EndKeeps
<1>5. poisoned' /\ reply'.outcome = "stuck"
  BY <1>2 DEF End
<1> QED BY <1>4, <1>5 DEF SessionInv, LiveInv, OwnFrame

\* Deadline: two lines behind whatever is left of the command.
LEMMA DeadlineKeeps ==
  ASSUME SessionInv, Deadline
  PROVE  SessionInv'
<1>0. /\ SessionTypeOK /\ BeliefsInv /\ LiveInv /\ OwnFrame
      /\ stage = "wait" /\ step \in Commands /\ 0 < tok /\ tok < next /\ tok \in Nat /\ next \in Nat
  BY DEF SessionInv, Deadline, BeliefsInv, TokensInv, SessionTypeOK
<1>1. /\ stage' = "resync" /\ tok' = tok /\ rtok' = next /\ next' = next + 1
      /\ UNCHANGED <<mode, op, step, poisoned, initialized, nogit, last, reply, process, out, disk>>
  BY DEF Deadline
<1> DEFINE rest == <<Save, RunLine("resync", next)>>
<1>2. /\ Save \in Lines /\ RunLine("resync", next) \in Lines /\ Save.tok = 0 /\ Save.cmd = "save"
      /\ RunLine("resync", next).tok = next /\ RunLine("resync", next).cmd = "resync"
  BY <1>0 DEF Lines, Save, RunLine
<1>3. rest \in Seq(Lines) /\ Range(rest) = {Save, RunLine("resync", next)}
  BY <1>2, RangeOfPair
<1>4. rest = Rest' /\ Rest = <<>> /\ Mine' = Mine /\ MyOut' = MyOut
  BY <1>0, <1>1 DEF Rest, Resync, Mine, MyOut, MyFrames
<1>5. \/ shell = "up" /\ sigint' = TRUE /\ \E kept \in {inq, <<>>} : inq' = kept \o rest
      \/ shell = "gone" /\ UNCHANGED <<inq, sigint>>
  BY <1>0 DEF Deadline, SessionTypeOK
<1> HIDE DEF rest
<1>6. inq' \in Seq(Lines) /\ Range(inq') \subseteq Range(inq) \cup {Save, RunLine("resync", next)} /\ sigint' \in BOOLEAN
  <2>1. CASE shell = "gone" /\ UNCHANGED <<inq, sigint>>
    BY <1>0, <2>1 DEF SessionTypeOK
  <2>2. CASE shell = "up" /\ sigint' = TRUE /\ \E kept \in {inq, <<>>} : inq' = kept \o rest
    <3>1. PICK kept \in {inq, <<>>} : inq' = kept \o rest
      BY <2>2
    <3>2. kept \in Seq(Lines) /\ Range(kept) \subseteq Range(inq)
      <4>1. Range(<<>>) = {} /\ <<>> \in Seq(Lines)
        BY RangeOfEmpty
      <4> QED BY <1>0, <4>1 DEF SessionTypeOK
    <3> QED BY <1>3, <2>2, <3>1, <3>2, RangeOfJoin
  <2> QED BY <1>5, <2>1, <2>2
<1>7. SessionTypeOK'
  BY <1>0, <1>1, <1>6 DEF SessionTypeOK, process, disk
<1>8. BeliefsInv'
  <2>1. running \in Lines /\ Range(inq) \subseteq Lines /\ Range(out) \subseteq Frames
    BY <1>0, RangeTyped DEF SessionTypeOK
  <2>2. \A line \in {running} \cup Range(inq) : line.tok < next /\ line.tok \in Nat /\ (line.cmd = "cleanup" => Closing)
    BY <1>0, <2>1 DEF BeliefsInv, Known, Lines
  <2>3. \A line \in {running} \cup Range(inq) \cup {Save, RunLine("resync", next)} : Known(line)'
    BY <1>0, <1>1, <1>2, <2>2 DEF Known, Closing
  <2>4. \A line \in {running'} \cup Range(inq') : Known(line)'
    BY <1>1, <1>6, <2>3 DEF process
  <2>5. \A frame \in Range(out) : frame.tok < next /\ frame.tok \in Nat
    BY <1>0, <2>1 DEF BeliefsInv, Truthful, Frames
  <2>6. \A frame \in Range(out') : Truthful(frame)'
    BY <1>0, <1>1, <2>5 DEF Truthful
  <2>7. TokensInv'
    BY <1>0, <1>1 DEF BeliefsInv, TokensInv
  <2>8. (ended /\ success => Done(running.cmd, running.tok))' /\ SnapshotsExist' /\ (running = NoLine => ~ended)'
    BY <1>0, <1>1 DEF BeliefsInv, Done, Closing, SnapshotsExist, process, disk
  <2> QED BY <2>4, <2>6, <2>7, <2>8 DEF BeliefsInv
<1>9. OwnFrame'
  BY <1>0, <1>1 DEF OwnFrame
<1>10. LiveInv'
  <2> SUFFICES ASSUME ~poisoned PROVE LiveInv'
    BY <1>1 DEF LiveInv
  <2>1. CASE shell = "gone"
    BY <1>0, <1>1, <1>4, <1>5, <2>1 DEF LiveInv, AtRest, process
  <2>2. CASE shell = "up"
    <3>1. PICK kept \in {inq, <<>>} : inq' = kept \o rest
      BY <1>5, <2>2
    <3>2. <<>> \o rest = rest /\ <<Mine>> \o <<>> = <<Mine>>
      BY JoinedToNothing, NothingJoined DEF rest
    <3>3. CASE Unread
      <4>1. inq = <<Mine>>
        BY <1>4, <3>2, <3>3 DEF Unread
      <4>2. Unread' \/ Over'
        BY <1>1, <1>4, <3>1, <3>2, <3>3, <4>1 DEF Unread, Over, AtRest, Tidy, MyOut, process, disk
      <4> QED BY <1>1, <2>2, <4>2 DEF LiveInv, process
    <3>4. CASE Runs
      <4>1. Runs'
        BY <1>1, <1>4, <3>1, <3>2, <3>4 DEF Runs, process, disk
      <4> QED BY <1>1, <2>2, <4>1 DEF LiveInv, process
    <3>5. CASE Over
      <4>1. Over'
        BY <1>1, <1>4, <3>1, <3>2, <3>5 DEF Over, AtRest, Tidy, process, disk
      <4> QED BY <1>1, <2>2, <4>1 DEF LiveInv, process
    <3> QED BY <1>0, <2>2, <3>3, <3>4, <3>5 DEF LiveInv
  <2> QED BY <1>0, <2>1, <2>2 DEF SessionTypeOK
<1> QED BY <1>7, <1>8, <1>9, <1>10 DEF SessionInv

\* The frame of the resync is the last thing the shell has to say.
LEMMA ResyncReceiveKeeps ==
  ASSUME SessionInv, ResyncReceive
  PROVE  SessionInv'
<1>0. /\ SessionTypeOK /\ BeliefsInv /\ LiveInv /\ OwnFrame /\ stage = "resync" /\ out # <<>> /\ out' = Tail(out)
      /\ step \in Commands /\ tok \in Nat /\ rtok \in Nat /\ tok < rtok
  BY DEF SessionInv, ResyncReceive, BeliefsInv, TokensInv, SessionTypeOK
<1>2. out' \in Seq(Frames) /\ Range(out') \subseteq Range(out) /\ Head(out) \in Frames
  BY <1>0, RangeOfTail DEF SessionTypeOK
<1>3. UNCHANGED <<process, inq, sigint, disk>>
  BY DEF ResyncReceive
<1>4. CASE Head(out).tok = rtok
  <2>1. End("timeout", rtok, Head(out).late, FALSE) /\ UNCHANGED <<tok, next>>
    BY <1>4 DEF ResyncReceive
  <2>2. Head(out).late \in Nat /\ "timeout" \in Outcomes
    BY <1>2 DEF Frames, Outcomes
  <2>3. SessionTypeOK' /\ BeliefsInv'
    BY <1>0, <1>2, <1>3, <2>1, <2>2, EndKeeps
  <2>4. /\ reply'.outcome = "timeout" /\ reply'.late = Head(out).late /\ reply'.mine = tok
        /\ stage' = "send" /\ poisoned' = poisoned
    BY <1>0, <2>1 DEF End, SessionTypeOK
  <2>5. ASSUME ~poisoned PROVE /\ AtRest /\ inq = <<>> /\ ~sigint /\ (shell = "up" => Tidy)
                               /\ Head(out) \in EndFrames /\ Tail(out) = <<>>
    <3>1. out \notin MyOut
      BY <1>0, <1>4, MyOutHead DEF MyFrames
    <3>2. out \in EndOut /\ AtRest /\ inq = <<>> /\ ~sigint /\ (shell = "up" => Tidy)
      BY <1>0, <2>5, <3>1 DEF LiveInv, SessionTypeOK, Unread, Runs, Over, Abandoned, Saved, Cleans, Cleaned, Answered
    <3>3. Head(out) \notin MyFrames
      BY <1>0, <1>4 DEF MyFrames
    <3> QED BY <3>2, <3>3, EndOutHead
  <2>6. OwnFrame'
    BY <2>4, <2>5 DEF OwnFrame, EndFrames
  <2>7. LiveInv'
    BY <1>0, <1>3, <2>4, <2>5 DEF LiveInv, AtRest, Tidy, process, disk
  <2> QED BY <2>3, <2>6, <2>7 DEF SessionInv
<1>5. CASE Head(out).tok # rtok
  <2>1. UNCHANGED library
    BY <1>5 DEF ResyncReceive
  <2>2. SessionTypeOK'
    BY <1>0, <1>2, <1>3, <2>1 DEF SessionTypeOK, library, process, disk
  <2>3. BeliefsInv'
    BY <1>0, <1>2, <1>3, <2>1 DEF BeliefsInv, TokensInv, Known, Truthful, Done, Closing, SnapshotsExist, library, process, disk
  <2>4. OwnFrame'
    BY <1>0, <2>1 DEF OwnFrame, library
  <2>5. LiveInv'
    <3> SUFFICES ASSUME ~poisoned PROVE LiveInv'
      BY <2>1 DEF LiveInv, library
    <3>1. (out \in MyOut => out' \in MyOut) /\ (out \in MyOut \cup EndOut => out' \in MyOut \cup EndOut)
      <4>1. out \in MyOut => Tail(out) \in MyOut
        BY <1>0, MyOutHead DEF MyOut
      <4>2. out \in EndOut => Tail(out) \in EndOut
        BY <1>5, EndOutHead DEF EndFrames
      <4> QED BY <1>0, <4>1, <4>2
    <3>2. MyOut' = MyOut /\ EndOut' = EndOut /\ Rest' = Rest /\ Mine' = Mine /\ Resync' = Resync /\ AtRest' = AtRest /\ Tidy' = Tidy
      BY <1>3, <2>1 DEF MyOut, EndOut, MyFrames, EndFrames, Rest, Mine, Resync, AtRest, Tidy, library, process, disk
    <3>3. CASE shell = "gone"
      BY <1>0, <1>3, <2>1, <3>1, <3>2, <3>3 DEF LiveInv, library, process
    <3>4. CASE shell = "up"
      <4>1. ~Unread /\ ~Runs /\ ~Abandoned
        BY <1>0 DEF Unread, Runs, Abandoned
      <4>2. Over \/ (~sigint /\ (Saved \/ Cleans \/ Cleaned \/ Answered))
        BY <1>0, <3>4, <4>1 DEF LiveInv
      <4>3. Over => Over'
        BY <1>3, <3>1, <3>2 DEF Over
      <4>4. Saved => Saved'
        BY <1>3, <2>1, <3>1, <3>2 DEF Saved, library, process, disk
      <4>5. Cleans => Cleans'
        BY <1>3, <2>1, <3>1, <3>2 DEF Cleans, library, process, disk
      <4>6. Cleaned => Cleaned'
        BY <1>3, <2>1, <3>1, <3>2 DEF Cleaned, library, process, disk
      <4>7. Answered => Answered'
        BY <1>3, <3>1, <3>2 DEF Answered
      <4>8. Over' \/ (~sigint' /\ (Saved' \/ Cleans' \/ Cleaned' \/ Answered'))
        BY <1>3, <4>2, <4>3, <4>4, <4>5, <4>6, <4>7
      <4> QED BY <1>0, <1>3, <2>1, <3>4, <4>8 DEF LiveInv, library, process
    <3> QED BY <1>0, <3>3, <3>4 DEF SessionTypeOK
  <2> QED BY <2>2, <2>3, <2>4, <2>5 DEF SessionInv
<1> QED BY <1>4, <1>5

\* The shell takes the command, the save line or the cleanup.
LEMMA ShellReadsKeeps ==
  ASSUME SessionInv, ShellReads
  PROVE  SessionInv'
<1>0. /\ SessionTypeOK /\ BeliefsInv /\ LiveInv /\ OwnFrame
      /\ shell = "up" /\ running = NoLine /\ ~sigint /\ inq # <<>> /\ inq' = Tail(inq)
      /\ UNCHANGED <<library, shell, success, ekf, sigint, out, disk>>
  BY DEF SessionInv, ShellReads
<1>1. /\ inq' \in Seq(Lines) /\ Range(inq') \subseteq Range(inq) /\ Head(inq) \in Range(inq) /\ Head(inq) \in Lines
      /\ Head(inq).tok \in Nat
  <2>1. inq \in Seq(Lines)
    BY <1>0 DEF SessionTypeOK
  <2>2. /\ inq' \in Seq(Lines) /\ Range(inq') \subseteq Range(inq) /\ Head(inq) \in Range(inq)
        /\ Head(inq) \in Lines
    BY <1>0, <2>1, RangeOfTail
  <2> QED BY <2>2 DEF Lines
<1>2. \/ /\ Head(inq) = Save /\ ekx' = ekf
         /\ UNCHANGED <<running, ended, late>>
      \/ /\ Head(inq) # Save /\ running' = Head(inq)
         /\ ended' = FALSE /\ late' = 0
         /\ ekx' = ekx
  BY DEF ShellReads
<1>3. SessionTypeOK'
  <2>1. /\ running' \in Lines /\ ended' \in BOOLEAN /\ late' \in Nat /\ ekx' \in Nat
    <3>1. running \in Lines /\ ended \in BOOLEAN /\ late \in Nat /\ ekf \in Nat /\ ekx \in Nat
      BY <1>0 DEF SessionTypeOK
    <3>2. CASE Head(inq) = Save
      BY <1>2, <3>1, <3>2
    <3>3. CASE Head(inq) # Save
      <4>1. running' = Head(inq) /\ ended' = FALSE /\ late' = 0 /\ ekx' = ekx
        BY <1>2, <3>3
      <4>2. ended' \in BOOLEAN
        BY <4>1
      <4> QED BY <1>1, <3>1, <4>1, <4>2
    <3> QED BY <3>2, <3>3
  <2> QED BY <1>0, <1>1, <2>1 DEF SessionTypeOK, library, disk
<1>4. BeliefsInv'
  <2>1. \A line \in {running'} \cup Range(inq') : line \in {running} \cup Range(inq)
    BY <1>1, <1>2
  <2>2. \A line \in {running'} \cup Range(inq') : Known(line)'
    BY <1>0, <2>1 DEF BeliefsInv, Known, Closing, library, disk
  <2>3. (running = NoLine => ~ended)' /\ (ended /\ success => Done(running.cmd, running.tok))'
    BY <1>0, <1>2 DEF BeliefsInv, Done, Closing, library, disk
  <2>4. \A frame \in Range(out') : Truthful(frame)'
    BY <1>0 DEF BeliefsInv, Truthful, Done, Closing, library, disk
  <2>5. TokensInv' /\ SnapshotsExist'
    BY <1>0 DEF BeliefsInv, TokensInv, SnapshotsExist, library, disk
  <2> QED BY <2>2, <2>3, <2>4, <2>5 DEF BeliefsInv
<1>5. OwnFrame'
  BY <1>0 DEF OwnFrame, library
<1>6. LiveInv'
  <2> SUFFICES ASSUME ~poisoned PROVE LiveInv'
    BY <1>0 DEF LiveInv, library
  <2>1. /\ MyOut' = MyOut /\ EndOut' = EndOut /\ Rest' = Rest /\ Mine' = Mine /\ Resync' = Resync
        /\ stage' = stage /\ tok' = tok /\ rtok' = rtok /\ shell' = "up" /\ poisoned' = poisoned
    BY <1>0 DEF MyOut, EndOut, MyFrames, EndFrames, Rest, Mine, Resync, library
  <2>2. stage # "send" /\ 0 < tok /\ tok \in Nat /\ (stage = "resync" => tok < rtok) /\ rtok \in Nat
    BY <1>0 DEF LiveInv, BeliefsInv, TokensInv, SessionTypeOK
  <2>3. Mine # Save /\ Mine # NoLine /\ Mine.tok = tok
        /\ (stage = "resync" => Resync # Save /\ Resync # NoLine /\ Resync.tok = rtok)
    BY <2>2 DEF Mine, Save, NoLine, Resync, RunLine
  <2>4. /\ <<Mine>> \o <<>> = <<Mine>> /\ Head(<<Mine>>) = Mine /\ Tail(<<Mine>>) = <<>>
        /\ <<Mine>> \o <<Save, Resync>> = <<Mine, Save, Resync>>
        /\ Head(<<Mine, Save, Resync>>) = Mine /\ Tail(<<Mine, Save, Resync>>) = <<Save, Resync>>
        /\ Head(<<Save, Resync>>) = Save /\ Tail(<<Save, Resync>>) = <<Resync>>
        /\ Head(<<Resync>>) = Resync /\ Tail(<<Resync>>) = <<>>
    BY SmallHeads, SmallTails, JoinedToOne, NothingJoined
  <2>5. CASE Unread
    <3>1. Head(inq) = Mine /\ inq' = Rest
      BY <1>0, <2>4, <2>5 DEF Unread, Rest
    <3>2. Runs'
      BY <1>0, <1>2, <2>1, <2>3, <2>5, <3>1 DEF Unread, Runs, Tidy, disk
    <3> QED BY <1>0, <2>1, <2>2, <3>2 DEF LiveInv
  <2>6. CASE Over
    <3>1. stage = "resync" /\ inq = <<Save, Resync>>
      BY <1>0, <2>2, <2>6 DEF Over, Rest
    <3>2. Head(inq) = Save /\ inq' = <<Resync>>
      BY <1>0, <2>4, <3>1
    <3>3. ekx' = ekf /\ UNCHANGED <<running, ended, ekf, files, lost, out>>
      BY <1>0, <1>2, <3>2 DEF disk
    <3>4. Saved'
      BY <2>1, <2>6, <3>2, <3>3 DEF Over, Saved, Tidy, Named, AtRest
    <3> QED BY <1>0, <2>1, <3>1, <3>4 DEF LiveInv
  <2>7. CASE stage = "resync" /\ Abandoned
    <3>1. Head(inq) = Save /\ inq' = <<Resync>>
      BY <1>0, <2>4, <2>7 DEF Abandoned, Rest
    <3>2. out' \in MyOut'
      BY <1>0, <2>7 DEF Abandoned, MyOut
    <3>3. ekx' = ekf /\ UNCHANGED <<running, ended, ekf, files, lost>>
      BY <1>0, <1>2, <3>1 DEF disk
    <3>4. Saved'
      BY <2>1, <2>2, <2>7, <3>1, <3>2, <3>3 DEF Abandoned, Saved, AtRest
    <3> QED BY <1>0, <2>1, <2>7, <3>4 DEF LiveInv
  <2>8. CASE stage = "resync" /\ Saved
    <3>1. Head(inq) = Resync /\ inq' = <<>>
      BY <1>0, <2>4, <2>8 DEF Saved
    <3>2. Cleans'
      BY <1>0, <1>2, <2>1, <2>2, <2>3, <2>8, <3>1 DEF Saved, Cleans, Named, AtRest, disk
    <3> QED BY <1>0, <2>1, <2>8, <3>2 DEF LiveInv
  <2>9. ~Runs /\ ~Answered
    BY <1>0, <2>3 DEF Runs, Answered
  <2>10. stage = "resync" => ~Cleans /\ ~Cleaned
    BY <1>0, <2>3 DEF Cleans, Cleaned
  <2> QED BY <1>0, <2>2, <2>5, <2>6, <2>7, <2>8, <2>9, <2>10 DEF LiveInv, SessionTypeOK
<1> QED BY <1>3, <1>4, <1>5, <1>6 DEF SessionInv

\* Until the line has its file's name, nothing but the file and the name come about.
LEMMA ShellPreparesKeeps ==
  ASSUME SessionInv, ShellMakesFile \/ ShellNamesFile
  PROVE  SessionInv'
<1>0. /\ SessionTypeOK /\ BeliefsInv /\ LiveInv /\ OwnFrame
      /\ shell = "up" /\ running # NoLine
      /\ ekf' \in {ekf, running.tok} /\ files' \in {files, files \cup {running.tok}}
      /\ UNCHANGED <<library, shell, running, ended, success, late, ekx, queues, lost, repo, commits>>
  BY DEF SessionInv, ShellMakesFile, ShellNamesFile, process
<1>1. running.tok \in Nat /\ ekf \in Nat /\ files \in SUBSET Nat
  BY <1>0 DEF SessionTypeOK, Lines
<1>2. SessionTypeOK'
  <2>1. ekf' \in Nat /\ files' \in SUBSET Nat
    BY <1>0, <1>1
  <2> QED BY <1>0, <2>1 DEF SessionTypeOK, library, queues
<1>3. BeliefsInv'
  BY <1>0 DEF BeliefsInv, TokensInv, Known, Truthful, Done, Closing, SnapshotsExist, library, queues
<1>4. OwnFrame'
  BY <1>0 DEF OwnFrame, library
<1>5. LiveInv'
  <2> SUFFICES ASSUME ~poisoned PROVE LiveInv'
    BY <1>0 DEF LiveInv, library
  <2>1. /\ MyOut' = MyOut /\ EndOut' = EndOut /\ Rest' = Rest /\ Mine' = Mine /\ Resync' = Resync
        /\ stage' = stage /\ tok' = tok /\ rtok' = rtok /\ shell' = "up" /\ poisoned' = poisoned
        /\ inq' = inq /\ out' = out /\ sigint' = sigint /\ running' = running /\ ended' = ended
        /\ late' = late /\ ekx' = ekx /\ lost' = lost
    BY <1>0 DEF MyOut, EndOut, MyFrames, EndFrames, Rest, Mine, Resync, library, queues
  <2>2. stage # "send"
    BY <1>0 DEF LiveInv, AtRest
  <2>3. CASE Runs
    <3>1. running.tok = tok
      BY <2>3 DEF Runs, Mine, RunLine
    <3>2. Runs'
      BY <1>0, <2>1, <2>3, <3>1 DEF Runs
    <3> QED BY <1>0, <2>1, <2>2, <3>2 DEF LiveInv
  <2>4. CASE stage = "resync" /\ ~sigint /\ Cleans
    <3>1. running.tok = rtok
      BY <2>4 DEF Cleans, Resync, RunLine
    <3>2. Cleans'
      BY <1>0, <2>1, <2>4, <3>1 DEF Cleans, Named
    <3> QED BY <1>0, <2>1, <2>4, <3>2 DEF LiveInv
  <2>5. CASE stage = "resync" /\ ~sigint /\ Cleaned
    <3>1. running.tok = rtok
      BY <2>5 DEF Cleaned, Resync, RunLine
    <3>2. Cleaned'
      BY <1>0, <2>1, <2>5, <3>1 DEF Cleaned
    <3> QED BY <1>0, <2>1, <2>5, <3>2 DEF LiveInv
  <2>6. ~Unread /\ ~Over /\ ~Abandoned /\ ~Saved /\ ~Answered
    BY <1>0 DEF Unread, Over, Abandoned, Saved, Answered, AtRest
  <2> QED BY <1>0, <2>2, <2>3, <2>4, <2>5, <2>6 DEF LiveInv, SessionTypeOK
<1> QED BY <1>2, <1>3, <1>4, <1>5 DEF SessionInv

\* What a command did stays done, unless it is the cleanup of a Drop.
LEMMA ShellExecutesKeeps ==
  ASSUME SessionInv, ShellExecutes
  PROVE  SessionInv'
<1>0. /\ SessionTypeOK /\ BeliefsInv /\ LiveInv /\ OwnFrame
      /\ shell = "up" /\ running # NoLine /\ ekf = running.tok /\ ~ended /\ ended' = TRUE
      /\ UNCHANGED <<library, shell, running, ekf, queues, lost>>
  BY DEF SessionInv, ShellExecutes
<1>1. PICK ok \in BOOLEAN :
        /\ success' = ok
        /\ repo' = IF ok THEN (running.cmd = "init" \/ (repo /\ running.cmd # "cleanup")) ELSE repo
        /\ commits' = IF ok /\ running.cmd = "snapshot" THEN Append(commits, running.tok) ELSE commits
        /\ IF running.cmd = "resync"
             THEN late' = (IF ekx \in files THEN ekx ELSE 0) /\ files' = (files \cup {ekf}) \ {ekx} /\ ekx' = 0
             ELSE files' = files \cup {ekf} /\ UNCHANGED <<late, ekx>>
  BY DEF ShellExecutes
<1>2. /\ commits' \in Seq(Nat) /\ Range(commits) \subseteq Range(commits')
      /\ ok /\ running.cmd = "snapshot" => running.tok \in Range(commits')
  <2>1. running.tok \in Nat /\ commits \in Seq(Nat)
    BY <1>0 DEF SessionTypeOK, Lines
  <2>2. Append(commits, running.tok) \in Seq(Nat) /\ Range(Append(commits, running.tok)) = Range(commits) \cup {running.tok}
    BY <2>1, RangeOfAppend
  <2> QED BY <1>1, <2>1, <2>2
<1>3. repo' \in BOOLEAN /\ (repo /\ ~Closing => repo') /\ (ok /\ running.cmd = "init" => repo')
  BY <1>0, <1>1 DEF SessionTypeOK, BeliefsInv, Known
<1>4. SessionTypeOK'
  <2>1. ended' \in BOOLEAN /\ success' \in BOOLEAN /\ late' \in Nat /\ ekx' \in Nat /\ files' \in SUBSET Nat
    <3>1. late \in Nat /\ ekx \in Nat /\ ekf \in Nat /\ files \in SUBSET Nat
      BY <1>0 DEF SessionTypeOK
    <3>2. ended' \in BOOLEAN /\ success' \in BOOLEAN
      BY <1>0, <1>1
    <3>3. CASE running.cmd = "resync"
      <4>1. late' = (IF ekx \in files THEN ekx ELSE 0) /\ files' = (files \cup {ekf}) \ {ekx} /\ ekx' = 0
        BY <1>1, <3>3
      <4>2. files' \in SUBSET Nat
        BY <3>1, <4>1
      <4>3. late' \in Nat /\ ekx' \in Nat
        BY <3>1, <4>1
      <4> QED BY <3>2, <4>2, <4>3
    <3>4. CASE running.cmd # "resync"
      <4>1. files' = files \cup {ekf} /\ late' = late /\ ekx' = ekx
        BY <1>1, <3>4
      <4>2. files' \in SUBSET Nat
        BY <3>1, <4>1
      <4> QED BY <3>1, <3>2, <4>1, <4>2
    <3> QED BY <3>3, <3>4
  <2> QED BY <1>0, <1>2, <1>3, <2>1 DEF SessionTypeOK, library, queues
<1>5. BeliefsInv'
  <2>1. Closing' = Closing /\ stage' = stage /\ step' = step /\ tok' = tok /\ next' = next
        /\ Range(inq') = Range(inq) /\ Range(out') = Range(out) /\ running' = running
    BY <1>0 DEF Closing, library, queues
  <2>2. \A line \in {running'} \cup Range(inq') : Known(line)'
    BY <1>0, <2>1 DEF BeliefsInv, Known
  <2>3. \A c, t : Done(c, t) => Done(c, t)'
    BY <1>2, <1>3, <2>1 DEF Done
  <2>4. \A frame \in Range(out') : Truthful(frame)'
    BY <1>0, <1>2, <1>3, <2>1 DEF BeliefsInv, Truthful, Done
  <2>5. (running = NoLine => ~ended)' /\ (ended /\ success => Done(running.cmd, running.tok))'
    BY <1>0, <1>1, <1>2, <1>3, <2>1 DEF Done
  <2>6. TokensInv'
    BY <1>0 DEF BeliefsInv, TokensInv, library
  <2>7. SnapshotsExist'
    BY <1>0, <1>2, <1>3 DEF BeliefsInv, SnapshotsExist, Closing, library
  <2> QED BY <2>2, <2>4, <2>5, <2>6, <2>7 DEF BeliefsInv
<1>6. OwnFrame'
  BY <1>0 DEF OwnFrame, library
<1>7. LiveInv'
  <2> SUFFICES ASSUME ~poisoned PROVE LiveInv'
    BY <1>0 DEF LiveInv, library
  <2>1. /\ MyOut' = MyOut /\ EndOut' = EndOut /\ Rest' = Rest /\ Mine' = Mine /\ Resync' = Resync
        /\ stage' = stage /\ tok' = tok /\ rtok' = rtok /\ shell' = "up" /\ poisoned' = poisoned
        /\ inq' = inq /\ out' = out /\ sigint' = sigint /\ running' = running /\ ekf' = ekf
    BY <1>0 DEF MyOut, EndOut, MyFrames, EndFrames, Rest, Mine, Resync, library, queues
  <2>2. stage # "send" /\ step \in Commands
    BY <1>0 DEF LiveInv, AtRest, BeliefsInv, TokensInv
  <2>3. CASE Runs
    <3>1. running.cmd # "resync"
      BY <2>2, <2>3 DEF Runs, Mine, RunLine, Commands
    <3>2. Runs'
      <4>1. running.tok = tok
        BY <2>3 DEF Runs, Mine, RunLine
      <4> QED BY <1>0, <1>1, <2>1, <2>3, <3>1, <4>1 DEF Runs
    <3> QED BY <1>0, <2>1, <2>2, <3>2 DEF LiveInv
  <2>4. CASE stage = "resync" /\ ~sigint /\ Cleans
    <3>1. running.cmd = "resync"
      BY <2>4 DEF Cleans, Resync, RunLine
    <3>2. ekf = rtok /\ lost' = lost
      BY <1>0, <2>4 DEF Cleans, Resync, RunLine
    <3>3. late' \in {0, tok} /\ ekx' = 0
      BY <1>1, <2>4, <3>1 DEF Cleans
    <3>4. files' = (files \cup {rtok}) \ {ekx}
      BY <1>1, <3>1, <3>2
    <3>5. files' \subseteq lost' \cup {rtok'}
      BY <2>1, <2>4, <3>2, <3>4 DEF Cleans, Named
    <3>6. Cleaned'
      BY <1>0, <2>1, <2>4, <3>2, <3>3, <3>5 DEF Cleans, Cleaned
    <3> QED BY <1>0, <2>1, <2>4, <3>6 DEF LiveInv
  <2>5. ~Unread /\ ~Over /\ ~Abandoned /\ ~Saved /\ ~Cleaned /\ ~Answered
    BY <1>0 DEF Unread, Over, Abandoned, Saved, Cleaned, Answered, AtRest
  <2> QED BY <1>0, <2>2, <2>3, <2>4, <2>5 DEF LiveInv, SessionTypeOK
<1> QED BY <1>4, <1>5, <1>6, <1>7 DEF SessionInv

\* The trailer vouches for the command whose line was run.
LEMMA ShellPrintsKeeps ==
  ASSUME SessionInv, ShellPrints
  PROVE  SessionInv'
<1> DEFINE frame == [tok |-> running.tok, ok |-> success, late |-> late]
<1>0. /\ SessionTypeOK /\ BeliefsInv /\ LiveInv /\ OwnFrame
      /\ shell = "up" /\ ended /\ running' = NoLine /\ ended' = FALSE
      /\ files' = files \ {ekf} /\ ekf' = 0 /\ out' = Append(out, frame)
      /\ UNCHANGED <<library, shell, success, late, ekx, inq, sigint, lost, repo, commits>>
  BY DEF SessionInv, ShellPrints
<1>1. frame \in Frames /\ frame.tok = running.tok /\ frame.ok = success /\ frame.late = late
  BY <1>0 DEF SessionTypeOK, Lines, Frames
<1> HIDE DEF frame
<1>2. out' \in Seq(Frames) /\ Range(out') = Range(out) \cup {frame}
  <2>1. out \in Seq(Frames)
    BY <1>0 DEF SessionTypeOK
  <2> QED BY <1>0, <1>1, <2>1, RangeOfAppend
<1>3. SessionTypeOK'
  <2>1. NoLine \in Lines /\ ended' \in BOOLEAN /\ ekf' \in Nat /\ files' \in SUBSET Nat
    BY <1>0 DEF SessionTypeOK, NoLine, Lines
  <2> QED BY <1>0, <1>2, <2>1 DEF SessionTypeOK, library
<1>4. BeliefsInv'
  <2>1. Closing' = Closing /\ stage' = stage /\ step' = step /\ tok' = tok /\ next' = next /\ inq' = inq
    BY <1>0 DEF Closing, library
  <2>2. next \in Nat \ {0}
    BY <1>0 DEF SessionTypeOK
  <2>3. \A line \in {running'} \cup Range(inq') : Known(line)'
    <3>1. \A line \in Range(inq') : Known(line)'
      BY <1>0, <2>1 DEF BeliefsInv, Known
    <3>2. NoLine.tok = 0 /\ NoLine.cmd = "none"
      BY DEF NoLine
    <3>3. stage = "wait" => tok > 0
      BY <1>0 DEF BeliefsInv, TokensInv
    <3>4. tok \in Nat
      BY <1>0 DEF SessionTypeOK
    <3>5. \A line \in {NoLine} : Known(line)'
      BY <2>1, <2>2, <3>2, <3>3, <3>4 DEF Known
    <3> QED BY <1>0, <3>1, <3>5
  <2>4. \A f \in Range(out) : Truthful(f)'
    BY <1>0, <2>1 DEF BeliefsInv, Truthful, Done
  <2>5. Known(running) /\ (success => Done(running.cmd, running.tok))
    BY <1>0 DEF BeliefsInv
  <2>6. \A f \in {frame} : Truthful(f)'
    BY <1>0, <1>1, <2>1, <2>5 DEF Truthful, Known, Done
  <2>7. TokensInv' /\ SnapshotsExist'
    BY <1>0 DEF BeliefsInv, TokensInv, SnapshotsExist, library
  <2> QED BY <1>0, <1>2, <2>3, <2>4, <2>6, <2>7 DEF BeliefsInv
<1>5. OwnFrame'
  BY <1>0 DEF OwnFrame, library
<1>6. LiveInv'
  <2> SUFFICES ASSUME ~poisoned PROVE LiveInv'
    BY <1>0 DEF LiveInv, library
  <2>1. /\ MyOut' = MyOut /\ EndOut' = EndOut /\ Rest' = Rest
        /\ stage' = stage /\ shell' = "up" /\ poisoned' = poisoned /\ sigint' = sigint /\ inq' = inq /\ ekx' = ekx
    BY <1>0 DEF MyOut, EndOut, MyFrames, EndFrames, Rest, Resync, library
  <2>2. stage # "send"
    BY <1>0 DEF LiveInv, AtRest
  <2>3. AtRest' /\ ekf' = 0 /\ files' = files \ {ekf} /\ lost' = lost
    BY <1>0 DEF AtRest
  <2>4. CASE Runs
    <3>1. frame \in MyFrames
      BY <1>0, <1>1, <2>4 DEF Runs, Mine, RunLine, MyFrames, Frames
    <3>2. out' = <<frame>>
      BY <1>0, <2>4, SmallAppends DEF Runs
    <3>3. Tidy'
      BY <1>0, <2>1, <2>3, <2>4 DEF Runs, Tidy
    <3>4. Over'
      BY <2>1, <2>3, <2>4, <3>1, <3>2, <3>3 DEF Runs, Over, MyOut
    <3> QED BY <1>0, <2>1, <2>2, <3>4 DEF LiveInv
  <2>5. CASE stage = "resync" /\ ~sigint /\ Cleaned
    <3>1. frame \in EndFrames
      BY <1>0, <1>1, <2>5 DEF Cleaned, Resync, RunLine, EndFrames, Frames
    <3>2. out' \in EndOut
      <4>1. CASE out = <<>>
        BY <1>0, <3>1, <4>1, SmallAppends DEF EndOut
      <4>2. CASE out # <<>>
        <5>1. PICK f \in MyFrames : out = <<f>>
          BY <2>5, <4>2 DEF Cleaned, MyOut
        <5>2. out' = <<f, frame>>
          BY <1>0, <5>1, SmallAppends
        <5> QED BY <3>1, <5>1, <5>2 DEF EndOut
      <4> QED BY <4>1, <4>2
    <3>3. Answered'
      BY <2>1, <2>3, <2>5, <3>2 DEF Cleaned, Answered, Tidy
    <3> QED BY <1>0, <2>1, <2>5, <3>3 DEF LiveInv
  <2>6. ~Unread /\ ~Over /\ ~Abandoned /\ ~Saved /\ ~Cleans /\ ~Answered
    BY <1>0 DEF Unread, Over, Abandoned, Saved, Cleans, Answered, AtRest
  <2> QED BY <1>0, <2>2, <2>4, <2>5, <2>6 DEF LiveInv, SessionTypeOK
<1> QED BY <1>3, <1>4, <1>5, <1>6 DEF SessionInv

\* The shell loses its command, its input or both; the disk may lose a file.
LEMMA ShellStopsKeeps ==
  ASSUME SessionInv, ShellInterrupted \/ ShellExits
  PROVE  SessionTypeOK' /\ BeliefsInv' /\ OwnFrame'
<1>0. /\ SessionTypeOK /\ BeliefsInv /\ OwnFrame
      /\ UNCHANGED <<library, success, late, ekf, ekx, out, repo, commits>>
  BY DEF SessionInv, ShellInterrupted, ShellExits, disk
<1>1. \/ running' = running /\ ended' = ended
      \/ running' = NoLine /\ ended' = FALSE
  BY DEF ShellInterrupted, ShellExits
<1>2. inq' = inq \/ inq' = <<>>
  BY DEF ShellInterrupted, ShellExits
<1>3. files' \in SUBSET Nat /\ lost' \in SUBSET Nat /\ sigint' \in BOOLEAN /\ shell' \in {"up", "gone"}
  <2>1. files \in SUBSET Nat /\ lost \in SUBSET Nat /\ shell \in {"up", "gone"}
    BY <1>0 DEF SessionTypeOK
  <2>2. files' \subseteq files /\ lost' \subseteq lost \cup files
    BY DEF ShellInterrupted, ShellExits, disk
  <2> QED BY <2>1, <2>2 DEF ShellInterrupted, ShellExits
<1>4. SessionTypeOK'
  <2>1. NoLine \in Lines /\ <<>> \in Seq(Lines)
    BY RangeOfEmpty DEF NoLine, Lines
  <2>2. running' \in Lines /\ ended' \in BOOLEAN /\ inq' \in Seq(Lines)
    BY <1>0, <1>1, <1>2, <2>1 DEF SessionTypeOK
  <2> QED BY <1>0, <1>3, <2>2 DEF SessionTypeOK, library
<1>5. BeliefsInv'
  <2>1. Closing' = Closing /\ stage' = stage /\ step' = step /\ tok' = tok /\ next' = next
    BY <1>0 DEF Closing, library
  <2>2. next \in Nat \ {0} /\ tok \in Nat /\ (stage = "wait" => tok > 0)
    BY <1>0 DEF SessionTypeOK, BeliefsInv, TokensInv
  <2>3. NoLine.tok = 0 /\ NoLine.cmd = "none"
    BY DEF NoLine
  <2>4. \A line \in {NoLine} : Known(line)'
    BY <2>1, <2>2, <2>3 DEF Known
  <2>5. \A line \in {running} \cup Range(inq) : Known(line)'
    BY <1>0, <2>1 DEF BeliefsInv, Known
  <2>6. Range(inq') \subseteq Range(inq)
    BY <1>2, RangeOfEmpty
  <2>7. \A line \in {running'} \cup Range(inq') : Known(line)'
    BY <1>1, <2>4, <2>5, <2>6
  <2>8. \A frame \in Range(out') : Truthful(frame)'
    BY <1>0, <2>1 DEF BeliefsInv, Truthful, Done
  <2>9. (running = NoLine => ~ended)' /\ (ended /\ success => Done(running.cmd, running.tok))'
    BY <1>0, <1>1, <2>1 DEF BeliefsInv, Done
  <2>10. TokensInv' /\ SnapshotsExist'
    BY <1>0 DEF BeliefsInv, TokensInv, SnapshotsExist, library
  <2> QED BY <2>7, <2>8, <2>9, <2>10 DEF BeliefsInv
<1>6. OwnFrame'
  BY <1>0 DEF OwnFrame, library
<1> QED BY <1>4, <1>5, <1>6

\* Ctrl-C finds nothing of the resync begun: the shell did not read past it.
LEMMA ShellInterruptedKeeps ==
  ASSUME SessionInv, ShellInterrupted
  PROVE  SessionInv'
<1>0. SessionTypeOK /\ LiveInv /\ UNCHANGED <<library, shell, success, late, ekf, ekx, inq, out, repo, commits>>
      /\ shell = "up" /\ sigint /\ ~sigint'
  BY DEF SessionInv, ShellInterrupted
<1>1. LiveInv'
  <2> SUFFICES ASSUME ~poisoned PROVE LiveInv'
    BY <1>0 DEF LiveInv, library
  <2>1. stage = "resync" /\ (Unread \/ Runs \/ Over)
    BY <1>0 DEF LiveInv, SessionTypeOK
  <2>2. /\ MyOut' = MyOut /\ Rest' = Rest /\ Mine' = Mine
        /\ stage' = stage /\ tok' = tok /\ shell' = "up" /\ poisoned' = poisoned
    BY <1>0 DEF MyOut, MyFrames, Rest, Mine, Resync, library
  <2>3. CASE UNCHANGED <<running, ended, files, lost>>
    <3>1. Unread' \/ Runs' \/ Over'
      BY <1>0, <2>1, <2>2, <2>3 DEF Unread, Runs, Over, AtRest, Tidy
    <3> QED BY <2>1, <2>2, <3>1 DEF LiveInv
  <2>4. CASE /\ running # NoLine /\ running' = NoLine /\ ended' = FALSE
             /\ files' \in {files} \cup (IF ended THEN {files \ {ekf}} ELSE {})
             /\ lost' = IF ekf # running.tok THEN lost \cup ({running.tok} \cap files) ELSE lost
    <3>1. Runs
      BY <2>1, <2>4 DEF Unread, Over, AtRest
    <3>2. files' \subseteq files
      BY <2>4
    <3>3. running.tok = tok /\ tok > 0 /\ tok \in Nat
      BY <2>1, <3>1 DEF Runs, Mine, RunLine, SessionInv, SessionTypeOK, BeliefsInv, TokensInv
    <3>4. files' \subseteq lost' \cup Named(ekf')
      BY <1>0, <2>4, <3>1, <3>2, <3>3 DEF Runs, Named
    <3>5. Abandoned'
      BY <1>0, <2>2, <2>4, <3>1, <3>4 DEF Runs, Abandoned, AtRest
    <3> QED BY <1>0, <2>1, <2>2, <3>5 DEF LiveInv
  <2> QED BY <2>3, <2>4 DEF ShellInterrupted
<1> QED BY <1>1, ShellStopsKeeps DEF SessionInv

LEMMA ShellExitsKeeps ==
  ASSUME SessionInv, ShellExits
  PROVE  SessionInv'
<1>0. /\ SessionTypeOK /\ LiveInv /\ shell = "up" /\ shell' = "gone" /\ AtRest' /\ inq' = <<>> /\ ~sigint'
      /\ UNCHANGED <<library, out>>
  BY DEF SessionInv, ShellExits, AtRest
<1>1. LiveInv'
  <2>1. MyOut' = MyOut /\ EndOut' = EndOut /\ stage' = stage /\ poisoned' = poisoned
    BY <1>0 DEF MyOut, MyFrames, EndOut, EndFrames, library
  <2>2. <<>> \in MyOut
    BY DEF MyOut
  <2>3. ~poisoned /\ stage = "wait" => out \in MyOut
    BY <1>0, <2>2 DEF LiveInv, Unread, Runs, Over
  <2>4. ~poisoned /\ stage = "resync" => out \in MyOut \cup EndOut
    BY <1>0, <2>2 DEF LiveInv, Unread, Runs, Over, Abandoned, Saved, Cleans, Cleaned, Answered
  <2>5. ~poisoned /\ stage = "send" => out = <<>>
    BY <1>0 DEF LiveInv
  <2> QED BY <1>0, <2>1, <2>3, <2>4, <2>5 DEF LiveInv
<1> QED BY <1>1, ShellStopsKeeps DEF SessionInv

-----------------------------------------------------------------------------
\* Every step of Next keeps the invariant.
LEMMA StepKeeps ==
  ASSUME SessionInv, [Next]_vars
  PROVE  SessionInv'
<1>1. CASE Call
  BY <1>1, CallsKeep
<1>2. CASE Library
  BY <1>2, SendKeeps, SendFailsKeeps, ReceiveKeeps, EofKeeps, DeadlineKeeps, ResyncReceiveKeeps,
     ResyncFailsKeeps DEF Library
<1>3. CASE Shell
  BY <1>3, ShellReadsKeeps, ShellPreparesKeeps, ShellExecutesKeeps, ShellPrintsKeeps, ShellInterruptedKeeps,
     ShellExitsKeeps DEF Shell
<1>4. CASE UNCHANGED vars
  <2> USE <1>4 DEF vars, library, process, queues, disk
  <2>1. SessionTypeOK'
    BY DEF SessionInv, SessionTypeOK
  <2>2. BeliefsInv'
    BY DEF SessionInv, BeliefsInv, TokensInv, Known, Truthful, Done, Closing, SnapshotsExist
  <2>3. OwnFrame'
    BY DEF SessionInv, OwnFrame
  <2>4. /\ AtRest' = AtRest /\ Tidy' = Tidy /\ MyOut' = MyOut /\ EndOut' = EndOut
        /\ Mine' = Mine /\ Rest' = Rest /\ Resync' = Resync
    BY DEF AtRest, Tidy, MyOut, EndOut, MyFrames, EndFrames, Mine, Rest, Resync
  <2>5. /\ Unread' = Unread /\ Runs' = Runs /\ Over' = Over /\ Abandoned' = Abandoned
        /\ Saved' = Saved /\ Cleans' = Cleans /\ Cleaned' = Cleaned /\ Answered' = Answered
    BY <2>4 DEF Unread, Runs, Over, Abandoned, Saved, Cleans, Cleaned, Answered, Named
  <2>6. LiveInv'
    BY <2>4, <2>5 DEF SessionInv, LiveInv
  <2> QED BY <2>1, <2>2, <2>3, <2>6 DEF SessionInv
<1> QED BY <1>1, <1>2, <1>3, <1>4 DEF Next

\* The strengthening of the four invariants below is an invariant of the session.
THEOREM SessionInvariant == Spec => []SessionInv
BY InitKeeps, StepKeeps, PTL DEF Spec

\* run_framed_for, interrupt and resync: when the next command of a live session may
\* be sent, nothing of the previous one is left in the shell or in either queue.
THEOREM StaysInSync == Spec => []InSync
<1>1. SessionInv => InSync
  BY DEF SessionInv, LiveInv, InSync, AtRest
<1> QED BY <1>1, SessionInvariant, PTL

\* A result is read from the frame of its own token, and the stderr that comes with a
\* timeout is that of the command that timed out.
THEOREM AnswersAreOwn == Spec => []OwnFrame
<1>1. SessionInv => OwnFrame
  BY DEF SessionInv
<1> QED BY <1>1, SessionInvariant, PTL

\* The trailer, the save line and the cleanup together remove every stderr file whose
\* name the shell had been given before its line was interrupted.
THEOREM LeavesNoFiles == Spec => []NoStrayFiles
<1>1. SessionInv => NoStrayFiles
  BY DEF SessionInv, LiveInv, NoStrayFiles, Tidy
<1> QED BY <1>1, SessionInvariant, PTL

\* ensure_init and the snapshot: `initialized` stands for a repository and `last` for a
\* commit, in poisoned sessions too, whatever late frames and leftovers they meet.
THEOREM BelievesWhatExists == Spec => []SnapshotsExist
<1>1. SessionInv => SnapshotsExist
  BY DEF SessionInv, BeliefsInv
<1> QED BY <1>1, SessionInvariant, PTL
-----------------------------------------------------------------------------
(***************************************************************************)
(* The refinement of CommandChannel.                                       *)
(***************************************************************************)
\* Where the command in flight is, in a live session.
LEMMA WorkPlaces ==
  ASSUME SessionInv, ~poisoned, shell = "up", stage # "send"
  PROVE  /\ Mine \notin {Save, NoLine} /\ (stage = "resync" => Mine # Resync)
         /\ Mine \in Range(inq) => AtRest /\ Head(inq) = Mine /\ Mine \notin Range(Tail(inq))
         /\ out # <<>> => Work = "over"
<1>0. SessionTypeOK /\ BeliefsInv /\ LiveInv /\ tok \in Nat /\ rtok \in Nat /\ 0 < tok
      /\ (stage = "resync" => tok < rtok)
  BY DEF SessionInv, BeliefsInv, TokensInv, SessionTypeOK
<1>1. Mine \notin {Save, NoLine} /\ (stage = "resync" => Mine # Resync)
  BY <1>0 DEF Mine, Save, NoLine, Resync, RunLine
<1>2. /\ Range(<<>>) = {} /\ Range(<<Resync>>) = {Resync} /\ Range(<<Save, Resync>>) = {Save, Resync}
  BY RangeOfPair
<1>3. Mine \notin Range(Rest)
  BY <1>1, <1>2 DEF Rest
<1>4. CASE Unread
  <2>1. Head(inq) = Mine /\ Tail(inq) = Rest /\ AtRest /\ out = <<>>
    <3>1. CASE stage = "resync"
      <4>1. inq = <<Mine, Save, Resync>> /\ Rest = <<Save, Resync>>
        BY <1>4, <3>1, JoinedToOne DEF Unread, Rest
      <4>2. Head(inq) = Mine /\ Tail(inq) = Rest
        BY <4>1, SmallHeads, SmallTails
      <4> QED BY <1>4, <4>2 DEF Unread
    <3>2. CASE stage # "resync"
      BY <1>4, <3>2, SmallHeads, NothingJoined DEF Unread, Rest
    <3> QED BY <3>1, <3>2
  <2> QED BY <1>1, <1>3, <2>1
<1>5. CASE Runs
  BY <1>1, <1>3, <1>5 DEF Runs
<1>6. CASE Over
  BY <1>1, <1>3, <1>6 DEF Over, AtRest, Work, Mine
<1>7. CASE stage = "resync" /\ (Abandoned \/ Saved \/ Cleans \/ Cleaned \/ Answered)
  BY <1>1, <1>2, <1>3, <1>7 DEF Abandoned, Saved, Cleans, Cleaned, Answered, AtRest, Work, Mine
<1> QED BY <1>0, <1>4, <1>5, <1>6, <1>7 DEF LiveInv, SessionTypeOK

\* A step of the library's thread in a session that stays usable.
LEMMA LibraryRefines ==
  ASSUME SessionInv, ~poisoned, shell = "up", ~poisoned', shell' = "up", Call \/ Library
  PROVE  [Channel!Submit \/ Channel!Finish \/ Channel!Answer]_<<IF stage = "send" THEN "idle" ELSE "open",
                                   IF stage = "send" THEN "over" ELSE Work>>
<1>1. CASE Call
  <2>1. stage = "send" /\ stage' = "send"
    BY <1>1 DEF Call, Exec, Checkpoint, Checkpoints, Restore, DropQuietly, DropCleaning, Begin,
                SessionInv, BeliefsInv, TokensInv, SessionTypeOK, Commands
  <2> QED BY <2>1
<1>2. CASE Send
  <2>1. inq \in Seq(Lines) /\ RunLine(step, next) \in Lines
    BY <1>2 DEF SessionInv, SessionTypeOK, Send, Lines, RunLine
  <2>2. RunLine(step, next) \in Range(Append(inq, RunLine(step, next)))
    BY <2>1, RangeOfAppend
  <2>3. stage = "send" /\ stage' = "wait" /\ RunLine(step', tok') \in Range(inq')
    BY <1>2, <2>2 DEF Send, RunLine
  <2>4. Work' = "queued"
    BY <2>3 DEF Work
  <2> QED BY <2>3, <2>4 DEF Channel!Submit
<1>3. CASE Receive
  <2>1. stage = "wait" /\ out # <<>> /\ Work = "over"
    BY <1>3, WorkPlaces DEF Receive
  <2>2. CASE Head(out).tok = tok
    <3>1. stage' = "send"
      BY <1>3, <2>2 DEF Receive, End
    <3> QED BY <2>1, <3>1 DEF Channel!Answer
  <2>3. CASE Head(out).tok # tok
    <3>1. UNCHANGED <<library, process, inq>>
      BY <1>3, <2>3 DEF Receive
    <3> QED BY <3>1 DEF library, process, Work
  <2> QED BY <2>2, <2>3
<1>4. CASE ResyncReceive
  <2>1. stage = "resync" /\ out # <<>> /\ Work = "over"
    BY <1>4, WorkPlaces DEF ResyncReceive
  <2>2. CASE Head(out).tok = rtok
    <3>1. stage' = "send"
      BY <1>4, <2>2 DEF ResyncReceive, End
    <3> QED BY <2>1, <3>1 DEF Channel!Answer
  <2>3. CASE Head(out).tok # rtok
    <3>1. UNCHANGED <<library, process, inq>>
      BY <1>4, <2>3 DEF ResyncReceive
    <3> QED BY <3>1 DEF library, process, Work
  <2> QED BY <2>2, <2>3
<1>5. CASE Deadline
  <2>1. /\ stage = "wait" /\ stage' = "resync" /\ step' = step /\ tok' = tok /\ running' = running /\ ended' = ended
        /\ tok < next /\ tok \in Nat /\ next \in Nat
    BY <1>5 DEF Deadline, process, SessionInv, BeliefsInv, TokensInv, SessionTypeOK
  <2>2. PICK kept \in {inq, <<>>} : inq' = kept \o <<Save, RunLine("resync", next)>>
    BY <1>5 DEF Deadline
  <2>3. kept \in Seq(Lines) /\ Save \in Lines /\ RunLine("resync", next) \in Lines
    BY <2>1, RangeOfEmpty DEF SessionInv, SessionTypeOK, Lines, Save, RunLine
  <2>4. Range(inq') = Range(kept) \cup {Save, RunLine("resync", next)}
    <3>1. PICK a \in Lines, b \in Lines : a = Save /\ b = RunLine("resync", next)
      BY <2>3
    <3>2. <<a, b>> \in Seq(Lines) /\ Range(<<a, b>>) = {a, b}
      BY RangeOfPair
    <3>3. PICK rest \in Seq(Lines) : rest = <<a, b>>
      BY <3>2
    <3>4. Range(kept \o rest) = Range(kept) \cup Range(rest)
      BY <2>3, RangeOfJoin
    <3> QED BY <2>2, <3>1, <3>2, <3>3, <3>4
  <2>5. Mine \notin {Save, RunLine("resync", next)} /\ Mine' = Mine
    BY <2>1, WorkPlaces DEF Mine, RunLine
  <2>6. (Mine \in Range(inq') => Mine \in Range(inq)) /\ (kept = inq => (Mine \in Range(inq) => Mine \in Range(inq')))
    BY <2>2, <2>4, <2>5, RangeOfEmpty
  <2>7. Mine \in Range(inq) => running # Mine
    BY <2>1, WorkPlaces DEF AtRest
  <2>8. Work' = Work \/ (Work = "queued" /\ Work' = "over")
    BY <2>1, <2>5, <2>6, <2>7 DEF Work, Mine
  <2> QED BY <2>1, <2>8 DEF Channel!Finish
<1>6. ~SendFails /\ ~Eof /\ ~ResyncFails
  BY DEF SendFails, Eof, ResyncFails, End, process
<1> QED BY <1>1, <1>2, <1>3, <1>4, <1>5, <1>6 DEF Library

LEMMA ShellRefines ==
  ASSUME SessionInv, ~poisoned, shell = "up", shell' = "up", Shell
  PROVE  [Channel!Start \/ Channel!Finish]_<<IF stage = "send" THEN "idle" ELSE "open",
                                   IF stage = "send" THEN "over" ELSE Work>>
<1>1. stage' = stage /\ Mine' = Mine /\ poisoned' = poisoned
  BY DEF Shell, ShellReads, ShellMakesFile, ShellNamesFile, ShellExecutes, ShellPrints, ShellInterrupted,
          ShellExits, library, Mine
<1>2. CASE stage = "send"
  BY <1>1, <1>2
<1>3. CASE stage # "send"
  <2> USE <1>1, <1>3
  <2>1. CASE ShellReads
    <3>1. inq \in Seq(Lines) /\ inq # <<>> /\ inq' = Tail(inq) /\ running = NoLine
      BY <2>1 DEF SessionInv, SessionTypeOK, ShellReads
    <3>2. Head(inq) \in Range(inq) /\ Range(Tail(inq)) \subseteq Range(inq)
      BY <3>1, RangeOfTail
    <3>3. CASE Mine \in Range(inq)
      <4>1. Head(inq) = Mine /\ Mine \notin Range(inq') /\ Mine # Save
        BY <3>1, <3>3, WorkPlaces
      <4>2. running' = Mine /\ ended' = FALSE
        BY <2>1, <4>1 DEF ShellReads
      <4>3. Work = "queued" /\ Work' = "started"
        BY <3>3, <4>1, <4>2 DEF Work, Mine
      <4> QED BY <4>3 DEF Channel!Start
    <3>4. CASE Mine \notin Range(inq)
      <4>1. Mine \notin Range(inq') /\ Mine # NoLine
        BY <3>1, <3>2, <3>4, WorkPlaces
      <4>2. running' # Mine
        BY <2>1, <3>1, <3>2, <3>4, <4>1 DEF ShellReads
      <4>3. Work = "over" /\ Work' = "over"
        BY <3>1, <3>4, <4>1, <4>2 DEF Work, Mine
      <4> QED BY <4>3
    <3> QED BY <3>3, <3>4
  <2>2. CASE ShellExecutes
    <3>1. ended' /\ inq' = inq /\ running' = running /\ ~ended
      BY <2>2 DEF ShellExecutes, queues
    <3>2. Work' = Work \/ (Work = "started" /\ Work' = "over")
      BY <3>1 DEF Work, Mine
    <3> QED BY <3>2 DEF Channel!Finish
  <2>3. CASE ShellPrints
    <3>1. ended /\ running' = NoLine /\ inq' = inq /\ Mine # NoLine
      BY <2>3, WorkPlaces DEF ShellPrints
    <3> QED BY <3>1 DEF Work, Mine
  <2>4. CASE ShellInterrupted
    <3>1. inq' = inq /\ Mine # NoLine
      BY <2>4, WorkPlaces DEF ShellInterrupted
    <3>2. (running' = running /\ ended' = ended) \/ running' = NoLine
      BY <2>4 DEF ShellInterrupted
    <3>3. Work' = Work \/ (Work = "started" /\ Work' = "over")
      BY <3>1, <3>2 DEF Work, Mine
    <3> QED BY <3>3 DEF Channel!Finish
  <2>5. CASE ShellMakesFile \/ ShellNamesFile
    <3>1. inq' = inq /\ running' = running /\ ended' = ended
      BY <2>5 DEF ShellMakesFile, ShellNamesFile, process, queues
    <3>2. Work' = Work
      BY <3>1 DEF Work, Mine
    <3> QED BY <3>2
  <2>6. ~ShellExits
    BY DEF ShellExits
  <2> QED BY <2>1, <2>2, <2>3, <2>4, <2>5, <2>6 DEF Shell
<1> QED BY <1>2, <1>3

\* The session implements the abstract channel: a command starts at most once and only
\* while its call is open, and the call returns only when the command is over.
THEOREM SessionImplementsChannel == Spec => ImplementsChannel
<1>1. Init => Channel!Init
  BY DEF Init, Channel!Init
<1>2. ASSUME SessionInv, [Next]_vars
      PROVE  [Channel!Next]_(Channel!vars)
  <2>1. poisoned \in BOOLEAN /\ shell \in {"up", "gone"}
    BY <1>2 DEF SessionInv, SessionTypeOK
  <2>2. CASE poisoned \/ shell = "gone"
    <3>1. poisoned => poisoned'
      BY <1>2
      DEF Next, Call, Library, Shell, vars, library, Exec, Checkpoint, Checkpoints, Restore, DropQuietly,
          DropCleaning, Begin, Send, SendFails, Receive, Eof, Deadline, ResyncReceive, ResyncFails, End,
          ShellReads, ShellMakesFile, ShellNamesFile, ShellExecutes, ShellPrints, ShellInterrupted,
          ShellExits
    <3>2. shell = "gone" => shell' = "gone"
      BY <1>2
      DEF Next, Call, Library, Shell, vars, process, Exec, Checkpoint, Checkpoints, Restore, DropQuietly,
          DropCleaning, Begin, Send, SendFails, Receive, Eof, Deadline, ResyncReceive, ResyncFails, End,
          ShellReads, ShellMakesFile, ShellNamesFile, ShellExecutes, ShellPrints, ShellInterrupted,
          ShellExits
    <3> QED BY <2>1, <2>2, <3>1, <3>2 DEF Channel!Next
  <2>3. CASE ~poisoned /\ shell = "up" /\ ~(~poisoned' /\ shell' = "up")
    BY <2>3 DEF Channel!Next, Channel!Break
  <2>4. CASE ~poisoned /\ shell = "up" /\ ~poisoned' /\ shell' = "up"
    <3>1. CASE Call \/ Library
      BY <2>4, <3>1, <1>2, LibraryRefines DEF Channel!Next, Channel!vars
    <3>2. CASE Shell
      BY <2>4, <3>2, <1>2, ShellRefines DEF Channel!Next, Channel!vars
    <3>3. CASE UNCHANGED vars
      BY <3>3 DEF vars, library, process, queues, Channel!vars, Work
    <3> QED BY <1>2, <3>1, <3>2, <3>3 DEF Next
  <2> QED BY <2>1, <2>2, <2>3, <2>4
<1> QED BY <1>1, <1>2, SessionInvariant, PTL DEF Spec, ImplementsChannel, Channel!Spec
-----------------------------------------------------------------------------
(***************************************************************************)
(* Every call comes nearer to its end.                                     *)
(***************************************************************************)

\* A framed command is followed by one of its own call, and a call begins with its own.
LEMMA CallInvariant == Spec => []CallInv
<1>1. Init => CallInv
  BY DEF Init, CallInv
<1>2. ASSUME CallInv, [Next]_vars
      PROVE  CallInv'
  <2>1. ASSUME NEW outcome, NEW frame, NEW stderr, NEW dead, End(outcome, frame, stderr, dead)
        PROVE  CallInv'
    <3>1. step' = Continuation(outcome, dead) /\ op' = IF step' = "idle" THEN "none" ELSE op
      BY <2>1 DEF End
    <3>2. CASE step = "diff"
      BY <1>2, <3>1, <3>2 DEF CallInv, Continuation
    <3>3. CASE step # "diff"
      <4>1. step' \in {"init", "snapshot", "closed", "user", "idle"}
        BY <3>1, <3>3 DEF Continuation
      <4> QED BY <4>1 DEF CallInv
    <3> QED BY <3>2, <3>3
  <2>2. CASE Call
    BY <1>2, <2>2
    DEF CallInv, Call, Exec, Checkpoint, Checkpoints, Restore, DropQuietly, DropCleaning, Begin, SnapshotStart
  <2>3. CASE Library
    BY <1>2, <2>1, <2>3
    DEF CallInv, Library, Send, SendFails, Receive, Eof, Deadline, ResyncReceive, ResyncFails, library
  <2>4. CASE Shell \/ UNCHANGED vars
    BY <1>2, <2>4
    DEF CallInv, Shell, vars, library, ShellReads, ShellMakesFile, ShellNamesFile, ShellExecutes, ShellPrints, ShellInterrupted,
          ShellExits
  <2> QED BY <1>2, <2>2, <2>3, <2>4 DEF Next
<1> QED BY <1>1, <1>2, PTL DEF Spec

\* The framed command that follows another one has fewer behind it.
LEMMA EndAdvances ==
  ASSUME CallInv, step \in Commands, stage \in {"send", "wait", "resync"},
         NEW outcome, NEW frame, NEW stderr, NEW dead, End(outcome, frame, stderr, dead)
  PROVE  CallLeft' < CallLeft
<1>1. stage' = "send" /\ step' = Continuation(outcome, dead)
  BY DEF End
<1>2. CommandsLeft[step'] \in 0..(CommandsLeft[step] - 1) /\ CommandsLeft[step] \in 1..4
  <2>1. CommandsLeft["probe"] = 4 /\ CommandsLeft["init"] = 3 /\ CommandsLeft["snapshot"] = 2
        /\ CommandsLeft["user"] = 1 /\ CommandsLeft["list"] = 1 /\ CommandsLeft["diff"] = 2
        /\ CommandsLeft["restore"] = 1 /\ CommandsLeft["cleanup"] = 1
        /\ CommandsLeft["idle"] = 0 /\ CommandsLeft["closed"] = 0
    BY DEF CommandsLeft
  <2>2. CASE step = "probe"
    <3>1. step' \in {"init", "user", "idle"}
      BY <1>1, <2>2 DEF Continuation
    <3> QED BY <2>1, <2>2, <3>1
  <2>3. CASE step = "init"
    <3>1. step' \in {"snapshot", "user", "idle"}
      BY <1>1, <2>3 DEF Continuation
    <3> QED BY <2>1, <2>3, <3>1
  <2>4. CASE step = "snapshot"
    <3>1. step' \in {"user", "idle"}
      BY <1>1, <2>4 DEF Continuation
    <3> QED BY <2>1, <2>4, <3>1
  <2>5. CASE step = "diff"
    <3>1. step' = "restore"
      BY <1>1, <2>5 DEF Continuation
    <3> QED BY <2>1, <2>5, <3>1
  <2>6. CASE step = "cleanup"
    <3>1. step' = "closed"
      BY <1>1, <2>6 DEF Continuation
    <3> QED BY <2>1, <2>6, <3>1
  <2>7. CASE step = "user"
    <3>1. step' = "idle"
      BY <1>1, <2>7 DEF Continuation
    <3> QED BY <2>1, <2>7, <3>1
  <2>8. CASE step = "list"
    <3>1. step' = "idle"
      BY <1>1, <2>8 DEF Continuation, CallInv
    <3> QED BY <2>1, <2>8, <3>1
  <2>9. CASE step = "restore"
    <3>1. step' = "idle"
      BY <1>1, <2>9 DEF Continuation, CallInv
    <3> QED BY <2>1, <2>9, <3>1
  <2> QED BY <2>2, <2>3, <2>4, <2>5, <2>6, <2>7, <2>8, <2>9 DEF Commands
<1>3. StagesLeft[stage] \in 0..2 /\ StagesLeft[stage'] = 2
  BY <1>1 DEF StagesLeft
<1> QED
  BY <1>2, <1>3 DEF CallLeft

LEMMA StageAdvances ==
  ASSUME step \in Commands, step' = step,
         (stage = "send" /\ stage' = "wait") \/ (stage = "wait" /\ stage' = "resync")
  PROVE  CallLeft' < CallLeft
<1>1. CommandsLeft[step] \in 1..4 /\ CommandsLeft[step'] = CommandsLeft[step]
  BY DEF Commands, CommandsLeft
<1>2. StagesLeft[stage'] < StagesLeft[stage] /\ StagesLeft[stage] \in 0..2 /\ StagesLeft[stage'] \in 0..2
  BY DEF StagesLeft
<1> QED
  BY <1>1, <1>2 DEF CallLeft

\* Whatever the shell prints, ignores or leaves unanswered, each step of a call brings
\* it nearer to its end or passes over an alien frame: no command and no resync is
\* tried twice.
THEOREM CallsAdvance == Spec => CallAdvances
<1>1. SessionInv /\ CallInv /\ [Next]_vars => (step \in Commands => CallLeft' < CallLeft \/ UNCHANGED library)
  <2> SUFFICES ASSUME SessionInv, CallInv, [Next]_vars, step \in Commands
               PROVE  CallLeft' < CallLeft \/ UNCHANGED library
    OBVIOUS
  <2>1. stage \in {"send", "wait", "resync"}
    BY DEF SessionInv, SessionTypeOK
  <2>2. CASE Call
    BY <2>2 DEF Call, Exec, Checkpoint, Checkpoints, Restore, DropQuietly, DropCleaning, Begin, Commands
  <2>3. CASE Send
    BY <2>3, StageAdvances DEF Send
  <2>4. CASE Deadline
    BY <2>4, StageAdvances DEF Deadline
  <2>5. CASE SendFails \/ Eof \/ ResyncFails
    BY <2>1, <2>5, EndAdvances DEF SendFails, Eof, ResyncFails
  <2>6. CASE Receive
    BY <2>1, <2>6, EndAdvances DEF Receive
  <2>7. CASE ResyncReceive
    BY <2>1, <2>7, EndAdvances DEF ResyncReceive
  <2>8. CASE Shell
    BY <2>8 DEF Shell, ShellReads, ShellMakesFile, ShellNamesFile, ShellExecutes, ShellPrints, ShellInterrupted,
          ShellExits
  <2>9. CASE UNCHANGED vars
    BY <2>9 DEF vars
  <2> QED
    BY <2>2, <2>3, <2>4, <2>5, <2>6, <2>7, <2>8, <2>9 DEF Next, Library
<1>2. SessionInv /\ CallInv /\ [Next]_vars => [(step \in Commands => CallLeft' < CallLeft \/ UNCHANGED library)]_vars
  BY <1>1
<1> QED
  BY <1>2, SessionInvariant, CallInvariant, PTL DEF Spec, CallAdvances
=============================================================================
