---------------------------- MODULE AuditProofs ----------------------------
(***************************************************************************)
(* The audit logs and what the viewers make of them.                       *)
(*                                                                         *)
(* The event streams of the web viewer, for any number of clients, any     *)
(* capacity of the channel and any length of the log: a stream that never  *)
(* lagged has no gap between its snapshot and the broadcast. And the       *)
(* tailer, for any log and any cut of its lines between the polls: what it *)
(* has read is what the file holds before its offset.                      *)
(*                                                                         *)
(* The sweep of a shared audit directory, for any number of servers, runs, *)
(* sessions and events, and a retention whose seconds fit in a u64: it     *)
(* removes no file with an event younger than the retention, unless a      *)
(* session wrote to it between the look and the removal.                   *)
(*                                                                         *)
(* The viewer of that directory, whatever the retention: one view per      *)
(* session, which shows its events in order and each once, unless the      *)
(* session wrote between the length and the read of a poll.                *)
(*                                                                         *)
(* The files of the web viewer, for any number of starts, pages and        *)
(* bodies: restarts keep the URL, and a save that is neither overlapped    *)
(* nor cut off is read back whole.                                         *)
(***************************************************************************)
EXTENDS AuditFeed, AuditDir, Viewer, FiniteSetTheorems, WellFoundedInduction, TLAPS

-----------------------------------------------------------------------------
(***************************************************************************)
(* Sequences.                                                              *)
(***************************************************************************)
LEMMA AppendAny ==
  ASSUME NEW s, s \in Seq(ToSet(s)), NEW e
  PROVE  Append(s, e) \in Seq(ToSet(Append(s, e))) /\ Len(Append(s, e)) = Len(s) + 1
<1> DEFINE S == ToSet(s) \cup {e}
           t == Append(s, e)
<1>1. s \in Seq(S) /\ e \in S
  <2>1. ToSet(s) \subseteq S
    OBVIOUS
  <2> HIDE DEF S
  <2>2. \A T : s \in Seq(T) /\ T \subseteq S => s \in Seq(S)
    OBVIOUS
  <2>3. s \in Seq(S)
    BY <2>1, <2>2
  <2> QED BY <2>3 DEF S
<1> HIDE DEF S
<1>2. t \in Seq(S) /\ Len(t) = Len(s) + 1
  BY <1>1
<1>3. \A i \in 1..Len(t) : t[i] \in ToSet(t)
  BY <1>2 DEF ToSet
<1> HIDE DEF t
<1>4. t \in Seq(ToSet(t))
  BY <1>2, <1>3
<1> QED
  BY <1>2, <1>4 DEF t

LEMMA Extensional ==
  ASSUME NEW S, NEW s \in Seq(S), NEW t \in Seq(S), Len(s) = Len(t),
         \A i \in 1..Len(s) : s[i] = t[i]
  PROVE  s = t
OBVIOUS

LEMMA Concatenation ==
  ASSUME NEW s \in Seq(Nat), NEW t \in Seq(Nat)
  PROVE  /\ s \o t \in Seq(Nat) /\ Len(s \o t) = Len(s) + Len(t)
         /\ \A i \in 1..Len(s) : (s \o t)[i] = s[i]
         /\ \A j \in 1..Len(t) : (s \o t)[Len(s) + j] = t[j]
OBVIOUS

\* A line that is replayed stays due.
LEMMA ReplayedDue ==
  ASSUME NEW v \in Seq(Nat), NEW t \in Seq(Nat), t # <<>>
  PROVE  Append(v, Head(t)) \o Tail(t) = v \o t
<1>1. /\ Head(t) \in Nat /\ Tail(t) \in Seq(Nat) /\ Len(Tail(t)) = Len(t) - 1 /\ Head(t) = t[1]
      /\ Len(t) > 0 /\ Len(t) \in Nat /\ Len(v) \in Nat
      /\ \A i \in 1..(Len(t) - 1) : Tail(t)[i] = t[i + 1]
  OBVIOUS
<1>2. PICK r \in Seq(Nat) : r = Tail(t)
  BY <1>1
<1>3. Append(v, Head(t)) \in Seq(Nat)
  BY <1>1
<1>4. PICK w \in Seq(Nat) : w = Append(v, Head(t))
  BY <1>3
<1>5. /\ Len(w) = Len(v) + 1 /\ w[Len(v) + 1] = t[1]
      /\ \A i \in 1..Len(v) : w[i] = v[i]
  BY <1>1, <1>4
<1>6. PICK a \in Seq(Nat), b \in Seq(Nat) : a = w \o r /\ b = v \o t
  BY Concatenation
<1>7. Len(r) = Len(t) - 1 /\ \A i \in 1..(Len(t) - 1) : r[i] = t[i + 1]
  BY <1>1, <1>2
<1>8. /\ Len(a) = Len(w) + Len(r) /\ Len(b) = Len(v) + Len(t)
      /\ \A i \in 1..Len(w) : a[i] = w[i]
      /\ \A i \in 1..Len(r) : a[Len(w) + i] = r[i]
      /\ \A i \in 1..Len(v) : b[i] = v[i]
      /\ \A i \in 1..Len(t) : b[Len(v) + i] = t[i]
  BY <1>6, Concatenation, SMTT(30)
<1>9. Len(a) = Len(v) + Len(t)
  BY <1>1, <1>5, <1>7, <1>8
<1>10. ASSUME NEW i \in 1..(Len(v) + Len(t)) PROVE a[i] = b[i]
  <2>1. CASE i <= Len(v)
    BY <1>1, <1>5, <1>8, <2>1
  <2>2. CASE i = Len(v) + 1
    <3>1. 1 \in 1..Len(t) /\ i \in 1..Len(w)
      BY <1>1, <1>5, <2>2
    <3>2. a[i] = w[i] /\ b[i] = t[1]
      BY <1>8, <2>2, <3>1
    <3> QED BY <1>5, <2>2, <3>2
  <2>3. CASE i > Len(v) + 1
    <3>1. i - (Len(v) + 1) \in 1..(Len(t) - 1)
      BY <1>1, <2>3
    <3>2. PICK j \in 1..(Len(t) - 1) : j = i - (Len(v) + 1)
      BY <3>1
    <3>3. j \in 1..Len(r) /\ j + 1 \in 1..Len(t) /\ i = Len(w) + j /\ i = Len(v) + (j + 1)
      BY <1>1, <1>5, <1>7, <3>2
    <3>4. a[i] = r[j] /\ b[i] = t[j + 1]
      BY <1>8, <3>3
    <3> QED BY <1>7, <3>4
  <2> QED BY <1>1, <2>1, <2>2, <2>3, SMTT(30)
<1> QED
  BY <1>2, <1>4, <1>6, <1>8, <1>9, <1>10, Extensional

LEMMA ConcatEmpty ==
  ASSUME NEW S, NEW s \in Seq(S)
  PROVE  s \o <<>> = s /\ <<>> \o s = s
OBVIOUS
-----------------------------------------------------------------------------
LEMMA InitFeed == Init => FeedInv
<1> SUFFICES ASSUME Init PROVE FeedInv
  OBVIOUS
<1>1. <<>> \in Seq(Nat) /\ <<>> \in Seq(ToSet(<<>>)) /\ Len(<<>>) = 0
  OBVIOUS
<1>2. BacklogInv
  BY <1>1 DEF Init, BacklogInv
<1> QED
  BY <1>1, <1>2 DEF Init, FeedInv, StreamInv

\* The writer and the tailer touch neither the backlog nor a stream.
LEMMA FeedUnchanged ==
  ASSUME FeedInv, UNCHANGED <<backlog, sent, streams>>
  PROVE  FeedInv'
BY DEF FeedInv, BacklogInv, StreamInv, Due, streams

LEMMA BacklogSteps ==
  ASSUME FeedInv, Publish \/ Broadcast
  PROVE  FeedInv'
<1>1. UNCHANGED streams
  BY DEF Publish, Broadcast
<1>2. BacklogInv'
  <2>1. CASE Publish
    BY <2>1, AppendAny DEF Publish, FeedInv, BacklogInv
  <2>2. CASE Broadcast
    BY <2>2 DEF Broadcast, FeedInv, BacklogInv
  <2> QED BY <2>1, <2>2
<1> QED
  BY <1>1, <1>2 DEF FeedInv, StreamInv, Due, streams

\* A stream's step leaves the others alone.
LEMMA OneStream ==
  ASSUME FeedInv, NEW k \in Clients, UNCHANGED <<backlog, sent>>,
         NEW b \in BOOLEAN, NEW g \in BOOLEAN, NEW p \in Nat, NEW v \in Seq(Nat), NEW t \in Seq(Nat),
         on' = [on EXCEPT ![k] = b], lagged' = [lagged EXCEPT ![k] = g],
         pos' = [pos EXCEPT ![k] = p], view' = [view EXCEPT ![k] = v], todo' = [todo EXCEPT ![k] = t],
         ~b => v = <<>> /\ ~g,
         b /\ ~g => Gapless(v \o t, p)
  PROVE  FeedInv'
<1>1. BacklogInv'
  BY DEF FeedInv, BacklogInv
<1>2. StreamInv(k)'
  <2>1. on'[k] = b /\ lagged'[k] = g /\ pos'[k] = p /\ view'[k] = v /\ todo'[k] = t
    BY DEF FeedInv
  <2> QED BY <2>1 DEF StreamInv, Due, Gapless
<1>3. ASSUME NEW j \in Clients \ {k} PROVE StreamInv(j)'
  <2>1. on'[j] = on[j] /\ lagged'[j] = lagged[j] /\ pos'[j] = pos[j] /\ view'[j] = view[j]
        /\ todo'[j] = todo[j]
    BY DEF FeedInv
  <2>2. StreamInv(j)
    BY DEF FeedInv
  <2> QED BY <2>1, <2>2 DEF StreamInv, Due, Gapless
<1> QED
  BY <1>1, <1>2, <1>3 DEF FeedInv

LEMMA Snapshot ==
  ASSUME NEW n \in Nat, NEW p \in Nat, n \in {p, p + 1}
  PROVE  LET s == [i \in 1..n |-> i]
         IN s \in Seq(Nat) /\ <<>> \o s = s /\ Gapless(s, p)
<1> DEFINE s == [i \in 1..n |-> i]
<1>1. s \in Seq(Nat) /\ Len(s) = n /\ \A i \in 1..n : s[i] = i
  OBVIOUS
<1> HIDE DEF s
<1>2. <<>> \o s = s
  BY <1>1, ConcatEmpty
<1>3. \A i \in 2..n : i - 1 \in 1..n /\ i \in 1..n
  OBVIOUS
<1>4. 1..p \subseteq ToSet(s)
  BY <1>1 DEF ToSet
<1>5. Gapless(s, p)
  BY <1>1, <1>3, <1>4 DEF Gapless
<1> QED
  BY <1>1, <1>2, <1>5 DEF s

\* The snapshot is taken under the lock: it has every line broadcast, and at most
\* one more.
LEMMA ConnectKeeps ==
  ASSUME FeedInv, NEW k \in Clients, Connect(k)
  PROVE  FeedInv'
<1>1. PICK n \in Nat, p \in Nat : n = Len(backlog) /\ p = sent
  BY DEF FeedInv, BacklogInv
<1>2. n \in {p, p + 1}
  BY <1>1 DEF FeedInv, BacklogInv
<1>3. PICK s : s = [i \in 1..n |-> i]
  OBVIOUS
<1>4. s \in Seq(Nat) /\ <<>> \o s = s /\ Gapless(s, p)
  BY <1>2, <1>3, Snapshot
<1>5. ~on[k] /\ view[k] = <<>> /\ lagged[k] = FALSE
  BY DEF Connect, FeedInv, StreamInv
<1>6. /\ on' = [on EXCEPT ![k] = TRUE] /\ todo' = [todo EXCEPT ![k] = s]
      /\ pos' = [pos EXCEPT ![k] = p] /\ UNCHANGED <<backlog, sent, lagged, view>>
  BY <1>1, <1>3 DEF Connect
<1>7. view' = [view EXCEPT ![k] = <<>>] /\ lagged' = [lagged EXCEPT ![k] = FALSE]
  BY <1>5, <1>6 DEF FeedInv
<1>8. <<>> \in Seq(Nat)
  OBVIOUS
<1>9. Gapless(<<>> \o s, p)
  BY <1>4
<1> QED
  BY <1>4, <1>6, <1>7, <1>8, <1>9, OneStream

LEMMA ReplayKeeps ==
  ASSUME FeedInv, NEW k \in Clients, Replay(k)
  PROVE  FeedInv'
<1>1. view[k] \in Seq(Nat) /\ todo[k] \in Seq(Nat) /\ todo[k] # <<>> /\ pos[k] \in Nat
      /\ on[k] = TRUE /\ lagged[k] \in BOOLEAN
  BY DEF Replay, FeedInv
<1>2. Append(view[k], Head(todo[k])) \in Seq(Nat) /\ Tail(todo[k]) \in Seq(Nat)
  BY <1>1
<1>3. PICK v \in Seq(Nat) : v = Append(view[k], Head(todo[k]))
  BY <1>2
<1>4. PICK t \in Seq(Nat) : t = Tail(todo[k])
  BY <1>2
<1>5. v \o t = Due(k)
  BY <1>1, <1>3, <1>4, ReplayedDue DEF Due
<1>6. /\ on' = [on EXCEPT ![k] = TRUE] /\ lagged' = [lagged EXCEPT ![k] = lagged[k]]
      /\ pos' = [pos EXCEPT ![k] = pos[k]] /\ UNCHANGED <<backlog, sent>>
      /\ view' = [view EXCEPT ![k] = v] /\ todo' = [todo EXCEPT ![k] = t]
  BY <1>1, <1>3, <1>4 DEF Replay, FeedInv
<1>7. ~lagged[k] => Gapless(v \o t, pos[k])
  BY <1>1, <1>5 DEF FeedInv, StreamInv
<1> QED
  BY <1>1, <1>6, <1>7, OneStream

\* A line received is the next one, and none beyond it is there.
LEMMA ReceivedDue ==
  ASSUME NEW d \in Seq(Nat), NEW p \in Nat, Gapless(d, p)
  PROVE  Gapless(Append(d, p + 1), p + 1)
<1>0. p + 1 \in Nat /\ Append(d, p + 1) \in Seq(Nat)
  OBVIOUS
<1>1. PICK e \in Seq(Nat) : e = Append(d, p + 1)
  BY <1>0
<1>2. /\ Len(d) \in Nat /\ Len(e) = Len(d) + 1 /\ e[Len(d) + 1] = p + 1
      /\ \A i \in 1..Len(d) : e[i] = d[i] /\ d[i] \in Nat
  BY <1>1
<1>3. \A i \in 1..Len(e) : e[i] <= p + 1 + 1
  BY <1>2, SMTT(30) DEF Gapless
<1>4. 1..(p + 1) \subseteq ToSet(e)
  <2>0. DOMAIN e = 1..(Len(d) + 1)
    BY <1>2
  <2> SUFFICES ASSUME NEW n \in 1..(p + 1) PROVE \E i \in DOMAIN e : e[i] = n
    BY DEF ToSet
  <2>1. CASE n = p + 1
    <3>1. Len(d) + 1 \in DOMAIN e
      BY <1>2, <2>0
    <3> QED BY <1>2, <2>1, <3>1
  <2>2. CASE n # p + 1
    <3>1. n \in 1..p
      BY <2>2
    <3>2. PICK i \in 1..Len(d) : d[i] = n
      BY <3>1, SMTT(30) DEF Gapless, ToSet
    <3>3. e[i] = n /\ i \in DOMAIN e
      BY <1>2, <2>0, <3>2, SMTT(30)
    <3> QED BY <3>3
  <2> QED BY <2>1, <2>2
<1>5. ASSUME NEW i \in 2..Len(e) PROVE e[i - 1] <= e[i]
  <2>1. CASE i <= Len(d)
    <3>1. i \in 2..Len(d) /\ i - 1 \in 1..Len(d) /\ i \in 1..Len(d)
      BY <1>2, <2>1
    <3>2. e[i - 1] = d[i - 1] /\ e[i] = d[i] /\ d[i - 1] <= d[i]
      BY <1>2, <3>1 DEF Gapless
    <3> QED BY <3>2
  <2>2. CASE i = Len(d) + 1
    <3>1. i - 1 \in 1..Len(d) /\ e[i] = p + 1
      BY <1>2, <2>2
    <3>2. e[i - 1] = d[i - 1] /\ d[i - 1] <= p + 1
      BY <1>2, <3>1 DEF Gapless
    <3> QED BY <3>1, <3>2
  <2> QED BY <1>2, <2>1, <2>2
<1> QED
  BY <1>1, <1>3, <1>4, <1>5 DEF Gapless

LEMMA ReceiveKeeps ==
  ASSUME FeedInv, NEW k \in Clients, Receive(k)
  PROVE  FeedInv'
<1>1. todo[k] = <<>> /\ sent \in Nat /\ pos[k] < sent
      /\ on[k] = TRUE /\ lagged[k] \in BOOLEAN /\ <<>> \in Seq(Nat)
  BY DEF Receive, FeedInv, BacklogInv
<1>2. PICK d \in Seq(Nat), q \in Nat : d = view[k] /\ q = pos[k]
  BY DEF FeedInv
<1>3. Due(k) = d
  BY <1>1, <1>2, ConcatEmpty DEF Due
<1>4. /\ on' = [on EXCEPT ![k] = TRUE] /\ todo' = [todo EXCEPT ![k] = <<>>]
      /\ UNCHANGED <<backlog, sent>>
  BY <1>1 DEF Receive, FeedInv
<1>5. CASE lagged' = lagged /\ pos' = [pos EXCEPT ![k] = q + 1]
           /\ view' = [view EXCEPT ![k] = Append(d, q + 1)]
  <2>1. Append(d, q + 1) \in Seq(Nat) /\ q + 1 \in Nat
    OBVIOUS
  <2>2. PICK v \in Seq(Nat) : v = Append(d, q + 1)
    BY <2>1
  <2>3. PICK p \in Nat : p = q + 1
    BY <2>1
  <2>4. v \o <<>> = v
    BY ConcatEmpty
  <2>5. ~lagged[k] => Gapless(d, q)
    BY <1>1, <1>2, <1>3 DEF FeedInv, StreamInv
  <2>6. ~lagged[k] => Gapless(v \o <<>>, p)
    BY <2>2, <2>3, <2>4, <2>5, ReceivedDue
  <2>7. lagged' = [lagged EXCEPT ![k] = lagged[k]] /\ pos' = [pos EXCEPT ![k] = p]
        /\ view' = [view EXCEPT ![k] = v]
    BY <1>5, <2>2, <2>3 DEF FeedInv
  <2> QED BY <1>1, <1>4, <2>6, <2>7, OneStream
<1>6. CASE lagged' = [lagged EXCEPT ![k] = TRUE] /\ view' = view
           /\ pos' = [pos EXCEPT ![k] = sent - Capacity] /\ sent - q > Capacity
  <2>1. PICK p \in Nat : p = sent - Capacity
    BY <1>1, <1>6, FeedAssumption
  <2>2. view' = [view EXCEPT ![k] = d] /\ pos' = [pos EXCEPT ![k] = p]
    BY <1>2, <1>6, <2>1 DEF FeedInv
  <2> QED BY <1>1, <1>4, <1>6, <2>2, OneStream
<1> QED
  BY <1>2, <1>5, <1>6 DEF Receive

LEMMA DisconnectKeeps ==
  ASSUME FeedInv, NEW k \in Clients, Disconnect(k)
  PROVE  FeedInv'
<1>1. <<>> \in Seq(Nat)
  OBVIOUS
<1> QED
  BY <1>1, OneStream DEF Disconnect

LEMMA NextFeed == FeedInv /\ [Next]_vars => FeedInv'
<1> SUFFICES ASSUME FeedInv, [Next]_vars PROVE FeedInv'
  OBVIOUS
<1>1. CASE Writer \/ PollStat \/ PollRead \/ UNCHANGED vars
  <2>1. UNCHANGED <<backlog, sent, streams>>
    BY <1>1 DEF Writer, AppendBody, AppendNewline, AppendTorn, Rotate, PollStat, PollRead, vars
  <2> QED BY <2>1, FeedUnchanged
<1>2. CASE Publish \/ Broadcast
  BY <1>2, BacklogSteps
<1>3. CASE \E k \in Clients : Connect(k)
  BY <1>3, ConnectKeeps
<1>4. CASE \E k \in Clients : Stream(k)
  BY <1>4, ReplayKeeps, ReceiveKeeps DEF Stream
<1>5. CASE \E k \in Clients : Disconnect(k)
  BY <1>5, DisconnectKeeps
<1> QED
  BY <1>1, <1>2, <1>3, <1>4, <1>5 DEF Next, Poller

\* stream_events, for any number of clients that come and go, any capacity and any
\* log: no line falls between the snapshot and the subscription.
THEOREM NoGapCorrect == Spec => []NoGap
<1>1. FeedInv => NoGap
  BY DEF FeedInv, StreamInv, Gapless, NoGap
<1> QED
  BY InitFeed, NextFeed, <1>1, PTL DEF Spec
-----------------------------------------------------------------------------
(***************************************************************************)
(* The tailer. The events of a content are read by a recursive function;   *)
(* what it computes is shown by induction over its length.                 *)
(***************************************************************************)
\* Induction over the numbers, for a set of them.
LEMMA SetInduction ==
  ASSUME NEW T, 0 \in T, \A n \in Nat : n \in T => n + 1 \in T
  PROVE  \A n \in Nat : n \in T
<1> DEFINE R == OpToRel(<, Nat)
           U == Nat \ T
<1>1. IsWellFoundedOn(R, Nat)
  BY NatLessThanWellFounded, Zenon
<1> SUFFICES ASSUME U # {} PROVE FALSE
  OBVIOUS
<1>2. U \subseteq Nat
  OBVIOUS
<1> HIDE DEF R, U
<1>3. PICK x \in U : \A y \in U : ~(<<y, x>> \in R)
  BY <1>1, <1>2, WFMin, Zenon
<1>4. x \in Nat /\ x \notin T /\ x # 0
  BY DEF U
<1>5. x - 1 \in Nat /\ (x - 1) + 1 = x
  BY <1>4
<1>6. x - 1 \notin T
  BY <1>4, <1>5
<1>7. x - 1 \in U
  BY <1>5, <1>6 DEF U
<1>8. <<x - 1, x>> \in R
  BY <1>4, <1>5 DEF R, OpToRel
<1> QED
  BY <1>3, <1>7, <1>8

\* f holds the events read from each beginning of b.
ReadsLog(b, f) ==
  f = [n \in 0..Len(b) |-> IF n = 0 THEN <<>>
                           ELSE IF Parses(b, n) THEN Append(f[n - 1], b[n].ev)
                           ELSE f[n - 1]]

\* Its elements, one after the other.
LEMMA ReadsOn ==
  ASSUME NEW b \in Seq(Bytes), NEW f, ReadsLog(b, f)
  PROVE  /\ f[0] = <<>>
         /\ \A n \in 1..Len(b) :
              f[n] = IF Parses(b, n) THEN Append(f[n - 1], b[n].ev) ELSE f[n - 1]
<1>1. PICK l \in Nat : l = Len(b)
  OBVIOUS
<1>2. f = [n \in 0..l |-> IF n = 0 THEN <<>> ELSE IF Parses(b, n) THEN Append(f[n - 1], b[n].ev)
                          ELSE f[n - 1]]
  BY <1>1, Zenon DEF ReadsLog
<1>3. 0 \in 0..l
  BY <1>1
<1>4. f[0] = <<>>
  BY <1>2, <1>3
<1>5. ASSUME NEW n \in 1..l
      PROVE  f[n] = IF Parses(b, n) THEN Append(f[n - 1], b[n].ev) ELSE f[n - 1]
  <2>1. n \in 0..l /\ n # 0
    BY <1>1
  <2> QED
    BY <1>2, <2>1
<1> QED
  BY <1>1, <1>4, <1>5

\* There is such a function, so Events is its last element.
LEMMA EventsRead ==
  ASSUME NEW b \in Seq(Bytes)
  PROVE  \E f : ReadsLog(b, f) /\ Events(b) = f[Len(b)]
<1> DEFINE Upto(n, f) ==
             f = [i \in 0..n |-> IF i = 0 THEN <<>> ELSE IF Parses(b, i) THEN Append(f[i - 1], b[i].ev)
                                 ELSE f[i - 1]]
           T == {n \in Nat : \E f : Upto(n, f)}
<1>1. 0 \in T
  <2> DEFINE f == [i \in {0} |-> <<>>]
  <2>1. 0..0 = {0}
    OBVIOUS
  <2>2. Upto(0, f)
    BY <2>1
  <2> QED
    BY <2>2
<1>2. ASSUME NEW n \in Nat, n \in T PROVE n + 1 \in T
  <2>1. PICK f : Upto(n, f)
    BY <1>2
  <2> DEFINE x == IF Parses(b, n + 1) THEN Append(f[n], b[n + 1].ev) ELSE f[n]
  <2> HIDE DEF x
  <2> DEFINE g == [i \in 0..(n + 1) |-> IF i = n + 1 THEN x ELSE f[i]]
  <2>2. ASSUME NEW i \in 0..(n + 1)
        PROVE  g[i] = IF i = 0 THEN <<>> ELSE IF Parses(b, i) THEN Append(g[i - 1], b[i].ev) ELSE g[i - 1]
    <3>1. CASE i = 0
      <4>1. i \in 0..n /\ i # n + 1
        BY <3>1
      <4>2. f[i] = <<>>
        BY <2>1, <3>1, <4>1
      <4> QED
        BY <3>1, <4>1, <4>2
    <3>2. CASE i = n + 1
      <4>1. i # 0 /\ i - 1 = n /\ n \in 0..(n + 1) /\ n # n + 1
        BY <3>2
      <4>2. g[i] = x /\ g[i - 1] = f[n]
        BY <3>2, <4>1
      <4> QED
        BY <3>2, <4>1, <4>2, Zenon DEF x
    <3>3. CASE i # 0 /\ i # n + 1
      <4>1. i \in 0..n /\ i - 1 \in 0..(n + 1) /\ i - 1 # n + 1
        BY <3>3
      <4>2. g[i] = f[i] /\ g[i - 1] = f[i - 1]
        BY <3>3, <4>1
      <4>3. f[i] = IF Parses(b, i) THEN Append(f[i - 1], b[i].ev) ELSE f[i - 1]
        BY <2>1, <3>3, <4>1
      <4> QED
        BY <3>3, <4>2, <4>3, Zenon
    <3> QED
      BY <3>1, <3>2, <3>3
  <2>3. g = [i \in 0..(n + 1) |-> g[i]]
    OBVIOUS
  <2> HIDE DEF g
  <2>4. Upto(n + 1, g)
    BY <2>2, <2>3
  <2>5. \E h : Upto(n + 1, h)
    BY <2>4, Zenon
  <2>6. n + 1 \in Nat
    OBVIOUS
  <2> HIDE DEF Upto
  <2> QED
    BY <2>5, <2>6
<1>3. Len(b) \in T
  <2> HIDE DEF T
  <2>1. \A n \in Nat : n \in T
    BY <1>1, <1>2, SetInduction
  <2> QED
    BY <2>1
<1>4. \E f : ReadsLog(b, f)
  BY <1>3 DEF ReadsLog
<1> DEFINE r == CHOOSE f : ReadsLog(b, f)
<1>5. ReadsLog(b, r)
  BY <1>4, Zenon
<1>6. Events(b) = r[Len(b)]
  BY Zenon DEF Events, ReadsLog
<1> QED
  BY <1>5, <1>6

\* The elements of a content.
LEMMA ByteIs ==
  ASSUME NEW b \in Seq(Bytes), NEW n \in 1..Len(b)
  PROVE  b[n] \in Bytes /\ b[n].ev \in Nat /\ b[n].nl \in BOOLEAN
<1>1. b[n] \in Bytes
  OBVIOUS
<1> QED
  BY <1>1 DEF Bytes

\* Appending to the second of two sequences.
LEMMA AppendBehind ==
  ASSUME NEW s \in Seq(Nat), NEW t \in Seq(Nat), NEW e \in Nat
  PROVE  Append(s \o t, e) = s \o Append(t, e)
<1>1. s \o t \in Seq(Nat) /\ Len(s \o t) = Len(s) + Len(t) /\ Append(t, e) \in Seq(Nat)
      /\ Len(Append(t, e)) = Len(t) + 1
  BY Concatenation
<1>2. PICK c \in Seq(Nat), d \in Seq(Nat) : c = s \o t /\ d = Append(t, e)
  BY <1>1
<1>3. \A i \in 1..Len(t) : d[i] = t[i]
  BY <1>2
<1>4. d[Len(t) + 1] = e /\ Len(d) = Len(t) + 1
  BY <1>2
<1>5. Append(c, e) \in Seq(Nat) /\ s \o d \in Seq(Nat)
  BY Concatenation
<1>6. PICK x \in Seq(Nat), y \in Seq(Nat) : x = Append(c, e) /\ y = s \o d
  BY <1>5
<1>7. Len(x) = Len(c) + 1 /\ x[Len(c) + 1] = e /\ \A i \in 1..Len(c) : x[i] = c[i]
  BY <1>6
<1>8. /\ Len(c) = Len(s) + Len(t) /\ \A i \in 1..Len(s) : c[i] = s[i]
      /\ \A j \in 1..Len(t) : c[Len(s) + j] = t[j]
  BY <1>2, Concatenation
<1>9. /\ Len(y) = Len(s) + Len(d) /\ \A i \in 1..Len(s) : y[i] = s[i]
      /\ \A j \in 1..Len(d) : y[Len(s) + j] = d[j]
  BY <1>6, Concatenation
<1>10. PICK k \in Nat, l \in Nat : k = Len(s) /\ l = Len(t)
  OBVIOUS
<1>11. ASSUME NEW i \in 1..(k + l + 1) PROVE x[i] = y[i]
  <2>1. CASE i <= k
    BY <1>7, <1>8, <1>9, <1>10, <2>1
  <2>2. CASE i > k
    <3>1. PICK j \in 1..(l + 1) : i = k + j
      <4>1. i - k \in 1..(l + 1) /\ i = k + (i - k)
        BY <2>2
      <4> QED
        BY <4>1
    <3>2. CASE j <= l
      BY <1>3, <1>4, <1>7, <1>8, <1>9, <1>10, <3>1, <3>2
    <3>3. CASE j = l + 1
      BY <1>4, <1>7, <1>8, <1>9, <1>10, <3>1, <3>3
    <3> QED
      BY <3>2, <3>3
  <2> QED
    BY <2>1, <2>2
<1>12. Len(x) = k + l + 1 /\ Len(y) = k + l + 1
  BY <1>4, <1>7, <1>8, <1>9, <1>10
<1>13. x = y
  BY <1>11, <1>12, Extensional
<1> QED
  BY <1>2, <1>6, <1>13

\* What is read are the numbers of events.
LEMMA ReadsTyped ==
  ASSUME NEW b \in Seq(Bytes), NEW f, ReadsLog(b, f)
  PROVE  \A n \in 0..Len(b) : f[n] \in Seq(Nat)
<1>1. PICK l \in Nat : l = Len(b)
  OBVIOUS
<1>2. f[0] = <<>> /\ \A n \in 1..l : f[n] = IF Parses(b, n) THEN Append(f[n - 1], b[n].ev) ELSE f[n - 1]
  BY <1>1, ReadsOn
<1>3. \A n \in 1..l : b[n].ev \in Nat
  BY <1>1, ByteIs
<1> DEFINE T == {n \in Nat : n <= l => f[n] \in Seq(Nat)}
<1>4. 0 \in T
  <2>1. f[0] \in Seq(Nat)
    BY <1>2
  <2> QED
    BY <2>1
<1>5. ASSUME NEW n \in Nat, n \in T PROVE n + 1 \in T
  <2> SUFFICES ASSUME n + 1 <= l PROVE f[n + 1] \in Seq(Nat)
    OBVIOUS
  <2>1. n + 1 \in 1..l /\ (n + 1) - 1 = n /\ n <= l
    BY <1>1
  <2>2. f[n] \in Seq(Nat) /\ b[n + 1].ev \in Nat
    BY <1>3, <1>5, <2>1
  <2>3. f[n + 1] = IF Parses(b, n + 1) THEN Append(f[n], b[n + 1].ev) ELSE f[n]
    BY <1>2, <2>1
  <2>4. Append(f[n], b[n + 1].ev) \in Seq(Nat)
    BY <2>2
  <2> QED
    BY <2>2, <2>3, <2>4
<1> HIDE DEF T
<1>6. \A n \in Nat : n \in T
  BY <1>4, <1>5, SetInduction
<1> QED
  BY <1>1, <1>6 DEF T

\* Two contents that begin alike are read alike that far.
LEMMA ReadsSame ==
  ASSUME NEW z \in Seq(Bytes), NEW w \in Seq(Bytes), NEW g, NEW h, ReadsLog(z, g), ReadsLog(w, h),
         NEW k \in Nat, k <= Len(z), k <= Len(w), \A i \in 1..k : z[i] = w[i]
  PROVE  \A n \in 0..k : g[n] = h[n]
<1>1. g[0] = <<>> /\ \A n \in 1..k : g[n] = IF Parses(z, n) THEN Append(g[n - 1], z[n].ev) ELSE g[n - 1]
  BY ReadsOn
<1>2. h[0] = <<>> /\ \A n \in 1..k : h[n] = IF Parses(w, n) THEN Append(h[n - 1], w[n].ev) ELSE h[n - 1]
  BY ReadsOn
<1>3. ASSUME NEW n \in 1..k PROVE z[n] = w[n] /\ (Parses(z, n) <=> Parses(w, n))
  <2>1. z[n] = w[n] /\ (n > 1 => n - 1 \in 1..k) /\ (n > 2 => n - 2 \in 1..k)
    OBVIOUS
  <2>2. n > 1 => z[n - 1] = w[n - 1]
    BY <2>1
  <2>3. n > 2 => z[n - 2] = w[n - 2]
    BY <2>1
  <2>4. n > 2 \/ n = 2 \/ ~(n > 1)
    OBVIOUS
  <2> QED
    BY <2>1, <2>2, <2>3, <2>4 DEF Parses
<1> DEFINE T == {n \in Nat : n <= k => g[n] = h[n]}
<1>4. 0 \in T
  BY <1>1, <1>2
<1>5. ASSUME NEW n \in Nat, n \in T PROVE n + 1 \in T
  <2> SUFFICES ASSUME n + 1 <= k PROVE g[n + 1] = h[n + 1]
    OBVIOUS
  <2>1. n + 1 \in 1..k /\ (n + 1) - 1 = n /\ n <= k
    OBVIOUS
  <2>2. g[n] = h[n] /\ z[n + 1] = w[n + 1] /\ (Parses(z, n + 1) <=> Parses(w, n + 1))
    BY <1>3, <1>5, <2>1
  <2>3. g[n + 1] = IF Parses(z, n + 1) THEN Append(g[n], z[n + 1].ev) ELSE g[n]
    BY <1>1, <2>1
  <2>4. h[n + 1] = IF Parses(w, n + 1) THEN Append(h[n], w[n + 1].ev) ELSE h[n]
    BY <1>2, <2>1
  <2> QED
    BY <2>2, <2>3, <2>4, Zenon
<1> HIDE DEF T
<1>6. \A n \in Nat : n \in T
  BY <1>4, <1>5, SetInduction
<1> QED
  BY <1>6 DEF T

\* Nothing is read where no line ends.
LEMMA ReadsIdle ==
  ASSUME NEW b \in Seq(Bytes), NEW f, ReadsLog(b, f), NEW m \in 0..Len(b),
         \A i \in (m + 1)..Len(b) : ~b[i].nl
  PROVE  f[Len(b)] = f[m]
<1>1. PICK l \in Nat : l = Len(b)
  OBVIOUS
<1>2. \A n \in 1..l : f[n] = IF Parses(b, n) THEN Append(f[n - 1], b[n].ev) ELSE f[n - 1]
  BY <1>1, ReadsOn
<1>3. m \in Nat /\ m <= l /\ \A i \in (m + 1)..l : ~Parses(b, i)
  BY <1>1 DEF Parses
<1> DEFINE T == {n \in Nat : m + n <= l => f[m + n] = f[m]}
<1>4. 0 \in T
  BY <1>3
<1>5. ASSUME NEW n \in Nat, n \in T PROVE n + 1 \in T
  <2> SUFFICES ASSUME m + (n + 1) <= l PROVE f[m + (n + 1)] = f[m]
    OBVIOUS
  <2>1. PICK i \in 1..l : i = m + (n + 1) /\ i - 1 = m + n /\ i \in (m + 1)..l /\ m + n <= l
    BY <1>3
  <2>2. f[i] = f[i - 1]
    BY <1>2, <1>3, <2>1
  <2> QED
    BY <1>5, <2>1, <2>2
<1> HIDE DEF T
<1>6. \A n \in Nat : n \in T
  BY <1>4, <1>5, SetInduction
<1>7. l - m \in Nat /\ m + (l - m) = l
  BY <1>1, <1>3
<1>8. f[m + (l - m)] = f[m]
  BY <1>1, <1>3, <1>6, <1>7 DEF T
<1> QED
  BY <1>1, <1>7, <1>8, Zenon

\* What follows the end of a line is read as if nothing were before it.
LEMMA ReadsBehind ==
  ASSUME NEW z \in Seq(Bytes), NEW w \in Seq(Bytes), NEW g, NEW h, ReadsLog(z, g), ReadsLog(w, h),
         NEW m \in Nat, Len(z) = m + Len(w), m = 0 \/ z[m].nl,
         \A i \in 1..Len(w) : w[i] = z[m + i]
  PROVE  g[Len(z)] = g[m] \o h[Len(w)]
<1>1. PICK l \in Nat : l = Len(w)
  OBVIOUS
<1>2. \A n \in 1..(m + l) : g[n] = IF Parses(z, n) THEN Append(g[n - 1], z[n].ev) ELSE g[n - 1]
  BY <1>1, ReadsOn
<1>3. h[0] = <<>> /\ \A n \in 1..l : h[n] = IF Parses(w, n) THEN Append(h[n - 1], w[n].ev) ELSE h[n - 1]
  BY <1>1, ReadsOn
<1>4. g[m] \in Seq(Nat)
  <2>1. m \in 0..Len(z)
    BY <1>1
  <2> QED
    BY <2>1, ReadsTyped
<1>5. \A n \in 0..l : h[n] \in Seq(Nat)
  BY <1>1, ReadsTyped
<1>6. ASSUME NEW n \in 1..l
      PROVE  w[n] = z[m + n] /\ w[n].ev \in Nat /\ (Parses(z, m + n) <=> Parses(w, n))
  <2>1. w[n] = z[m + n] /\ w[n].ev \in Nat
    BY <1>1, ByteIs
  <2>2. CASE n > 2
    <3>1. n - 1 \in 1..l /\ n - 2 \in 1..l /\ m + (n - 1) = (m + n) - 1 /\ m + (n - 2) = (m + n) - 2
          /\ m + n > 1 /\ m + n # 2 /\ n # 2
      BY <2>2
    <3>2. w[n - 1] = z[(m + n) - 1] /\ w[n - 2] = z[(m + n) - 2]
      BY <1>1, <3>1
    <3> QED
      BY <2>1, <2>2, <3>1, <3>2, SMTT(30) DEF Parses
  <2>3. CASE n = 2
    <3>1. n - 1 \in 1..l /\ m + (n - 1) = (m + n) - 1 /\ m = (m + n) - 2
          /\ m + n > 1 /\ (m + n = 2 <=> m = 0)
      BY <2>3
    <3>2. w[n - 1] = z[(m + n) - 1] /\ (m = 0 \/ z[(m + n) - 2].nl)
      BY <1>1, <3>1
    <3> QED
      BY <2>1, <2>3, <3>1, <3>2 DEF Parses
  <2>4. CASE n = 1
    <3>1. ~(n > 1) /\ m = (m + n) - 1 /\ (m + n > 1 <=> m # 0)
      BY <2>4
    <3>2. m = 0 \/ z[(m + n) - 1].nl
      BY <3>1
    <3> QED
      BY <2>1, <3>1, <3>2 DEF Parses
  <2>5. n > 2 \/ n = 2 \/ n = 1
    OBVIOUS
  <2> QED
    BY <2>2, <2>3, <2>4, <2>5
<1> DEFINE P(n) == g[m + n] = g[m] \o h[n]
           T == {n \in Nat : n <= l => P(n)}
<1> HIDE DEF P
<1>7. 0 \in T
  <2>1. g[m] \o <<>> = g[m] /\ m + 0 = m
    BY <1>4, ConcatEmpty
  <2>2. g[m + 0] = g[m] \o h[0]
    BY <1>3, <2>1
  <2> QED
    BY <2>2 DEF P
<1>8. ASSUME NEW n \in Nat, n \in T PROVE n + 1 \in T
  <2> SUFFICES ASSUME n + 1 <= l PROVE P(n + 1)
    OBVIOUS
  <2>1. n + 1 \in 1..l /\ (n + 1) - 1 = n /\ n \in 0..l /\ n <= l /\ m + (n + 1) \in 1..(m + l)
        /\ (m + (n + 1)) - 1 = m + n
    OBVIOUS
  <2>2. PICK p : p = Parses(w, n + 1) /\ p = Parses(z, m + (n + 1))
    BY <1>6, <2>1 DEF Parses
  <2>3. PICK e \in Nat : e = w[n + 1].ev /\ e = z[m + (n + 1)].ev
    BY <1>6, <2>1
  <2>4. PICK s \in Seq(Nat), t \in Seq(Nat) : s = g[m] /\ t = h[n]
    BY <1>4, <1>5, <2>1
  <2>5. g[m + n] = s \o t
    BY <1>8, <2>1, <2>4 DEF P
  <2>6. h[n + 1] = IF p THEN Append(t, e) ELSE t
    BY <1>3, <2>1, <2>2, <2>3, <2>4
  <2>7. g[m + (n + 1)] = IF p THEN Append(s \o t, e) ELSE s \o t
    BY <1>2, <2>1, <2>2, <2>3, <2>5, ZenonT(30)
  <2>8. Append(s \o t, e) = s \o Append(t, e)
    BY AppendBehind, ZenonT(30)
  <2> QED
    BY <2>4, <2>6, <2>7, <2>8, Zenon DEF P
<1> HIDE DEF T
<1>9. \A n \in Nat : n \in T
  BY <1>7, <1>8, SetInduction
<1>10. g[m + l] = g[m] \o h[l]
  <2>1. l \in T
    BY <1>9
  <2>2. P(l)
    BY <2>1 DEF T
  <2> QED
    BY <2>2, Zenon DEF P
<1> QED
  BY <1>1, <1>10
-----------------------------------------------------------------------------
(***************************************************************************)
(* What a read leaves, and reading on from there.                          *)
(***************************************************************************)
\* The last line of b ends at k; with k = 0 no line ends in it.
Ends(b, k) == k \in 0..Len(b) /\ (k = 0 \/ b[k].nl) /\ \A i \in (k + 1)..Len(b) : ~b[i].nl

\* Every content has such a place.
LEMMA LastEnd ==
  ASSUME NEW b \in Seq(Bytes)
  PROVE  \E k : Ends(b, k)
<1>1. PICK l \in Nat : l = Len(b)
  OBVIOUS
<1> DEFINE Latest(n, k) == k \in 0..n /\ (k = 0 \/ b[k].nl) /\ \A i \in (k + 1)..n : ~b[i].nl
           T == {n \in Nat : \E k : Latest(n, k)}
<1>2. 0 \in T
  <2>1. Latest(0, 0)
    OBVIOUS
  <2>2. \E k : Latest(0, k)
    BY <2>1, Zenon
  <2> HIDE DEF Latest
  <2> QED
    BY <2>2
<1>3. ASSUME NEW n \in Nat, n \in T PROVE n + 1 \in T
  <2>1. PICK k : Latest(n, k)
    BY <1>3
  <2>2. CASE b[n + 1].nl
    <3>1. Latest(n + 1, n + 1)
      BY <2>2
    <3>2. \E j : Latest(n + 1, j)
      BY <3>1, Zenon
    <3> HIDE DEF Latest
    <3> QED
      BY <3>2
  <2>3. CASE ~b[n + 1].nl
    <3>1. Latest(n + 1, k)
      BY <2>1, <2>3
    <3>2. \E j : Latest(n + 1, j)
      BY <3>1, Zenon
    <3> HIDE DEF Latest
    <3> QED
      BY <3>2
  <2> QED
    BY <2>2, <2>3
<1> HIDE DEF T
<1>4. \A n \in Nat : n \in T
  BY <1>2, <1>3, SetInduction
<1>5. \E k : Latest(l, k)
  BY <1>4 DEF T
<1> QED
  BY <1>1, <1>5, Zenon DEF Ends

\* A part of a sequence.
LEMMA Middle ==
  ASSUME NEW S, NEW s \in Seq(S), NEW m \in 0..Len(s), NEW n \in m..Len(s)
  PROVE  /\ SubSeq(s, m + 1, n) \in Seq(S) /\ Len(SubSeq(s, m + 1, n)) = n - m
         /\ \A i \in 1..(n - m) : SubSeq(s, m + 1, n)[i] = s[m + i]
OBVIOUS

\* The remainder is what follows the end of the last line.
LEMMA RemainderIs ==
  ASSUME NEW b \in Seq(Bytes), NEW k, Ends(b, k)
  PROVE  /\ Remainder(b) \in Seq(Bytes) /\ Len(Remainder(b)) = Len(b) - k
         /\ \A i \in 1..(Len(b) - k) : Remainder(b)[i] = b[k + i]
<1>1. PICK l \in Nat : l = Len(b)
  OBVIOUS
<1>2. k \in 0..l /\ (k = 0 \/ b[k].nl) /\ \A i \in (k + 1)..l : ~b[i].nl
  BY <1>1 DEF Ends
<1>3. \A i : i \in LineEnds(b) <=> i \in 1..l /\ b[i].nl
  BY <1>1 DEF LineEnds
<1>4. CASE k = 0
  <2>1. LineEnds(b) = {}
    BY <1>2, <1>3, <1>4
  <2>2. Remainder(b) = b
    BY <2>1 DEF Remainder
  <2> QED
    BY <1>1, <1>4, <2>2
<1>5. CASE k # 0
  <2>1. k \in LineEnds(b) /\ LineEnds(b) # {} /\ \A i \in LineEnds(b) : i <= k /\ i \in Nat
    BY <1>2, <1>3, <1>5
  <2>2. Max(LineEnds(b)) = k
    BY <2>1 DEF Max
  <2>3. Remainder(b) = SubSeq(b, k + 1, l)
    BY <1>1, <2>1, <2>2 DEF Remainder
  <2>4. k \in 0..Len(b) /\ l \in k..Len(b)
    BY <1>1, <1>2
  <2> QED
    BY <1>1, <2>3, <2>4, Middle
<1> QED
  BY <1>4, <1>5

\* Two contents after one another.
LEMMA ConcatBytes ==
  ASSUME NEW s \in Seq(Bytes), NEW t \in Seq(Bytes)
  PROVE  /\ s \o t \in Seq(Bytes) /\ Len(s \o t) = Len(s) + Len(t)
         /\ \A i \in 1..Len(s) : (s \o t)[i] = s[i]
         /\ \A j \in 1..Len(t) : (s \o t)[Len(s) + j] = t[j]
OBVIOUS

\* Reading x and then, with what was left of it, y reads all of them.
LEMMA SplitRead ==
  ASSUME NEW x \in Seq(Bytes), NEW y \in Seq(Bytes)
  PROVE  /\ Remainder(x) \in Seq(Bytes)
         /\ Events(x \o y) = Events(x) \o Events(Remainder(x) \o y)
         /\ Remainder(x \o y) = Remainder(Remainder(x) \o y)
<1>1. PICK m : Ends(x, m)
  BY LastEnd
<1>2. PICK a \in Nat, c \in Nat : a = Len(x) /\ c = Len(y)
  OBVIOUS
<1>3. m \in 0..a /\ (m = 0 \/ x[m].nl) /\ \A i \in (m + 1)..a : ~x[i].nl
  BY <1>1, <1>2 DEF Ends
<1>4. PICK r \in Seq(Bytes) : r = Remainder(x)
  BY <1>1, RemainderIs
<1>5. Len(r) = a - m /\ \A i \in 1..(a - m) : r[i] = x[m + i]
  BY <1>1, <1>2, <1>4, RemainderIs
<1>6. PICK z \in Seq(Bytes), w \in Seq(Bytes) : z = x \o y /\ w = r \o y
  BY ConcatBytes
<1>7. /\ Len(z) = a + c /\ \A i \in 1..a : z[i] = x[i]
      /\ \A j \in 1..c : z[a + j] = y[j]
  BY <1>2, <1>6, ConcatBytes
<1>8. /\ Len(w) = (a - m) + c /\ \A i \in 1..(a - m) : w[i] = r[i]
      /\ \A j \in 1..c : w[(a - m) + j] = y[j]
  <2>1. /\ Len(r \o y) = Len(r) + Len(y) /\ \A i \in 1..Len(r) : (r \o y)[i] = r[i]
        /\ \A j \in 1..Len(y) : (r \o y)[Len(r) + j] = y[j]
    BY ConcatBytes
  <2> QED
    BY <1>2, <1>5, <1>6, <2>1, Zenon
<1>9. PICK n \in Nat : n = (a - m) + c
  BY <1>3
<1>10. m \in Nat /\ Len(w) = n /\ Len(z) = m + n
  BY <1>3, <1>7, <1>8, <1>9
<1>11. ASSUME NEW i \in 1..n PROVE w[i] = z[m + i]
  <2>1. CASE i <= a - m
    <3>1. i \in 1..(a - m) /\ m + i \in 1..a
      BY <1>3, <2>1
    <3> QED
      BY <1>5, <1>7, <1>8, <3>1
  <2>2. CASE i > a - m
    <3>1. PICK j \in 1..c : i = (a - m) + j /\ m + i = a + j
      <4>1. i - (a - m) \in 1..c /\ i = (a - m) + (i - (a - m)) /\ m + i = a + (i - (a - m))
        BY <1>3, <1>9, <2>2
      <4> QED
        BY <4>1
    <3> QED
      BY <1>7, <1>8, <3>1
  <2> QED
    BY <1>3, <2>1, <2>2
<1>12. m = 0 \/ z[m].nl
  BY <1>3, <1>7
<1>13. Events(z) = Events(x) \o Events(w)
  <2>1. PICK f : ReadsLog(x, f) /\ Events(x) = f[Len(x)]
    BY EventsRead
  <2>2. PICK g : ReadsLog(z, g) /\ Events(z) = g[Len(z)]
    BY EventsRead
  <2>3. PICK h : ReadsLog(w, h) /\ Events(w) = h[Len(w)]
    BY EventsRead
  <2>4. f[Len(x)] = f[m]
    <3>1. m \in 0..Len(x) /\ \A i \in (m + 1)..Len(x) : ~x[i].nl
      BY <1>2, <1>3
    <3> QED
      BY <2>1, <3>1, ReadsIdle
  <2>5. f[m] = g[m]
    <3>1. a <= Len(x) /\ a <= Len(z) /\ \A i \in 1..a : x[i] = z[i]
      BY <1>2, <1>7
    <3>2. ReadsLog(x, f) /\ ReadsLog(z, g)
      BY <2>1, <2>2
    <3>3. \A i \in 0..a : f[i] = g[i]
      BY <3>1, <3>2, ReadsSame, SMTT(30)
    <3> QED
      BY <1>3, <3>3
  <2>6. g[Len(z)] = g[m] \o h[Len(w)]
    <3>1. Len(z) = m + Len(w) /\ \A i \in 1..Len(w) : w[i] = z[m + i]
      BY <1>10, <1>11
    <3> QED
      BY <1>10, <1>12, <2>2, <2>3, <3>1, ReadsBehind, ZenonT(30)
  <2> QED
    BY <2>1, <2>2, <2>3, <2>4, <2>5, <2>6, Zenon
<1>14. Remainder(z) = Remainder(w)
  <2>1. PICK k : Ends(w, k)
    BY LastEnd
  <2>2. k \in 0..n /\ (k = 0 \/ w[k].nl) /\ \A i \in (k + 1)..n : ~w[i].nl
    BY <1>10, <2>1 DEF Ends
  <2>3. PICK j \in Nat : j = m + k
    BY <1>10, <2>2
  <2>4. j \in 0..(m + n) /\ (m + n) - j = n - k
    BY <1>10, <2>2, <2>3
  <2>5. j = 0 \/ z[j].nl
    <3>1. CASE k = 0
      BY <1>10, <1>12, <2>3, <3>1
    <3>2. CASE k # 0
      <4>1. k \in 1..n
        BY <2>2, <3>2
      <4> QED
        BY <1>11, <2>2, <2>3, <3>2, <4>1
    <3> QED
      BY <3>1, <3>2
  <2>6. ASSUME NEW i \in (j + 1)..(m + n) PROVE ~z[i].nl
    <3>1. PICK p \in (k + 1)..n : i = m + p /\ p \in 1..n
      <4>1. i - m \in (k + 1)..n /\ i = m + (i - m) /\ i - m \in 1..n
        BY <1>10, <2>2, <2>3
      <4> QED
        BY <4>1
    <3> QED
      BY <1>11, <2>2, <3>1
  <2>7. Ends(z, j)
    BY <1>10, <2>4, <2>5, <2>6 DEF Ends
  <2>8. PICK u \in Seq(Bytes), v \in Seq(Bytes) : u = Remainder(z) /\ v = Remainder(w)
    BY <2>1, <2>7, RemainderIs
  <2>9. Len(u) = n - k /\ \A i \in 1..(n - k) : u[i] = z[j + i]
    <3>1. Len(u) = Len(z) - j /\ \A i \in 1..(Len(z) - j) : u[i] = z[j + i]
      BY <2>7, <2>8, RemainderIs, ZenonT(30)
    <3> QED
      BY <1>10, <2>4, <3>1
  <2>10. Len(v) = n - k /\ \A i \in 1..(n - k) : v[i] = w[k + i]
    <3>1. Len(v) = Len(w) - k /\ \A i \in 1..(Len(w) - k) : v[i] = w[k + i]
      BY <2>1, <2>8, RemainderIs, ZenonT(30)
    <3> QED
      BY <1>10, <3>1, Zenon
  <2>11. ASSUME NEW i \in 1..(n - k) PROVE u[i] = v[i]
    <3>1. k + i \in 1..n /\ m + (k + i) = j + i
      BY <1>10, <2>2, <2>3
    <3> QED
      BY <1>11, <2>9, <2>10, <3>1
  <2>12. u = v
    BY <2>9, <2>10, <2>11, Extensional
  <2> QED
    BY <2>8, <2>12
<1> QED
  BY <1>4, <1>6, <1>13, <1>14, Zenon
-----------------------------------------------------------------------------
\* What ReadExactly says of the values the variables have.
Exact(f, o, l, b, u) == l \o b = Events(SubSeq(f, 1, o)) /\ u = Remainder(SubSeq(f, 1, o))

\* ReadExactly in these terms, of this state and the next.
LEMMA ExactIs ==
  ReadExactly <=> (~overrun /\ rotations = 0 => Exact(file, offset, backlog, batch, buf))
BY Zenon DEF ReadExactly, Exact

LEMMA ExactNext ==
  ReadExactly' <=> (~overrun' /\ rotations' = 0 => Exact(file', offset', backlog', batch', buf'))
BY Zenon DEF ReadExactly, Exact

\* Nothing written, nothing read.
LEMMA InitRead == Init => ReadInv
<1> SUFFICES ASSUME Init PROVE ReadInv
  OBVIOUS
<1> DEFINE e == <<>>
<1>1. e \in Seq(Bytes) /\ Len(e) = 0 /\ SubSeq(e, 1, 0) = e
  OBVIOUS
<1>2. e \in Seq(Nat) /\ e \o e = e
  BY ConcatEmpty
<1> HIDE DEF e
<1>3. Remainder(e) = e
  <2>1. LineEnds(e) = {}
    BY <1>1 DEF LineEnds
  <2> QED
    BY <2>1 DEF Remainder
<1>4. Events(e) = e
  <2>1. PICK f : ReadsLog(e, f) /\ Events(e) = f[Len(e)]
    BY <1>1, EventsRead
  <2>2. f[0] = e
    BY <1>1, <2>1, ReadsOn, Zenon DEF e
  <2> QED
    BY <1>1, <2>1, <2>2
<1>5. Exact(e, 0, e, e, e)
  BY <1>1, <1>2, <1>3, <1>4, Zenon DEF Exact
<1>6. file = e /\ backlog = e /\ batch = e /\ buf = e /\ offset = 0
  BY DEF Init, e
<1>7. ReadExactly
  BY <1>5, <1>6, ExactIs, Zenon
<1>8. begun = 0 /\ rotations = 0 /\ stat = None /\ overrun = FALSE
  BY DEF Init
<1>9. rotations = 0 => offset <= Len(file) /\ (stat # None => stat <= Len(file))
  BY <1>1, <1>6, <1>8
<1>10. /\ file \in Seq(Bytes) /\ buf \in Seq(Bytes) /\ batch \in Seq(Nat) /\ backlog \in Seq(Nat)
       /\ begun \in Nat /\ rotations \in Nat /\ offset \in Nat /\ overrun \in BOOLEAN
  BY <1>1, <1>2, <1>6, <1>8
<1> QED
  BY <1>7, <1>8, <1>9, <1>10 DEF ReadInv

\* An append leaves the bytes before the offset.
LEMMA Begin ==
  ASSUME NEW f \in Seq(Bytes), NEW e \in Bytes, NEW o \in Nat, o <= Len(f)
  PROVE  SubSeq(Append(f, e), 1, o) = SubSeq(f, 1, o)
<1>0. Append(f, e) \in Seq(Bytes)
  OBVIOUS
<1>1. PICK g \in Seq(Bytes) : g = Append(f, e)
  BY <1>0
<1>2. Len(g) = Len(f) + 1 /\ \A i \in 1..Len(f) : g[i] = f[i]
  BY <1>1
<1>3. /\ SubSeq(f, 0 + 1, o) \in Seq(Bytes) /\ Len(SubSeq(f, 0 + 1, o)) = o - 0
      /\ \A i \in 1..(o - 0) : SubSeq(f, 0 + 1, o)[i] = f[0 + i]
  <2>1. 0 \in 0..Len(f) /\ o \in 0..Len(f)
    OBVIOUS
  <2> QED
    BY <2>1, Middle
<1>4. /\ SubSeq(g, 0 + 1, o) \in Seq(Bytes) /\ Len(SubSeq(g, 0 + 1, o)) = o - 0
      /\ \A i \in 1..(o - 0) : SubSeq(g, 0 + 1, o)[i] = g[0 + i]
  <2>1. 0 \in 0..Len(g) /\ o \in 0..Len(g)
    BY <1>2
  <2> QED
    BY <2>1, Middle
<1>5. 0 + 1 = 1 /\ o - 0 = o
  OBVIOUS
<1>6. PICK s \in Seq(Bytes), t \in Seq(Bytes) : s = SubSeq(f, 1, o) /\ t = SubSeq(g, 1, o)
  BY <1>3, <1>4, <1>5
<1>7. Len(s) = o /\ \A i \in 1..o : s[i] = f[i]
  BY <1>3, <1>5, <1>6
<1>8. Len(t) = o /\ \A i \in 1..o : t[i] = g[i]
  BY <1>4, <1>5, <1>6
<1>9. s = t
  <2>1. Len(s) = Len(t) /\ \A i \in 1..Len(s) : s[i] = t[i]
    BY <1>2, <1>7, <1>8, SMTT(30)
  <2> QED
    BY <2>1, Extensional
<1> QED
  BY <1>1, <1>6, <1>9

\* What is appended lies behind the offset.
LEMMA AppendKeeps ==
  ASSUME ReadInv, NEW e \in Bytes, file' = Append(file, e), begun' \in Nat,
         UNCHANGED <<rotations, tailer, batch, backlog>>
  PROVE  ReadInv'
<1>1. file' \in Seq(Bytes) /\ Len(file') = Len(file) + 1
  BY DEF ReadInv
<1>2. UNCHANGED <<rotations, stat, offset, buf, overrun, batch, backlog>>
  BY DEF tailer
<1>3. ReadExactly'
  <2>1. SUFFICES ASSUME ~overrun, rotations = 0 PROVE Exact(file', offset, backlog, batch, buf)
    BY <1>2, ExactNext, Zenon
  <2>2. Exact(file, offset, backlog, batch, buf)
    BY <2>1, ExactIs, Zenon DEF ReadInv
  <2>3. SubSeq(file', 1, offset) = SubSeq(file, 1, offset)
    BY <2>1, Begin DEF ReadInv
  <2> QED
    BY <2>2, <2>3, Zenon DEF Exact
<1>4. rotations' = 0 => offset' <= Len(file') /\ (stat' # None => stat' <= Len(file'))
  BY <1>1, <1>2 DEF ReadInv, None
<1> QED
  BY <1>1, <1>2, <1>3, <1>4 DEF ReadInv

\* The writer only appends, until it rotates.
LEMMA WriterReads ==
  ASSUME ReadInv, Writer
  PROVE  ReadInv'
<1>1. CASE AppendBody
  <2>1. Body(begun + 1) \in Bytes /\ begun + 1 \in Nat
    BY DEF ReadInv, Body, Bytes
  <2> QED
    BY <1>1, <2>1, AppendKeeps DEF AppendBody
<1>2. CASE AppendNewline
  <2>1. Newline(begun) \in Bytes /\ begun \in Nat
    BY DEF ReadInv, Newline, Bytes
  <2> QED
    BY <1>2, <2>1, AppendKeeps DEF AppendNewline
<1>3. CASE AppendTorn
  <2>1. UNCHANGED <<file, begun, rotations, stat, offset, buf, overrun, batch, backlog>>
    BY <1>3 DEF AppendTorn, tailer
  <2> QED
    BY <2>1 DEF ReadInv, ReadExactly
<1>4. CASE Rotate
  <2>1. rotations' \in Nat /\ rotations' # 0 /\ file' = <<>> /\ file' \in Seq(Bytes)
        /\ UNCHANGED <<begun, stat, offset, buf, overrun, batch, backlog>>
    BY <1>4 DEF Rotate, tailer, ReadInv
  <2>2. ReadExactly'
    BY <2>1 DEF ReadExactly
  <2> QED
    BY <2>1, <2>2 DEF ReadInv
<1> QED
  BY <1>1, <1>2, <1>3, <1>4 DEF Writer

\* Until then a poll does not start over.
LEMMA PollStatReads ==
  ASSUME ReadInv, PollStat
  PROVE  ReadInv'
<1>1. UNCHANGED <<file, begun, rotations, overrun, batch, backlog>> /\ batch = <<>>
  BY DEF PollStat, log
<1>2. PICK l \in Nat : l = Len(file)
  BY DEF ReadInv
<1>3. offset' \in Nat /\ buf' \in Seq(Bytes) /\ (stat' # None => stat' = l)
  BY <1>2 DEF PollStat, ReadInv
<1>4. rotations = 0 => offset <= l /\ offset' = offset /\ buf' = buf
  BY <1>2 DEF PollStat, ReadInv
<1>5. ReadExactly'
  BY <1>1, <1>4 DEF ReadInv, ReadExactly
<1>6. /\ stat' # None => stat' \in Nat /\ batch' = <<>>
      /\ rotations' = 0 => offset' <= Len(file') /\ (stat' # None => stat' <= Len(file'))
  BY <1>1, <1>2, <1>3, <1>4 DEF None
<1> QED
  BY <1>1, <1>3, <1>5, <1>6 DEF ReadInv

\* The offset cuts the file in two.
LEMMA Cut ==
  ASSUME NEW f \in Seq(Bytes), NEW o \in Nat, o <= Len(f)
  PROVE  /\ SubSeq(f, 1, o) \in Seq(Bytes) /\ SubSeq(f, o + 1, Len(f)) \in Seq(Bytes)
         /\ SubSeq(f, 1, o) \o SubSeq(f, o + 1, Len(f)) = f
         /\ SubSeq(f, 1, Len(f)) = f
<1>1. PICK l \in Nat : l = Len(f)
  OBVIOUS
<1>2. /\ SubSeq(f, 0 + 1, o) \in Seq(Bytes) /\ Len(SubSeq(f, 0 + 1, o)) = o - 0
      /\ \A i \in 1..(o - 0) : SubSeq(f, 0 + 1, o)[i] = f[0 + i]
  <2>1. 0 \in 0..Len(f) /\ o \in 0..Len(f)
    OBVIOUS
  <2> QED
    BY <2>1, Middle
<1>3. /\ SubSeq(f, o + 1, l) \in Seq(Bytes) /\ Len(SubSeq(f, o + 1, l)) = l - o
      /\ \A i \in 1..(l - o) : SubSeq(f, o + 1, l)[i] = f[o + i]
  <2>1. o \in 0..Len(f) /\ l \in o..Len(f)
    BY <1>1
  <2> QED
    BY <2>1, Middle
<1>4. 0 + 1 = 1 /\ o - 0 = o
  OBVIOUS
<1>5. PICK s \in Seq(Bytes), t \in Seq(Bytes) : s = SubSeq(f, 1, o) /\ t = SubSeq(f, o + 1, l)
  BY <1>2, <1>3, <1>4
<1>6. Len(s) = o /\ \A i \in 1..o : s[i] = f[i]
  BY <1>2, <1>4, <1>5
<1>7. Len(t) = l - o /\ \A i \in 1..(l - o) : t[i] = f[o + i]
  BY <1>3, <1>5
<1>8. PICK z \in Seq(Bytes) : z = s \o t
  BY ConcatBytes
<1>9. /\ Len(z) = Len(s) + Len(t) /\ \A i \in 1..Len(s) : z[i] = s[i]
      /\ \A j \in 1..Len(t) : z[Len(s) + j] = t[j]
  BY <1>8, ConcatBytes
<1>10. Len(z) = l
  BY <1>1, <1>6, <1>7, <1>9
<1>11. ASSUME NEW i \in 1..l PROVE z[i] = f[i]
  <2>1. CASE i <= o
    BY <1>6, <1>9, <2>1
  <2>2. CASE i > o
    <3>1. PICK j \in 1..(l - o) : i = o + j
      <4>1. i - o \in 1..(l - o) /\ i = o + (i - o)
        BY <1>1, <2>2
      <4> QED
        BY <4>1
    <3> QED
      BY <1>6, <1>7, <1>9, <3>1
  <2> QED
    BY <2>1, <2>2
<1>12. z = f
  BY <1>1, <1>10, <1>11, Extensional
<1>13. SubSeq(f, 1, Len(f)) = f
  OBVIOUS
<1> QED
  BY <1>1, <1>5, <1>8, <1>12, <1>13

\* A read that meets the length taken before it goes on where the last one ended.
LEMMA PollReadReads ==
  ASSUME ReadInv, PollRead
  PROVE  ReadInv'
<1>1. UNCHANGED <<file, begun, rotations, backlog>> /\ stat # None /\ offset' = stat /\ stat' = None
      /\ overrun' = (overrun \/ Len(file) # stat)
  BY DEF PollRead, log
<1>2. /\ file \in Seq(Bytes) /\ buf \in Seq(Bytes) /\ offset \in Nat /\ stat \in Nat /\ batch = <<>>
      /\ backlog \in Seq(Nat) /\ overrun \in BOOLEAN
      /\ (rotations = 0 => offset <= Len(file) /\ stat <= Len(file))
  BY <1>1 DEF ReadInv
<1>3. PICK y : y = SubSeq(file, offset + 1, Len(file))
  OBVIOUS
<1>4. y \in Seq(Bytes)
  BY <1>2, <1>3
<1>5. PICK b \in Seq(Bytes) : b = buf \o y
  BY <1>2, <1>4, ConcatBytes
<1>6. buf' = Remainder(b) /\ batch' = Events(b)
  BY <1>3, <1>5 DEF PollRead
<1>7. buf' \in Seq(Bytes)
  BY <1>5, <1>6, LastEnd, RemainderIs
<1>8. batch' \in Seq(Nat)
  <2>1. PICK f : ReadsLog(b, f) /\ Events(b) = f[Len(b)]
    BY EventsRead
  <2>2. Len(b) \in 0..Len(b)
    OBVIOUS
  <2> QED
    BY <1>6, <2>1, <2>2, ReadsTyped
<1>9. ReadExactly'
  <2>1. SUFFICES ASSUME ~overrun, Len(file) = stat, rotations = 0
                 PROVE  Exact(file, stat, backlog, batch', buf')
    BY <1>1, <1>2, ExactNext
  <2>2. PICK x \in Seq(Bytes) : x = SubSeq(file, 1, offset)
    BY <1>2, <2>1, Cut
  <2>3. x \o y = file /\ SubSeq(file, 1, stat) = file
    BY <1>2, <1>3, <2>1, <2>2, Cut, Zenon
  <2>4. backlog \o batch = Events(x) /\ buf = Remainder(x)
    BY <2>1, <2>2, ExactIs, Zenon DEF ReadInv, Exact
  <2>5. backlog = Events(x)
    BY <1>2, <2>4, ConcatEmpty, Zenon
  <2>6. Events(x \o y) = Events(x) \o Events(Remainder(x) \o y)
        /\ Remainder(x \o y) = Remainder(Remainder(x) \o y)
    BY <1>4, SplitRead
  <2> QED
    BY <1>5, <1>6, <2>3, <2>4, <2>5, <2>6, Zenon DEF Exact
<1>10. rotations' = 0 => offset' <= Len(file')
  BY <1>1, <1>2
<1>11. /\ file' \in Seq(Bytes) /\ backlog' \in Seq(Nat) /\ begun' \in Nat /\ rotations' \in Nat
       /\ offset' \in Nat /\ overrun' \in BOOLEAN
  BY <1>1, <1>2 DEF ReadInv
<1> QED
  BY <1>1, <1>7, <1>8, <1>9, <1>10, <1>11 DEF ReadInv

\* Publishing moves an event from the batch to the backlog.
LEMMA PublishReads ==
  ASSUME ReadInv, Publish
  PROVE  ReadInv'
<1>1. UNCHANGED <<file, begun, rotations, stat, offset, buf, overrun>>
  BY DEF Publish, log, tailer
<1>2. backlog \in Seq(Nat) /\ batch \in Seq(Nat) /\ batch # <<>> /\ stat = None
  BY DEF Publish, ReadInv
<1>3. backlog' = Append(backlog, Head(batch)) /\ batch' = Tail(batch)
  BY DEF Publish
<1>4. backlog' \o batch' = backlog \o batch
  BY <1>2, <1>3, ReplayedDue
<1>5. backlog' \in Seq(Nat) /\ batch' \in Seq(Nat)
  BY <1>2, <1>3
<1>6. ReadExactly'
  BY <1>1, <1>4, Zenon DEF ReadInv, ReadExactly
<1> QED
  BY <1>1, <1>2, <1>5, <1>6 DEF ReadInv

LEMMA NextRead == ReadInv /\ [Next]_vars => ReadInv'
<1> SUFFICES ASSUME ReadInv, [Next]_vars PROVE ReadInv'
  OBVIOUS
<1>1. CASE Writer
  BY <1>1, WriterReads
<1>2. CASE PollStat
  BY <1>2, PollStatReads
<1>3. CASE PollRead
  BY <1>3, PollReadReads
<1>4. CASE Publish
  BY <1>4, PublishReads
<1>5. CASE Broadcast \/ (\E k \in Clients : Connect(k) \/ Stream(k) \/ Disconnect(k)) \/ UNCHANGED vars
  <2>1. UNCHANGED <<file, begun, rotations, stat, offset, buf, overrun, batch, backlog>>
    BY <1>5 DEF Broadcast, Connect, Stream, Replay, Receive, Disconnect, vars, log, tailer
  <2> QED
    BY <2>1 DEF ReadInv, ReadExactly
<1> QED
  BY <1>1, <1>2, <1>3, <1>4, <1>5 DEF Next, Poller

\* Tailer.poll, for any log, any interleaving of its writer with the polls, and any
\* cut of its lines between them: until the file is rotated or outgrows a length
\* just taken, every well-formed line before the offset is published or held once,
\* in order, and the buffer has the unfinished one.
THEOREM ReadsExactly == Spec => []ReadExactly
<1>1. ReadInv => ReadExactly
  BY DEF ReadInv
<1> QED
  BY InitRead, NextRead, <1>1, PTL DEF Spec

-----------------------------------------------------------------------------
(***************************************************************************)
(* The sweep of a directory.                                               *)
(***************************************************************************)
NoWrap == RetentionDays * DaySeconds <= MaxU64

LEMMA LessFactor ==
  ASSUME NEW a \in Int, NEW b \in Int, NEW d \in Nat \ {0}, a * d > b * d
  PROVE  a > b
<1> SUFFICES ASSUME a <= b PROVE FALSE
  OBVIOUS
<1>1. (b - a) * d >= 0
  OBVIOUS
<1>2. (b - a) * d = b * d - a * d
  OBVIOUS
<1> QED
  BY <1>1, <1>2

LEMMA EventDay ==
  ASSUME NEW events \in Seq(EventType), NEW i \in 1..Len(events)
  PROVE  events[i].day \in Nat
<1>1. events[i] \in EventType
  <2> DEFINE S == EventType
  <2>1. events \in Seq(S)
    OBVIOUS
  <2> HIDE DEF S
  <2>2. events[i] \in S
    BY <2>1
  <2> QED BY <2>2 DEF S
<1> QED
  BY <1>1 DEF EventType

LEMMA ExpiredOld ==
  ASSUME NoWrap, FilesInv, NEW key \in DOMAIN files, NEW now \in Nat, IsExpired(key, now)
  PROVE  \A i \in 1..Len(files[key]) : now - files[key][i].day > RetentionDays
<1>1. MaxAge = RetentionDays * DaySeconds
  BY AuditDirAssumption DEF NoWrap, MaxAge
<1>2. modified[key] \in Nat /\ (now - modified[key]) * DaySeconds > RetentionDays * DaySeconds
  BY <1>1 DEF FilesInv, IsExpired
<1>3. now - modified[key] > RetentionDays
  BY <1>2, LessFactor, AuditDirAssumption
<1>4. \A i \in 1..Len(files[key]) : files[key][i].day \in Nat /\ files[key][i].day <= modified[key]
  BY EventDay DEF FilesInv
<1> QED
  BY <1>2, <1>3, <1>4, AuditDirAssumption, SMTT(30)

LEMMA InitSweep == DirInit => FilesInv /\ SweepsInv
BY DEF DirInit, FilesInv, SweepsInv, SweepInv, NoFile
-----------------------------------------------------------------------------
(***************************************************************************)
(* An append.                                                              *)
(***************************************************************************)
LEMMA AppendShape ==
  ASSUME FilesInv, NEW key, NEW kind \in {"open", "exec", "blocked", "close"},
         AppendEvent(key, kind)
  PROVE  /\ DOMAIN files' = DOMAIN files \cup {key}
         /\ files' = [k \in DOMAIN files' |-> files'[k]]
         /\ modified' = [k \in DOMAIN files' |-> modified'[k]]
         /\ \A k \in DOMAIN files \ {key} : files'[k] = files[k] /\ modified'[k] = modified[k]
         /\ modified'[key] = today
         /\ files'[key] \in Seq(EventType)
         /\ \A i \in 1..Len(files'[key]) : files'[key][i].day <= today
<1> DEFINE event == [kind |-> kind, day |-> today]
           old == IF key \in DOMAIN files THEN files[key] ELSE <<>>
<1>1. files' = Put(files, key, Append(old, event)) /\ modified' = Put(modified, key, today)
  BY DEF AppendEvent
<1>2. DOMAIN modified = DOMAIN files
  BY DEF FilesInv
<1>3. event \in EventType
  BY DEF FilesInv, EventType
<1>4. old \in Seq(EventType) /\ \A i \in 1..Len(old) : old[i].day <= today
  <2>1. CASE key \in DOMAIN files
    BY <2>1, EventDay DEF FilesInv
  <2>2. CASE key \notin DOMAIN files
    BY <2>2
  <2> QED BY <2>1, <2>2
<1>5. files'[key] = Append(old, event) /\ modified'[key] = today
  BY <1>1 DEF Put
<1>6. /\ Append(old, event) \in Seq(EventType)
      /\ \A i \in 1..Len(Append(old, event)) : Append(old, event)[i].day <= today
  <2> HIDE DEF old
  <2>1. event.day <= today
    BY DEF FilesInv
  <2> HIDE DEF event
  <2> QED BY <1>3, <1>4, <2>1
<1> QED
  BY <1>1, <1>2, <1>5, <1>6 DEF Put

LEMMA AppendFiles ==
  ASSUME FilesInv, NEW key, NEW kind \in {"open", "exec", "blocked", "close"},
         AppendEvent(key, kind), today' = today
  PROVE  FilesInv'
<1> DEFINE Fits(k) == /\ files'[k] \in Seq(EventType) /\ modified'[k] \in 0..today
                      /\ \A i \in 1..Len(files'[k]) : files'[k][i].day <= modified'[k]
<1>1. Fits(key)
  <2>1. /\ modified'[key] = today /\ files'[key] \in Seq(EventType)
        /\ \A i \in 1..Len(files'[key]) : files'[key][i].day <= today
    BY AppendShape
  <2>2. today \in 0..today
    BY DEF FilesInv
  <2> QED BY <2>1, <2>2
<1>2. ASSUME NEW k \in DOMAIN files \ {key} PROVE Fits(k)
  <2>1. files'[k] = files[k] /\ modified'[k] = modified[k]
    BY AppendShape
  <2> QED BY <2>1 DEF FilesInv
<1>3. \A k \in DOMAIN files' : Fits(k)
  BY <1>1, <1>2, AppendShape, ZenonT(30)
<1> QED
  BY <1>3, AppendShape DEF FilesInv

\* A sweep that has the file on its list loses its claim to it.
LEMMA AppendSweeps ==
  ASSUME FilesInv, SweepsInv, NEW key, NEW kind \in {"open", "exec", "blocked", "close"},
         AppendEvent(key, kind), UNCHANGED <<run, runs, sweeping>>
  PROVE  SweepsInv'
<1>1. raced \subseteq raced' /\ ((\E s \in Servers : doomed[s] = key) => key \in raced')
  BY DEF AppendEvent
<1>2. /\ DOMAIN files' = DOMAIN files \cup {key}
      /\ \A k \in DOMAIN files \ {key} : files'[k] = files[k]
  BY AppendShape
<1>3. ASSUME NEW s \in Servers, doomed[s] \in DOMAIN files' \ (raced' \cup {NoFile})
      PROVE  /\ doomed[s] \in DOMAIN files \ (raced \cup {NoFile})
             /\ files'[doomed[s]] = files[doomed[s]]
  BY <1>1, <1>2, <1>3
<1> QED
  BY <1>3 DEF SweepsInv, SweepInv, sweeping
-----------------------------------------------------------------------------
\* The viewer only reads.
LEMMA ViewsElsewhere == Views => UNCHANGED <<today, serving, sweeping, directory>>
<1>1. Discover => UNCHANGED <<today, serving, sweeping, directory>>
  BY Zenon DEF Discover
<1>2. PollLength => UNCHANGED <<today, serving, sweeping, directory>>
  BY Zenon DEF PollLength
<1>3. PollToEnd => UNCHANGED <<today, serving, sweeping, directory>>
  BY Zenon DEF PollToEnd
<1>4. PollFails => UNCHANGED <<today, serving, sweeping, directory>>
  BY Zenon DEF PollFails
<1> QED
  BY <1>1, <1>2, <1>3, <1>4, Zenon DEF Views

LEMMA QuietKeeps ==
  ASSUME FilesInv, SweepsInv, UNCHANGED <<today, run, runs, sweeping, directory>>
  PROVE  FilesInv' /\ SweepsInv'
BY DEF FilesInv, SweepsInv, SweepInv, sweeping, directory

LEMMA StartKeeps ==
  ASSUME FilesInv, SweepsInv, NEW s \in Servers, Start(s)
  PROVE  FilesInv' /\ SweepsInv'
<1>1. FilesInv'
  BY DEF Start, FilesInv, directory
<1>2. today \in Nat /\ runs \in Nat /\ doomed[s] = NoFile
  BY DEF Start, FilesInv, SweepsInv, SweepInv
<1>3. runs' = runs + 1 /\ run' = [run EXCEPT ![s] = runs + 1] /\ sweepNow' = [sweepNow EXCEPT ![s] = today]
  BY DEF Start
<1>4. \E set : entries' = [entries EXCEPT ![s] = set]
  BY DEF Start
<1>5. UNCHANGED <<doomed, files, raced>>
  BY DEF Start, directory
<1>6. ASSUME NEW r \in Servers PROVE SweepInv(r)'
  <2>1. CASE r = s
    BY <1>2, <1>3, <1>5, <2>1 DEF SweepsInv, SweepInv
  <2>2. CASE r # s
    BY <1>3, <1>4, <1>5, <2>2 DEF SweepsInv, SweepInv
  <2> QED BY <2>1, <2>2
<1> QED
  BY <1>1, <1>2, <1>3, <1>4, <1>5, <1>6, SMTT(30) DEF SweepsInv

LEMMA SweepLookKeeps ==
  ASSUME NoWrap, FilesInv, SweepsInv, NEW s \in Servers, SweepLook(s)
  PROVE  FilesInv' /\ SweepsInv'
<1>1. FilesInv'
  BY DEF SweepLook, FilesInv, directory
<1>2. PICK key \in entries[s] :
        /\ entries' = [entries EXCEPT ![s] = @ \ {key}]
        /\ doomed' = [doomed EXCEPT ![s] =
             IF key \in DOMAIN files /\ IsExpired(key, sweepNow[s]) THEN key ELSE NoFile]
  BY DEF SweepLook
<1>3. run[s] # 0
  BY <1>2 DEF SweepsInv, SweepInv
<1>4. UNCHANGED <<run, runs, sweepNow, files, raced>>
  BY DEF SweepLook, serving, directory
<1>5. ASSUME doomed'[s] # NoFile
      PROVE  \A i \in 1..Len(files[doomed'[s]]) : sweepNow[s] - files[doomed'[s]][i].day > RetentionDays
  <2>1. doomed'[s] = key /\ key \in DOMAIN files /\ IsExpired(key, sweepNow[s])
    BY <1>2, <1>5 DEF SweepsInv
  <2>2. sweepNow[s] \in Nat
    BY DEF SweepsInv
  <2>3. PICK now \in Nat : now = sweepNow[s]
    BY <2>2
  <2> QED BY <2>1, <2>3, ExpiredOld
<1>6. ASSUME NEW r \in Servers PROVE SweepInv(r)'
  <2>1. CASE r = s
    BY <1>3, <1>4, <1>5, <2>1 DEF SweepsInv, SweepInv
  <2>2. CASE r # s
    BY <1>2, <1>4, <2>2 DEF SweepsInv, SweepInv
  <2> QED BY <2>1, <2>2
<1> QED
  BY <1>1, <1>2, <1>4, <1>6 DEF SweepsInv

LEMMA SweepRemoveKeeps ==
  ASSUME FilesInv, SweepsInv, NEW s \in Servers, SweepRemove(s)
  PROVE  FilesInv' /\ SweepsInv'
<1>1. /\ DOMAIN files' \subseteq DOMAIN files
      /\ files' = [k \in DOMAIN files' |-> files[k]]
      /\ modified' = [k \in DOMAIN files' |-> modified[k]]
  BY DEF SweepRemove, Without, FilesInv
<1>2. FilesInv'
  BY <1>1, ZenonT(30) DEF SweepRemove, FilesInv
<1>3. UNCHANGED <<run, runs, entries, sweepNow, raced>> /\ doomed' = [doomed EXCEPT ![s] = NoFile]
  BY DEF SweepRemove, serving
<1>4. ASSUME NEW r \in Servers PROVE SweepInv(r)'
  <2>1. CASE r = s
    BY <1>3, <2>1 DEF SweepsInv, SweepInv
  <2>2. CASE r # s
    BY <1>1, <1>3, <2>2 DEF SweepsInv, SweepInv
  <2> QED BY <2>1, <2>2
<1> QED
  BY <1>2, <1>3, <1>4 DEF SweepsInv

LEMMA StopKeeps ==
  ASSUME FilesInv, SweepsInv, NEW s \in Servers, Stop(s)
  PROVE  FilesInv' /\ SweepsInv'
<1>1. FilesInv'
  BY DEF Stop, FilesInv, directory
<1> QED
  BY <1>1 DEF Stop, SweepsInv, SweepInv, directory

LEMMA ClockKeeps ==
  ASSUME FilesInv, SweepsInv, ClockMoves
  PROVE  FilesInv' /\ SweepsInv'
<1>1. UNCHANGED <<files, modified, raced, run, runs, entries, sweepNow, doomed>> /\ today' = today + 1
  BY DEF ClockMoves, directory, serving, sweeping
<1> QED
  BY <1>1 DEF FilesInv, SweepsInv, SweepInv

LEMMA NextSweep == NoWrap /\ FilesInv /\ SweepsInv /\ [DirNext]_dirVars => FilesInv' /\ SweepsInv'
<1> SUFFICES ASSUME NoWrap, FilesInv, SweepsInv, [DirNext]_dirVars PROVE FilesInv' /\ SweepsInv'
  OBVIOUS
<1>1. CASE \E s \in Servers : Start(s) \/ SweepLook(s) \/ SweepRemove(s) \/ Stop(s)
  BY <1>1, StartKeeps, SweepLookKeeps, SweepRemoveKeeps, StopKeeps
<1>2. CASE \E s \in Servers : OpenSession(s)
  <2>1. PICK s \in Servers : OpenSession(s)
    BY <1>2
  <2>2. PICK key : key = <<run[s], opened[run[s]] + 1>>
    OBVIOUS
  <2>3. AppendEvent(key, "open") /\ UNCHANGED <<today, run, runs, sweeping>>
    BY <2>1, <2>2 DEF OpenSession
  <2> QED BY <2>3, AppendFiles, AppendSweeps
<1>3. CASE \E key \in live \cup calls : Call(key)
  BY <1>3, QuietKeeps DEF Call
<1>4. CASE \E key \in live \cup calls : CloseSession(key)
  BY <1>4, AppendFiles, AppendSweeps DEF CloseSession
<1>5. CASE \E key \in live \cup calls : \E kind \in {"exec", "blocked"} : Record(key, kind)
  BY <1>5, AppendFiles, AppendSweeps DEF Record
<1>6. CASE ClockMoves
  BY <1>6, ClockKeeps
<1>7. CASE Views
  <2>1. UNCHANGED <<today, serving, sweeping, directory>>
    BY <1>7, ViewsElsewhere
  <2> QED BY <2>1, QuietKeeps DEF serving
<1>8. CASE UNCHANGED dirVars
  BY <1>8, QuietKeeps DEF dirVars, serving
<1> QED
  BY <1>1, <1>2, <1>3, <1>4, <1>5, <1>6, <1>7, <1>8 DEF DirNext, Serves
-----------------------------------------------------------------------------
LEMMA OnlySweepRemoves ==
  ASSUME FilesInv, SweepsInv, DirNext
  PROVE  SweptWasOld
<1>1. CASE \E s \in Servers : SweepRemove(s)
  <2>1. PICK s \in Servers : SweepRemove(s)
    BY <1>1
  <2>2. DOMAIN files \ DOMAIN files' \subseteq {doomed[s]} /\ doomed[s] # NoFile
    BY <2>1 DEF SweepRemove, Without
  <2> QED BY <2>2 DEF SweptWasOld, SweepsInv, SweepInv
<1>2. CASE DOMAIN files \subseteq DOMAIN files'
  BY <1>2 DEF SweptWasOld
<1>3. ASSUME NEW key, NEW kind \in {"open", "exec", "blocked", "close"}, AppendEvent(key, kind)
      PROVE  DOMAIN files \subseteq DOMAIN files'
  BY <1>3, AppendShape
<1>4. CASE \E s \in Servers : OpenSession(s)
  <2>1. PICK s \in Servers : OpenSession(s)
    BY <1>4
  <2>2. \E key : AppendEvent(key, "open")
    BY <2>1 DEF OpenSession
  <2> QED BY <1>2, <1>3, <2>2
<1>5. CASE \E key \in live \cup calls :
             CloseSession(key) \/ \E kind \in {"exec", "blocked"} : Record(key, kind)
  BY <1>2, <1>3, <1>5 DEF CloseSession, Record
<1>6. CASE \/ \E s \in Servers : Start(s) \/ SweepLook(s) \/ Stop(s)
           \/ \E key \in live \cup calls : Call(key)
           \/ ClockMoves
  <2>1. files' = files
    BY <1>6 DEF Start, SweepLook, Stop, Call, ClockMoves, directory
  <2> QED BY <1>2, <2>1
<1>7. CASE Views
  <2>1. UNCHANGED directory
    BY <1>7, ViewsElsewhere
  <2> QED BY <1>2, <2>1 DEF directory
<1> QED
  BY <1>1, <1>4, <1>5, <1>6, <1>7 DEF DirNext, Serves

\* sweep, however many servers share the directory and whenever they start: it
\* removes no file with an event younger than the retention, races aside.
THEOREM NothingRecentSweptCorrect ==
  ASSUME NoWrap
  PROVE  DirSpec => NothingRecentSwept
<1>1. DirInit => FilesInv /\ SweepsInv
  BY InitSweep
<1>2. FilesInv /\ SweepsInv /\ [DirNext]_dirVars => (FilesInv /\ SweepsInv)'
  BY NextSweep
<1>3. FilesInv /\ SweepsInv /\ [DirNext]_dirVars => [SweptWasOld]_dirVars
  BY OnlySweepRemoves
<1> QED
  BY <1>1, <1>2, <1>3, PTL DEF DirSpec, NothingRecentSwept
-----------------------------------------------------------------------------
(***************************************************************************)
(* The viewer. Facts about numbers, keys and paths.                        *)
(***************************************************************************)
\* Every set of numbers has a first one.
LEMMA FirstExists ==
  ASSUME NEW T, T \subseteq Nat, T # {}
  PROVE  \E x \in T : \A y \in T : x <= y
<1> DEFINE R == OpToRel(<, Nat)
<1>1. IsWellFoundedOn(R, Nat)
  BY NatLessThanWellFounded, Zenon
<1> HIDE DEF R
<1>2. PICK x \in T : \A y \in T : ~(<<y, x>> \in R)
  BY <1>1, WFMin, Zenon
<1>3. ASSUME NEW y \in T PROVE x <= y
  <2>1. x \in Nat /\ y \in Nat /\ ~(<<y, x>> \in R)
    BY <1>2
  <2>2. y < x => <<y, x>> \in R
    BY <2>1 DEF R, OpToRel
  <2> QED
    BY <2>1, <2>2
<1> QED
  BY <1>3

LEMMA KeyParts ==
  ASSUME NEW k \in Keys
  PROVE  k[1] \in 1..MaxRuns /\ k[2] \in 1..MaxSessions /\ k = <<k[1], k[2]>>
BY DEF Keys

LEMMA NoFileNoKey == NoFile \notin Keys
BY AuditDirAssumption DEF NoFile, Keys

\* One of the paths is the first.
LEMMA FirstPathIn ==
  ASSUME NEW keys, keys \subseteq Keys, keys # {}
  PROVE  FirstPath(keys) \in keys
<1> DEFINE R == {k[1] : k \in keys}
<1>1. R \subseteq Nat /\ R # {}
  BY KeyParts, AuditDirAssumption
<1>2. PICK x \in R : \A y \in R : x <= y
  <2> HIDE DEF R
  <2> QED
    BY <1>1, FirstExists
<1>3. PICK a \in keys : x = a[1]
  OBVIOUS
<1> DEFINE B == {k \in keys : k[1] = a[1]}
           S == {k[2] : k \in B}
<1>4. S \subseteq Nat /\ S # {}
  <2>1. a \in B
    OBVIOUS
  <2>2. \A k \in B : k[2] \in Nat
    BY KeyParts, AuditDirAssumption
  <2> QED
    BY <2>1, <2>2
<1>5. PICK z \in S : \A y \in S : z <= y
  <2> HIDE DEF S
  <2> QED
    BY <1>4, FirstExists
<1>6. PICK b \in B : z = b[2]
  OBVIOUS
<1>7. ASSUME NEW k \in keys PROVE k = b \/ KeyOrder(b, k)
  <2>1. /\ k[1] \in Nat /\ k[2] \in Nat /\ b[1] \in Nat /\ b[2] \in Nat
        /\ k = <<k[1], k[2]>> /\ b = <<b[1], b[2]>> /\ b[1] = a[1]
    BY KeyParts, AuditDirAssumption
  <2>2. a[1] <= k[1]
    BY <1>2, <1>3
  <2>3. CASE k[1] # a[1]
    BY <2>1, <2>2, <2>3 DEF KeyOrder
  <2>4. CASE k[1] = a[1]
    <3>1. k \in B
      BY <2>4
    <3>2. b[2] <= k[2]
      BY <1>5, <1>6, <3>1
    <3>3. CASE k[2] = b[2]
      BY <2>1, <2>4, <3>3
    <3>4. CASE k[2] # b[2]
      BY <2>1, <2>4, <3>2, <3>4 DEF KeyOrder
    <3> QED
      BY <3>3, <3>4
  <2> QED
    BY <2>3, <2>4
<1>8. \E k \in keys : \A j \in keys : j = k \/ KeyOrder(k, j)
  BY <1>7
<1> QED
  BY <1>8, Zenon DEF FirstPath
-----------------------------------------------------------------------------
(***************************************************************************)
(* One event: push changes one view, or makes it.                          *)
(***************************************************************************)
LEMMA ViewFields ==
  ASSUME NEW seen \in View
  PROVE  /\ seen.key \in Keys /\ seen.closed \in BOOLEAN /\ seen.cmds \in Nat
         /\ seen.transcript \in Seq(EventType)
BY DEF View

\* One more event in a view that tells its events.
LEMMA PushedTells ==
  ASSUME NEW seen \in View, Tells(seen), NEW event \in EventType
  PROVE  /\ Pushed(seen, event) \in View /\ Tells(Pushed(seen, event))
         /\ Pushed(seen, event).key = seen.key
         /\ Pushed(seen, event).transcript = Append(seen.transcript, event)
<1> DEFINE S == EventType
<1>1. PICK old \in Seq(S) : old = seen.transcript
  BY ViewFields
<1>2. event \in S
  OBVIOUS
<1> HIDE DEF S
<1>3. PICK l \in Nat : l = Len(old)
  OBVIOUS
<1>4. Append(old, event) \in Seq(S)
  BY <1>2
<1>5. PICK new \in Seq(S) : new = Append(old, event)
  BY <1>4
<1>6. Len(new) = l + 1 /\ new[l + 1] = event /\ \A n \in 1..l : new[n] = old[n]
  BY <1>3, <1>5
<1>7. DOMAIN old = 1..l /\ DOMAIN new = 1..(l + 1)
  BY <1>3, <1>6
<1> DEFINE A == {n \in 1..l : old[n].kind = "exec"}
           B == {n \in 1..(l + 1) : new[n].kind = "exec"}
<1>8. B = IF event.kind = "exec" THEN A \cup {l + 1} ELSE A
  <2>1. \A n : n \in 1..(l + 1) <=> n \in 1..l \/ n = l + 1
    OBVIOUS
  <2>2. l + 1 \notin 1..l
    OBVIOUS
  <2> QED
    BY <1>6, <2>1, <2>2
<1>9. IsFiniteSet(A) /\ l + 1 \notin A
  <2>1. IsFiniteSet(1..l) /\ A \in SUBSET (1..l)
    BY FS_Interval
  <2>2. IsFiniteSet(A)
    BY <2>1, FS_Subset, Zenon
  <2>3. l + 1 \notin 1..l
    OBVIOUS
  <2> QED
    BY <2>1, <2>2, <2>3
<1> HIDE DEF A, B
<1>10. Cardinality(B) = Cardinality(A) + (IF event.kind = "exec" THEN 1 ELSE 0)
  <2>1. CASE event.kind = "exec"
    BY <1>8, <1>9, <2>1, FS_AddElement
  <2>2. CASE event.kind # "exec"
    <3>1. Cardinality(A) \in Nat
      BY <1>9, FS_CardinalityType
    <3> QED
      BY <1>8, <2>2, <3>1
  <2> QED
    BY <2>1, <2>2
<1>11. seen.cmds = Cardinality(A)
  BY <1>1, <1>7 DEF Tells, A
<1>12. (\E n \in 1..(l + 1) : new[n].kind = "close") <=>
         (event.kind = "close" \/ \E n \in 1..l : old[n].kind = "close")
  <2>1. \A n : n \in 1..(l + 1) <=> n \in 1..l \/ n = l + 1
    OBVIOUS
  <2> QED
    BY <1>6, <2>1
<1>13. seen.closed <=> \E n \in 1..l : old[n].kind = "close"
  BY <1>1, <1>7 DEF Tells
<1>14. PICK p : p = Pushed(seen, event)
  OBVIOUS
<1>15. /\ p = [key |-> seen.key, closed |-> seen.closed \/ event.kind = "close",
               cmds |-> seen.cmds + (IF event.kind = "exec" THEN 1 ELSE 0), transcript |-> new]
  BY <1>1, <1>5, <1>14 DEF Pushed
<1>16. /\ p.key = seen.key /\ p.closed = (seen.closed \/ event.kind = "close")
       /\ p.cmds = Cardinality(B) /\ p.transcript = new
  BY <1>10, <1>11, <1>15
<1>17. seen.key \in Keys /\ seen.closed \in BOOLEAN /\ seen.cmds \in Nat
  BY ViewFields
<1>18. p \in View
  BY <1>5, <1>15, <1>17 DEF View, S
<1>19. Tells(p)
  BY <1>7, <1>12, <1>13, <1>16 DEF Tells, B
<1> QED
  BY <1>1, <1>5, <1>14, <1>16, <1>18, <1>19

LEMMA NewViewTells ==
  ASSUME NEW key \in Keys
  PROVE  NewView(key) \in View /\ Tells(NewView(key)) /\ NewView(key).key = key
         /\ NewView(key).transcript = <<>>
<1>1. <<>> \in Seq(EventType)
  OBVIOUS
<1>2. NewView(key) \in View
  BY <1>1 DEF NewView, View
<1>3. DOMAIN <<>> = {}
  OBVIOUS
<1>4. Cardinality({}) = 0
  BY FS_EmptySet
<1>5. /\ NewView(key).closed = FALSE /\ NewView(key).cmds = 0 /\ NewView(key).transcript = <<>>
      /\ NewView(key).key = key
  BY DEF NewView
<1>6. {n \in DOMAIN <<>> : <<>>[n].kind = "exec"} = {} /\ ~\E n \in DOMAIN <<>> : <<>>[n].kind = "close"
  BY <1>3
<1> QED
  BY <1>2, <1>4, <1>5, <1>6 DEF Tells

\* push makes a view for an event of a new session, and changes only its own.
Changed(all, i, event) == [j \in 1..Len(all) |-> IF j = i THEN Pushed(all[i], event) ELSE all[j]]

LEMMA ApplyNew ==
  ASSUME NEW state \in Seq(View), NEW key \in Keys, NEW event, ViewsOf(state, key) = {}
  PROVE  LET all == Append(state, NewView(key))
         IN /\ all \in Seq(View) /\ Len(all) = Len(state) + 1 /\ Len(state) \in Nat
            /\ all[Len(all)] = NewView(key) /\ \A j \in 1..Len(state) : all[j] = state[j]
            /\ Apply1(state, key, event) = Changed(all, Len(all), event)
<1> DEFINE V == View
           all == Append(state, NewView(key))
<1>1. state \in Seq(V) /\ NewView(key) \in V
  BY NewViewTells
<1> HIDE DEF V
<1>2. /\ all \in Seq(V) /\ Len(all) = Len(state) + 1 /\ Len(state) \in Nat
      /\ all[Len(all)] = NewView(key) /\ \A j \in 1..Len(state) : all[j] = state[j]
  BY <1>1
<1>3. Len(all) \in 1..Len(all)
  BY <1>2
<1>4. {i \in DOMAIN state : state[i].key = key} = {}
  BY DEF ViewsOf
<1>5. PICK a : a = all
  OBVIOUS
<1>6. Apply1(state, key, event) = [a EXCEPT ![Len(a)] = Pushed(a[Len(a)], event)]
  BY <1>4, <1>5, Zenon DEF Apply1
<1>7. Apply1(state, key, event) = Changed(a, Len(a), event)
  <2>0. a \in Seq(V) /\ Len(a) \in 1..Len(a)
    BY <1>2, <1>3, <1>5
  <2> HIDE DEF all
  <2>1. a = [j \in 1..Len(a) |-> a[j]] /\ Len(a) \in 1..Len(a)
    BY <2>0
  <2> QED
    BY <1>6, <2>1 DEF Changed
<1> QED
  BY <1>2, <1>5, <1>7 DEF V

LEMMA ApplyThere ==
  ASSUME NEW state \in Seq(View), NEW key, NEW event, NEW i \in ViewsOf(state, key),
         \A j, k \in DOMAIN state : state[j].key = state[k].key => j = k
  PROVE  i \in 1..Len(state) /\ state[i].key = key /\ Apply1(state, key, event) = Changed(state, i, event)
<1> DEFINE at == {j \in DOMAIN state : state[j].key = key}
<1>1. at # {} /\ i \in at /\ \A j \in at : j = i
  BY DEF ViewsOf
<1> HIDE DEF at
<1>2. (CHOOSE j \in at : TRUE) = i
  BY <1>1
<1>3. Apply1(state, key, event) = [state EXCEPT ![i] = Pushed(state[i], event)]
  BY <1>1, <1>2, Zenon DEF Apply1, at
<1>4. DOMAIN state = 1..Len(state) /\ state = [j \in 1..Len(state) |-> state[j]]
  <2> DEFINE V == View
  <2>1. state \in Seq(V)
    OBVIOUS
  <2> HIDE DEF V
  <2> QED
    BY <2>1
<1>5. i \in DOMAIN state /\ state[i].key = key
  BY <1>1 DEF at
<1> QED
  BY <1>3, <1>4, <1>5 DEF Changed

\* One view is changed by an event of its session.
LEMMA ChangedKeeps ==
  ASSUME NEW all, ViewState(all), NEW i \in 1..Len(all), NEW event \in EventType
  PROVE  /\ ViewState(Changed(all, i, event))
         /\ \A k, events : Shows(all, k, events) =>
              Shows(Changed(all, i, event), k, IF all[i].key = k THEN Append(events, event) ELSE events)
<1> DEFINE V == View
<1>1. all \in Seq(V)
  BY DEF ViewState
<1>2. \A j \in 1..Len(all) : all[j] \in V /\ Tells(all[j])
  <2>1. DOMAIN all = 1..Len(all)
    BY <1>1
  <2>2. \A j \in 1..Len(all) : all[j] \in V
    <3> HIDE DEF V
    <3> QED
      BY <1>1
  <2> QED
    BY <2>1, <2>2 DEF ViewState
<1>3. PICK p : p = Pushed(all[i], event)
  OBVIOUS
<1>4. p \in V /\ Tells(p) /\ p.key = all[i].key /\ p.transcript = Append(all[i].transcript, event)
  BY <1>2, <1>3, PushedTells
<1>5. PICK l \in Nat : l = Len(all)
  <2> HIDE DEF V
  <2> QED
    BY <1>1
<1>6. PICK c : c = [j \in 1..l |-> IF j = i THEN p ELSE all[j]]
  OBVIOUS
<1>7. Changed(all, i, event) = c
  BY <1>3, <1>5, <1>6, Zenon DEF Changed
<1>8. c \in Seq(V) /\ DOMAIN c = 1..l /\ DOMAIN all = 1..l /\ c[i] = p
      /\ \A j \in 1..l : j # i => c[j] = all[j]
  <2> HIDE DEF V
  <2>1. \A j \in 1..l : all[j] \in V
    BY <1>2, <1>5
  <2> QED
    BY <1>1, <1>4, <1>5, <1>6, <2>1
<1>9. \A j \in 1..l : c[j].key = all[j].key
  BY <1>4, <1>8
<1>10. ViewState(c)
  <2>1. \A j, k \in DOMAIN c : c[j].key = c[k].key => j = k
    BY <1>8, <1>9 DEF ViewState
  <2>2. \A j \in DOMAIN c : Tells(c[j])
    BY <1>2, <1>4, <1>5, <1>8
  <2> QED
    BY <1>8, <2>1, <2>2 DEF ViewState
<1>11. ASSUME NEW k, NEW events, Shows(all, k, events)
       PROVE  Shows(c, k, IF all[i].key = k THEN Append(events, event) ELSE events)
  <2>1. \A j : j \in ViewsOf(c, k) <=> j \in ViewsOf(all, k)
    BY <1>8, <1>9 DEF ViewsOf
  <2>2. \A j \in ViewsOf(all, k) : j \in 1..l /\ all[j].key = k /\ all[j].transcript = events
    BY <1>8, <1>11 DEF ViewsOf, Shows
  <2>3. CASE all[i].key = k
    <3>1. i \in ViewsOf(all, k) /\ \A j \in ViewsOf(all, k) : j = i
      BY <1>5, <1>8, <2>2, <2>3 DEF ViewsOf, ViewState
    <3>2. c[i].transcript = Append(events, event)
      BY <1>4, <1>8, <2>2, <3>1
    <3> QED
      BY <2>1, <2>3, <3>1, <3>2 DEF Shows
  <2>4. CASE all[i].key # k
    <3>1. \A j \in ViewsOf(all, k) : c[j].transcript = events
      BY <1>8, <2>2, <2>4
    <3>2. ViewsOf(c, k) = {} => events = <<>>
      BY <1>11, <2>1 DEF Shows
    <3> QED
      BY <2>1, <2>4, <3>1, <3>2 DEF Shows
  <2> QED
    BY <2>3, <2>4
<1> QED
  BY <1>7, <1>10, <1>11

\* A new view shows nothing yet.
LEMMA NewViewKeeps ==
  ASSUME NEW state, ViewState(state), NEW key \in Keys, ViewsOf(state, key) = {}
  PROVE  /\ ViewState(Append(state, NewView(key)))
         /\ \A k, events : Shows(state, k, events) => Shows(Append(state, NewView(key)), k, events)
<1> DEFINE V == View
<1>1. state \in Seq(V) /\ NewView(key) \in V /\ Tells(NewView(key)) /\ NewView(key).key = key
      /\ NewView(key).transcript = <<>>
  BY NewViewTells DEF ViewState
<1>2. PICK l \in Nat : l = Len(state)
  <2> HIDE DEF V
  <2> QED
    BY <1>1
<1>3. PICK a : a = Append(state, NewView(key))
  OBVIOUS
<1>4. a \in Seq(V) /\ DOMAIN a = 1..(l + 1) /\ DOMAIN state = 1..l /\ a[l + 1] = NewView(key)
      /\ \A j \in 1..l : a[j] = state[j]
  <2> HIDE DEF V
  <2> QED
    BY <1>1, <1>2, <1>3
<1>5. \A j : j \in 1..(l + 1) <=> j \in 1..l \/ j = l + 1
  OBVIOUS
<1>6. l + 1 \notin 1..l
  OBVIOUS
<1>7. \A j \in 1..l : state[j].key # key
  BY <1>4 DEF ViewsOf
<1>8. ViewState(a)
  <2>1. \A j, k \in DOMAIN a : a[j].key = a[k].key => j = k
    BY <1>1, <1>4, <1>5, <1>7 DEF ViewState
  <2>2. \A j \in DOMAIN a : Tells(a[j])
    BY <1>1, <1>4, <1>5 DEF ViewState
  <2> QED
    BY <1>4, <2>1, <2>2 DEF ViewState
<1>9. ASSUME NEW k, NEW events, Shows(state, k, events) PROVE Shows(a, k, events)
  <2>1. \A j : j \in ViewsOf(a, k) <=> j \in ViewsOf(state, k) \/ (j = l + 1 /\ k = key)
    BY <1>1, <1>4, <1>5, <1>6 DEF ViewsOf
  <2>2. \A j \in ViewsOf(state, k) : j \in 1..l /\ state[j].transcript = events
    BY <1>4, <1>9 DEF ViewsOf, Shows
  <2>3. k = key => events = <<>>
    BY <1>9 DEF Shows
  <2>4. \A j \in ViewsOf(a, k) : a[j].transcript = events
    BY <1>1, <1>4, <2>1, <2>2, <2>3
  <2>5. ViewsOf(a, k) = {} => events = <<>>
    BY <1>9, <2>1 DEF Shows
  <2> QED
    BY <2>4, <2>5 DEF Shows
<1> QED
  BY <1>3, <1>8, <1>9

\* push: the views stay right, and the session of the event shows it.
LEMMA Apply1Keeps ==
  ASSUME NEW state, ViewState(state), NEW key \in Keys, NEW event \in EventType
  PROVE  /\ ViewState(Apply1(state, key, event))
         /\ \A k, events : Shows(state, k, events) =>
              Shows(Apply1(state, key, event), k, IF key = k THEN Append(events, event) ELSE events)
<1>1. state \in Seq(View)
  BY DEF ViewState
<1>2. CASE ViewsOf(state, key) = {}
  <2>1. PICK a : a = Append(state, NewView(key))
    OBVIOUS
  <2>2. /\ a \in Seq(View) /\ Len(a) = Len(state) + 1 /\ Len(state) \in Nat /\ a[Len(a)] = NewView(key)
        /\ Apply1(state, key, event) = Changed(a, Len(a), event)
    BY <1>1, <1>2, <2>1, ApplyNew, Zenon
  <2>3. ViewState(a) /\ \A k, events : Shows(state, k, events) => Shows(a, k, events)
    BY <1>2, <2>1, NewViewKeeps, Zenon
  <2>4. Len(a) \in 1..Len(a)
    BY <2>2
  <2>5. a[Len(a)].key = key
    BY <2>2, NewViewTells
  <2>6. /\ ViewState(Changed(a, Len(a), event))
        /\ \A k, events : Shows(a, k, events) =>
             Shows(Changed(a, Len(a), event), k, IF a[Len(a)].key = k THEN Append(events, event) ELSE events)
    BY <2>3, <2>4, ChangedKeeps, Zenon
  <2> QED
    BY <2>2, <2>3, <2>5, <2>6, Zenon
<1>3. CASE ViewsOf(state, key) # {}
  <2>1. PICK i : i \in ViewsOf(state, key)
    BY <1>3
  <2>2. i \in 1..Len(state) /\ state[i].key = key /\ Apply1(state, key, event) = Changed(state, i, event)
    <3>1. \A j, k \in DOMAIN state : state[j].key = state[k].key => j = k
      BY DEF ViewState
    <3> QED
      BY <1>1, <2>1, <3>1, ApplyThere
  <2>3. /\ ViewState(Changed(state, i, event))
        /\ \A k, events : Shows(state, k, events) =>
             Shows(Changed(state, i, event), k, IF state[i].key = k THEN Append(events, event) ELSE events)
    BY <2>2, ChangedKeeps, Zenon
  <2> QED
    BY <2>2, <2>3, Zenon
<1> QED
  BY <1>2, <1>3
-----------------------------------------------------------------------------
(***************************************************************************)
(* The events of one file.                                                 *)
(***************************************************************************)
\* The events of a file applied one after the other.
Applied(state, key, events, f) ==
  \A n \in 0..Len(events) : f[n] = IF n = 0 THEN state ELSE Apply1(f[n - 1], key, events[n])

LEMMA ApplySteps ==
  ASSUME NEW state, NEW key, NEW events \in Seq(EventType)
  PROVE  \E f : Applied(state, key, events, f) /\ ApplyAll(state, key, events) = f[Len(events)]
<1> DEFINE Step(x, n) == Apply1(x, key, events[n])
           Upto(n, f) == f = [i \in 0..n |-> IF i = 0 THEN state ELSE Step(f[i - 1], i)]
           T == {n \in Nat : \E f : Upto(n, f)}
<1>0. PICK l \in Nat : l = Len(events)
  <2> DEFINE S == EventType
  <2>1. events \in Seq(S)
    OBVIOUS
  <2> HIDE DEF S
  <2> QED
    BY <2>1
<1> HIDE DEF Step
<1>1. 0 \in T
  <2> DEFINE f == [i \in {0} |-> state]
  <2>1. 0..0 = {0}
    OBVIOUS
  <2>2. Upto(0, f)
    BY <2>1
  <2> QED
    BY <2>2
<1>2. ASSUME NEW n \in Nat, n \in T PROVE n + 1 \in T
  <2>1. PICK f : Upto(n, f)
    BY <1>2
  <2> DEFINE x == Step(f[n], n + 1)
  <2> HIDE DEF x
  <2> DEFINE g == [i \in 0..(n + 1) |-> IF i = n + 1 THEN x ELSE f[i]]
  <2>2. ASSUME NEW i \in 0..(n + 1)
        PROVE  g[i] = IF i = 0 THEN state ELSE Step(g[i - 1], i)
    <3>1. CASE i = 0
      <4>1. i \in 0..n /\ i # n + 1
        BY <3>1
      <4>2. f[i] = state
        BY <2>1, <3>1, <4>1
      <4> QED
        BY <3>1, <4>1, <4>2
    <3>2. CASE i = n + 1
      <4>1. i # 0 /\ i - 1 = n /\ n \in 0..(n + 1) /\ n # n + 1
        BY <3>2
      <4>2. g[i] = x /\ g[i - 1] = f[n]
        BY <3>2, <4>1
      <4> QED
        BY <3>2, <4>1, <4>2, Zenon DEF x
    <3>3. CASE i # 0 /\ i # n + 1
      <4>1. i \in 0..n /\ i - 1 \in 0..(n + 1) /\ i - 1 # n + 1
        BY <3>3
      <4>2. g[i] = f[i] /\ g[i - 1] = f[i - 1]
        BY <3>3, <4>1
      <4>3. f[i] = Step(f[i - 1], i)
        BY <2>1, <3>3, <4>1
      <4> QED
        BY <3>3, <4>2, <4>3, Zenon
    <3> QED
      BY <3>1, <3>2, <3>3
  <2>3. Upto(n + 1, g)
    BY <2>2
  <2>4. \E h : Upto(n + 1, h)
    BY <2>3, Zenon
  <2> HIDE DEF Upto
  <2> QED
    BY <2>4
<1> HIDE DEF T
<1>3. l \in T
  BY <1>0, <1>1, <1>2, SetInduction
<1>4. \E f : f = [n \in 0..l |-> IF n = 0 THEN state ELSE Apply1(f[n - 1], key, events[n])]
  BY <1>3, Zenon DEF T, Step
<1> DEFINE F == CHOOSE f : f = [n \in 0..l |-> IF n = 0 THEN state ELSE Apply1(f[n - 1], key, events[n])]
<1>5. F = [n \in 0..l |-> IF n = 0 THEN state ELSE Apply1(F[n - 1], key, events[n])]
  BY <1>4, Zenon
<1>6. ApplyAll(state, key, events) = F[l]
  BY <1>0, Zenon DEF ApplyAll
<1> HIDE DEF F
<1>7. Applied(state, key, events, F)
  BY <1>0, <1>5, Zenon DEF Applied
<1> QED
  BY <1>0, <1>6, <1>7

\* What is shown of a session, by how far its events w were read.
Read(w, m) == SubSeq(w, 1, m)

LEMMA ReadOn ==
  ASSUME NEW w \in Seq(EventType), NEW m \in 0..Len(w), m # Len(w)
  PROVE  Read(w, m + 1) = Append(Read(w, m), w[m + 1])
<1> DEFINE S == EventType
<1>1. PICK v \in Seq(S) : v = w
  OBVIOUS
<1> HIDE DEF S
<1>2. PICK l \in Nat : l = Len(v)
  OBVIOUS
<1>3. m \in 0..l /\ m # l
  BY <1>1, <1>2
<1>4. m \in Nat /\ m + 1 \in 0..l /\ m + 1 \in 1..l /\ \A i \in 1..m : i \in 1..l
  BY <1>3
<1>5. v[m + 1] \in S
  BY <1>2, <1>4
<1>6. PICK a \in Seq(S) : a = SubSeq(v, 1, m)
  <2>1. SubSeq(v, 1, m) \in Seq(S)
    BY <1>2, <1>4
  <2> QED
    BY <2>1, Zenon
<1>7. Len(a) = m /\ \A i \in 1..m : a[i] = v[i]
  BY <1>2, <1>4, <1>6
<1>8. PICK b \in Seq(S) : b = SubSeq(v, 1, m + 1)
  <2>1. SubSeq(v, 1, m + 1) \in Seq(S)
    BY <1>2, <1>4
  <2> QED
    BY <2>1, Zenon
<1>9. Len(b) = m + 1 /\ \A i \in 1..(m + 1) : b[i] = v[i]
  BY <1>2, <1>4, <1>8
<1>10. PICK c \in Seq(S) : c = Append(a, v[m + 1])
  <2>1. Append(a, v[m + 1]) \in Seq(S)
    BY <1>5, <1>6
  <2> QED
    BY <2>1, Zenon
<1>11. Len(c) = m + 1 /\ c[m + 1] = v[m + 1] /\ \A i \in 1..m : c[i] = v[i]
  BY <1>7, <1>10
<1>12. b = c
  <2>1. ASSUME NEW i \in 1..(m + 1) PROVE b[i] = c[i]
    <3>1. CASE i = m + 1
      BY <1>9, <1>11, <3>1
    <3>2. CASE i # m + 1
      <4>1. i \in 1..m
        BY <1>4, <3>2
      <4> QED
        BY <1>9, <1>11, <4>1
    <3> QED
      BY <3>1, <3>2
  <2>2. Len(b) = Len(c)
    BY <1>9, <1>11
  <2> QED
    BY <1>8, <1>9, <1>10, <2>1, <2>2
<1> QED
  BY <1>1, <1>6, <1>8, <1>10, <1>12 DEF Read

\* Reading all of it, or none.
LEMMA ReadAll ==
  ASSUME NEW w \in Seq(EventType)
  PROVE  Read(w, Len(w)) = w /\ Read(w, 0) = <<>> /\ Len(w) \in Nat
<1> DEFINE S == EventType
<1>1. PICK v \in Seq(S) : v = w
  OBVIOUS
<1> HIDE DEF S
<1>2. SubSeq(v, 1, Len(v)) = v /\ SubSeq(v, 1, 0) = <<>> /\ Len(v) \in Nat
  BY <1>1
<1> QED
  BY <1>1, <1>2 DEF Read

\* Reading the rest of a file.
LEMMA ApplyAllKeeps ==
  ASSUME NEW state, ViewState(state), NEW key \in Keys, NEW w \in Seq(EventType), NEW m \in 0..Len(w)
  PROVE  LET new == ApplyAll(state, key, SubSeq(w, m + 1, Len(w)))
         IN /\ ViewState(new)
            /\ Shows(state, key, Read(w, m)) => Shows(new, key, w)
            /\ \A k, events : k # key /\ Shows(state, k, events) => Shows(new, k, events)
<1> DEFINE S == EventType
           rest == SubSeq(w, m + 1, Len(w))
<1>1. PICK l \in Nat : l = Len(w)
  BY ReadAll
<1>2. w \in Seq(S)
  OBVIOUS
<1>3. m \in 0..l /\ l - m \in Nat
  BY <1>1
<1> HIDE DEF S
<1>4. rest \in Seq(S) /\ Len(rest) = l - m /\ \A n \in 1..(l - m) : rest[n] = w[m + n] /\ w[m + n] \in S
  BY <1>1, <1>2, <1>3, SMTT(30)
<1>5. PICK r : r = rest
  OBVIOUS
<1>6. r \in Seq(EventType) /\ Len(r) = l - m /\ \A n \in 1..(l - m) : r[n] = w[m + n] /\ r[n] \in EventType
  BY <1>4, <1>5 DEF S
<1> HIDE DEF rest
<1>7. PICK f : Applied(state, key, r, f) /\ ApplyAll(state, key, r) = f[Len(r)]
  BY <1>6, ApplySteps
<1>8. /\ f[0] = state
      /\ \A n \in 1..(l - m) : f[n] = Apply1(f[n - 1], key, r[n])
  <2>1. \A n \in 1..(l - m) : n \in 0..(l - m) /\ n # 0
    OBVIOUS
  <2>2. 0 \in 0..(l - m)
    BY <1>3
  <2> QED
    BY <1>6, <1>7, <2>1, <2>2 DEF Applied
<1> DEFINE P(n) == /\ ViewState(f[n])
                   /\ Shows(state, key, Read(w, m)) => Shows(f[n], key, Read(w, m + n))
                   /\ \A k, events : k # key /\ Shows(state, k, events) => Shows(f[n], k, events)
           T == {n \in Nat : n <= l - m => P(n)}
<1>9. P(0)
  <2>1. m + 0 = m
    BY <1>3
  <2> QED
    BY <1>8, <2>1, Zenon
<1>10. ASSUME NEW n \in 0..(l - m), n + 1 <= l - m, P(n) PROVE P(n + 1)
  <2>1. n + 1 \in 1..(l - m) /\ (n + 1) - 1 = n /\ m + (n + 1) = (m + n) + 1 /\ m + n \in 0..l /\ m + n # l
    BY <1>3, <1>10
  <2>2. f[n + 1] = Apply1(f[n], key, w[(m + n) + 1]) /\ w[(m + n) + 1] \in EventType
    BY <1>6, <1>8, <2>1
  <2>3. PICK a, e, x, y : a \in Nat /\ e \in EventType /\ a = m + n /\ e = w[a + 1] /\ x = f[n] /\ y = f[n + 1]
    <3>1. m + n \in Nat
      BY <2>1
    <3> QED
      BY <2>2, <3>1, Zenon
  <2>4. y = Apply1(x, key, e) /\ a \in 0..Len(w) /\ a # Len(w)
    BY <1>1, <2>1, <2>2, <2>3
  <2>5. Read(w, a + 1) = Append(Read(w, a), e)
    BY <2>3, <2>4, ReadOn
  <2>6. ViewState(x) /\ e \in EventType
    BY <1>10, <2>3, Zenon
  <2>7. /\ ViewState(y)
        /\ \A k, events : Shows(x, k, events) =>
             Shows(y, k, IF key = k THEN Append(events, e) ELSE events)
    BY <2>4, <2>6, Apply1Keeps, Zenon
  <2>8. Shows(x, key, Read(w, a)) => Shows(y, key, Read(w, a + 1))
    BY <2>5, <2>7, Zenon
  <2>9. \A k, events : k # key /\ Shows(x, k, events) => Shows(y, k, events)
    BY <2>7, Zenon
  <2>10. m + (n + 1) = a + 1
    BY <2>1, <2>3
  <2> QED
    BY <1>10, <2>3, <2>7, <2>8, <2>9, <2>10, Zenon
<1> HIDE DEF P
<1>11. 0 \in T
  BY <1>9
<1>12. ASSUME NEW n \in Nat, n \in T PROVE n + 1 \in T
  <2>1. ASSUME n + 1 <= l - m PROVE P(n + 1)
    <3>1. n \in 0..(l - m) /\ P(n)
      BY <1>3, <1>12, <2>1
    <3> QED
      BY <1>10, <2>1, <3>1
  <2> QED
    BY <2>1
<1> HIDE DEF T
<1>13. l - m \in T
  BY <1>3, <1>11, <1>12, SetInduction
<1>14. P(l - m)
  <2>1. l - m <= l - m
    BY <1>3
  <2> QED
    BY <1>13, <2>1 DEF T
<1>15. Read(w, m + (l - m)) = w
  <2>1. m + (l - m) = Len(w)
    BY <1>1, <1>3
  <2> QED
    BY <2>1, ReadAll, Zenon
<1>16. ApplyAll(state, key, SubSeq(w, m + 1, Len(w))) = f[l - m]
  BY <1>5, <1>6, <1>7, Zenon DEF rest
<1> QED
  BY <1>14, <1>15, <1>16, Zenon DEF P

\* Reading anything at all.
LEMMA AnyRead ==
  ASSUME NEW state, ViewState(state), NEW key \in Keys, NEW events \in Seq(EventType)
  PROVE  LET new == ApplyAll(state, key, events)
         IN /\ ViewState(new)
            /\ \A k, shown : k # key /\ Shows(state, k, shown) => Shows(new, k, shown)
<1>1. Len(events) \in Nat /\ SubSeq(events, 0 + 1, Len(events)) = events
  BY ReadAll DEF Read
<1>2. 0 \in 0..Len(events)
  BY <1>1
<1> QED
  BY <1>1, <1>2, ApplyAllKeeps, Zenon
-----------------------------------------------------------------------------
(***************************************************************************)
(* The inductive invariant, step by step. DirNext does one of five things  *)
(* to the directory and the viewer.                                        *)
(***************************************************************************)
Kinds == {"open", "exec", "blocked", "close"}
Elsewhere == UNCHANGED <<today, directory, viewer>>
Removes == \E s \in Servers : SweepRemove(s)
Appends == \E key \in Keys, kind \in Kinds : AppendEvent(key, kind) /\ UNCHANGED <<today, viewer>>

\* The key of a session that is opened is one of the model's.
LEMMA OpenKey ==
  ASSUME SessionsInv, NEW s \in Servers, OpenSession(s)
  PROVE  /\ <<run[s], opened[run[s]] + 1>> \in Keys
         /\ run[s] \in 1..MaxRuns /\ opened[run[s]] + 1 \in 0..MaxSessions
<1>1. run[s] \in 0..MaxRuns /\ run[s] # 0
  BY DEF SessionsInv, OpenSession, Serving
<1>2. PICK r : r = run[s]
  OBVIOUS
<1>3. r \in 1..MaxRuns
  BY <1>1, <1>2, AuditDirAssumption
<1>4. opened[r] \in 0..MaxSessions /\ opened[r] < MaxSessions
  BY <1>2, <1>3 DEF SessionsInv, OpenSession
<1>5. opened[r] + 1 \in 1..MaxSessions
  BY <1>4, AuditDirAssumption
<1> QED
  BY <1>2, <1>3, <1>5 DEF Keys

LEMMA SessionsNext ==
  ASSUME SessionsInv, [DirNext]_dirVars
  PROVE  SessionsInv' /\ (Elsewhere \/ Removes \/ Appends \/ ClockMoves \/ Views)
<1>1. CASE \E s \in Servers : Start(s)
  <2>1. PICK s \in Servers : Start(s)
    BY <1>1
  <2>2. runs' = runs + 1 /\ runs + 1 \in 0..MaxRuns /\ run' = [run EXCEPT ![s] = runs + 1]
        /\ UNCHANGED <<opened, live, calls, today, directory, viewer>>
    BY <2>1, AuditDirAssumption DEF Start, SessionsInv
  <2>3. SessionsInv'
    BY <2>2 DEF SessionsInv
  <2> QED
    BY <2>2, <2>3 DEF Elsewhere
<1>2. CASE \E s \in Servers : SweepLook(s)
  <2>1. UNCHANGED <<today, serving, directory, viewer>>
    BY <1>2 DEF SweepLook
  <2> QED
    BY <2>1 DEF Elsewhere, SessionsInv, serving
<1>3. CASE Removes
  <2>1. UNCHANGED serving
    BY <1>3 DEF Removes, SweepRemove
  <2> QED
    BY <1>3, <2>1 DEF SessionsInv, serving
<1>4. CASE \E s \in Servers : OpenSession(s)
  <2>1. PICK s \in Servers : OpenSession(s)
    BY <1>4
  <2>2. PICK key, r : r = run[s] /\ key = <<r, opened[r] + 1>>
    OBVIOUS
  <2>3. key \in Keys /\ r \in 1..MaxRuns /\ opened[r] + 1 \in 0..MaxSessions
    BY <2>1, <2>2, OpenKey, Zenon
  <2>4. AppendEvent(key, "open") /\ UNCHANGED <<today, viewer>>
    BY <2>1, <2>2 DEF OpenSession
  <2>5. /\ opened' = [opened EXCEPT ![r] = opened[r] + 1] /\ live' = live \cup {key}
        /\ UNCHANGED <<run, runs, calls>>
    BY <2>1, <2>2 DEF OpenSession
  <2>6. SessionsInv'
    BY <2>3, <2>5 DEF SessionsInv
  <2> QED
    BY <2>3, <2>4, <2>6 DEF Appends, Kinds
<1>5. CASE \E s \in Servers : Stop(s)
  <2>1. PICK s \in Servers : Stop(s)
    BY <1>5
  <2>2. run' = [run EXCEPT ![s] = 0] /\ live' \subseteq live /\ calls' \subseteq calls
        /\ UNCHANGED <<today, runs, opened, directory, viewer>>
    BY <2>1 DEF Stop
  <2>3. SessionsInv'
    BY <2>2, AuditDirAssumption DEF SessionsInv
  <2> QED
    BY <2>2, <2>3 DEF Elsewhere
<1>6. CASE \E key \in live \cup calls : Call(key)
  <2>1. PICK key : Call(key)
    BY <1>6
  <2>2. key \in live /\ calls' = calls \cup {key}
        /\ UNCHANGED <<today, run, runs, opened, live, directory, viewer>>
    BY <2>1 DEF Call
  <2> QED
    BY <2>2 DEF Elsewhere, SessionsInv
<1>7. CASE \E key \in live \cup calls : CloseSession(key)
  <2>1. PICK key \in live \cup calls : CloseSession(key)
    BY <1>7
  <2>2. key \in Keys
    BY DEF SessionsInv
  <2>3. AppendEvent(key, "close") /\ UNCHANGED <<today, viewer>> /\ live' \subseteq live
        /\ UNCHANGED <<run, runs, opened, calls>>
    BY <2>1 DEF CloseSession
  <2>4. SessionsInv'
    BY <2>3 DEF SessionsInv
  <2> QED
    BY <2>2, <2>3, <2>4 DEF Appends, Kinds
<1>8. CASE \E key \in live \cup calls : \E kind \in {"exec", "blocked"} : Record(key, kind)
  <2>1. PICK key \in live \cup calls : \E kind \in {"exec", "blocked"} : Record(key, kind)
    BY <1>8
  <2>2. PICK kind \in {"exec", "blocked"} : Record(key, kind)
    BY <2>1
  <2>3. key \in Keys
    BY DEF SessionsInv
  <2>4. AppendEvent(key, kind) /\ UNCHANGED <<today, viewer>> /\ calls' \subseteq calls
        /\ UNCHANGED <<run, runs, opened, live>>
    BY <2>2 DEF Record
  <2>5. SessionsInv'
    BY <2>4 DEF SessionsInv
  <2> QED
    BY <2>3, <2>4, <2>5 DEF Appends, Kinds
<1>9. CASE ClockMoves
  <2>1. UNCHANGED serving
    BY <1>9 DEF ClockMoves
  <2> QED
    BY <1>9, <2>1 DEF SessionsInv, serving
<1>10. CASE Views
  <2>1. UNCHANGED serving
    BY <1>10, ViewsElsewhere
  <2> QED
    BY <1>10, <2>1 DEF SessionsInv, serving
<1>11. CASE UNCHANGED dirVars
  BY <1>11 DEF Elsewhere, dirVars, SessionsInv, serving
<1> QED
  BY <1>1, <1>2, <1>3, <1>4, <1>5, <1>6, <1>7, <1>8, <1>9, <1>10, <1>11 DEF DirNext, Serves, Removes

\* What the viewer has, and what it has read.
DirInv == FilesInv /\ SessionsInv /\ HistoryInv /\ PollInv /\ ViewInv

LEMMA InitView == DirInit => DirInv
<1> SUFFICES ASSUME DirInit PROVE DirInv
  OBVIOUS
<1>1. FilesInv
  BY InitSweep
<1>2. SessionsInv
  BY AuditDirAssumption DEF DirInit, SessionsInv
<1>3. DOMAIN files = {} /\ DOMAIN tailers = {} /\ views = <<>> /\ swept = {} /\ written = [k \in Keys |-> <<>>]
      /\ tailers = <<>> /\ polling = {} /\ reading = NotReading
  BY DEF DirInit
<1>4. HistoryInv
  BY <1>3 DEF HistoryInv
<1>5. ViewState(views)
  <2>1. <<>> \in Seq(View) /\ DOMAIN <<>> = {}
    OBVIOUS
  <2> QED
    BY <1>3, <2>1 DEF ViewState
<1>6. ASSUME NEW k \in Keys
      PROVE  /\ ~TailerOf(k).half /\ TailerOf(k).offset <= Len(written[k])
             /\ Shows(views, k, SubSeq(written[k], 1, TailerOf(k).offset))
  <2>1. TailerOf(k).offset = 0 /\ ~TailerOf(k).half /\ written[k] = <<>>
    BY <1>3 DEF TailerOf, NewTailer
  <2>2. ViewsOf(views, k) = {}
    BY <1>3 DEF ViewsOf
  <2>3. SubSeq(<<>>, 1, 0) = <<>> /\ Len(<<>>) = 0
    OBVIOUS
  <2> QED
    BY <2>1, <2>2, <2>3 DEF Shows
<1>7. PollInv
  <2>1. <<>> \in Seq(EventType)
    OBVIOUS
  <2>2. reading \in [key : DOMAIN tailers \cup {NoFile}, len : Nat, gone : BOOLEAN, last : Seq(EventType)]
        /\ reading.key = NoFile
    BY <1>3, <2>1 DEF NotReading
  <2>3. tailers \in [DOMAIN tailers -> [offset : Nat, half : BOOLEAN]] /\ DOMAIN tailers \subseteq Keys
    BY <1>3
  <2> QED
    BY <1>3, <2>2, <2>3 DEF PollInv
<1> QED
  BY <1>1, <1>2, <1>4, <1>5, <1>6, <1>7 DEF DirInv, ViewInv

LEMMA QuietView ==
  ASSUME FilesInv, HistoryInv, PollInv, ViewInv, Elsewhere
  PROVE  FilesInv' /\ HistoryInv' /\ PollInv' /\ ViewInv'
<1>1. UNCHANGED <<today, files, modified, written, swept, viewer>>
  BY DEF Elsewhere, directory
<1>2. FilesInv' /\ HistoryInv'
  BY <1>1 DEF FilesInv, HistoryInv
<1>3. PollInv'
  BY <1>1 DEF PollInv, viewer
<1>4. ViewInv'
  BY <1>1 DEF ViewInv, TailerOf, viewer
<1> QED
  BY <1>2, <1>3, <1>4

LEMMA ClockView ==
  ASSUME FilesInv, HistoryInv, PollInv, ViewInv, ClockMoves
  PROVE  FilesInv' /\ HistoryInv' /\ PollInv' /\ ViewInv'
<1>1. UNCHANGED <<files, modified, written, swept, viewer>> /\ today' = today + 1
  BY DEF ClockMoves, directory
<1>2. FilesInv' /\ HistoryInv'
  BY <1>1 DEF FilesInv, HistoryInv
<1>3. PollInv'
  BY <1>1 DEF PollInv, viewer
<1>4. ViewInv'
  BY <1>1 DEF ViewInv, TailerOf, viewer
<1> QED
  BY <1>2, <1>3, <1>4

LEMMA RemoveView ==
  ASSUME FilesInv, HistoryInv, PollInv, ViewInv, NEW s \in Servers, SweepRemove(s)
  PROVE  FilesInv' /\ HistoryInv' /\ PollInv' /\ ViewInv'
<1>1. /\ DOMAIN files' = DOMAIN files \ {doomed[s]}
      /\ files' = [k \in DOMAIN files' |-> files[k]]
      /\ modified' = [k \in DOMAIN files' |-> modified[k]]
      /\ swept' = swept \cup {doomed[s]}
      /\ UNCHANGED <<today, written, tailers, polling, overtaken, views>>
  BY DEF SweepRemove, Without, FilesInv
<1>2. FilesInv'
  BY <1>1 DEF FilesInv
<1>3. HistoryInv'
  BY <1>1 DEF HistoryInv
<1>4. ViewInv'
  BY <1>1 DEF ViewInv, TailerOf
<1>5. PollInv'
  <2>1. doomed[s] # NoFile
        /\ reading' = IF reading.key = doomed[s] /\ ~reading.gone
                      THEN [reading EXCEPT !.gone = TRUE, !.last = files[doomed[s]]]
                      ELSE reading
    BY DEF SweepRemove
  <2>2. CASE reading.key = doomed[s] /\ ~reading.gone
    <3>1. files[doomed[s]] \in Seq(EventType)
      BY <2>1, <2>2 DEF PollInv, FilesInv
    <3>2. PICK held \in Seq(EventType) : held = files[doomed[s]]
      BY <3>1
    <3>3. reading' = [reading EXCEPT !.gone = TRUE, !.last = held]
      BY <2>1, <2>2, <3>2
    <3>4. /\ reading' \in [key : DOMAIN tailers \cup {NoFile}, len : Nat, gone : BOOLEAN, last : Seq(EventType)]
          /\ reading'.key = doomed[s] /\ reading'.gone
      BY <2>2, <3>3 DEF PollInv
    <3>5. doomed[s] \in swept'
      BY <1>1
    <3> QED
      BY <1>1, <2>1, <3>4, <3>5 DEF PollInv
  <2>3. CASE ~(reading.key = doomed[s] /\ ~reading.gone)
    <3>1. reading' = reading
      BY <2>1, <2>3
    <3>2. ASSUME reading.key # NoFile
          PROVE  /\ ~reading.gone => reading.key \in DOMAIN files'
                 /\ reading.key \notin swept' => ~reading.gone /\ reading.len <= Len(files'[reading.key])
      <4>1. /\ ~reading.gone => reading.key \in DOMAIN files
            /\ reading.key \notin swept => ~reading.gone /\ reading.len <= Len(files[reading.key])
        BY <3>2 DEF PollInv
      <4>2. ~reading.gone => reading.key \in DOMAIN files'
        BY <1>1, <2>3, <4>1
      <4>3. reading.key \notin swept' => reading.key \notin swept
        BY <1>1
      <4> QED BY <1>1, <4>1, <4>2, <4>3
    <3> QED
      BY <1>1, <3>1, <3>2 DEF PollInv
  <2> QED
    BY <2>2, <2>3
<1> QED
  BY <1>2, <1>3, <1>4, <1>5

LEMMA TailerType ==
  ASSUME PollInv, NEW k
  PROVE  TailerOf(k) \in [offset : Nat, half : BOOLEAN] /\ TailerOf(k).offset \in Nat
BY DEF TailerOf, PollInv, NewTailer

\* What was read of a session stays when it gets one more event.
LEMMA ReadStays ==
  ASSUME NEW w \in Seq(EventType), NEW e \in EventType, NEW m \in Nat, m <= Len(w)
  PROVE  /\ m <= Len(Append(w, e)) /\ SubSeq(Append(w, e), 1, m) = SubSeq(w, 1, m)
         /\ Append(w, e) \in Seq(EventType)
<1> DEFINE S == EventType
<1>1. PICK v \in Seq(S) : v = w
  OBVIOUS
<1>2. e \in S
  OBVIOUS
<1> HIDE DEF S
<1>3. PICK l \in Nat : l = Len(v)
  OBVIOUS
<1>4. m \in 0..l /\ m \in 0..(l + 1) /\ \A i \in 1..m : i \in 1..l
  BY <1>1, <1>3
<1>5. Append(v, e) \in Seq(S)
  BY <1>2
<1>6. PICK a \in Seq(S) : a = Append(v, e)
  BY <1>5, Zenon
<1>7. Len(a) = l + 1 /\ \A i \in 1..l : a[i] = v[i]
  BY <1>3, <1>6
<1>8. SubSeq(a, 1, m) = [i \in 1..m |-> a[i]]
  BY <1>4, <1>7
<1>9. SubSeq(v, 1, m) = [i \in 1..m |-> v[i]]
  BY <1>3, <1>4
<1>10. SubSeq(a, 1, m) = SubSeq(v, 1, m)
  BY <1>4, <1>7, <1>8, <1>9
<1>11. m <= Len(a)
  BY <1>4, <1>7
<1> QED
  BY <1>1, <1>5, <1>6, <1>10, <1>11, Zenon DEF S

LEMMA AppendView ==
  ASSUME FilesInv, HistoryInv, PollInv, ViewInv, NEW key \in Keys, NEW kind \in Kinds, AppendEvent(key, kind),
         UNCHANGED <<today, viewer>>
  PROVE  FilesInv' /\ HistoryInv' /\ PollInv' /\ ViewInv'
<1>1. kind \in {"open", "exec", "blocked", "close"}
  BY DEF Kinds
<1>2. FilesInv'
  BY <1>1, AppendFiles
<1>3. PICK event : event = [kind |-> kind, day |-> today]
  OBVIOUS
<1>4. event \in EventType
  BY <1>1, <1>3 DEF FilesInv, EventType
<1>5. PICK w : w = written[key]
  OBVIOUS
<1>6. w \in Seq(EventType)
  BY <1>5 DEF HistoryInv
<1>7. written' = [written EXCEPT ![key] = Append(w, event)] /\ swept' = swept
      /\ UNCHANGED <<tailers, polling, reading, overtaken, views>>
  BY <1>3, <1>5 DEF AppendEvent, viewer
<1>8. files' = Put(files, key, Append(IF key \in DOMAIN files THEN files[key] ELSE <<>>, event))
  BY <1>3 DEF AppendEvent
<1>9. /\ DOMAIN files' = DOMAIN files \cup {key} /\ \A k \in DOMAIN files \ {key} : files'[k] = files[k]
      /\ files'[key] = Append(IF key \in DOMAIN files THEN files[key] ELSE <<>>, event)
  BY <1>8 DEF Put
<1>10. Append(w, event) \in Seq(EventType)
  BY <1>4, <1>6
<1>11. written' \in [Keys -> Seq(EventType)] /\ written'[key] = Append(w, event)
       /\ \A k \in Keys \ {key} : written'[k] = written[k]
  BY <1>7, <1>10 DEF HistoryInv
<1>12. HistoryInv'
  <2>1. DOMAIN files' \subseteq Keys
    BY <1>9 DEF HistoryInv
  <2>2. ASSUME NEW k \in Keys \ swept' PROVE written'[k] = IF k \in DOMAIN files' THEN files'[k] ELSE <<>>
    <3>0. written[k] = IF k \in DOMAIN files THEN files[k] ELSE <<>>
      BY <1>7 DEF HistoryInv
    <3>1. CASE k = key
      <4>1. w = IF key \in DOMAIN files THEN files[key] ELSE <<>>
        BY <1>5, <3>0, <3>1, Zenon
      <4>2. files'[key] = Append(w, event) /\ key \in DOMAIN files'
        BY <1>9, <4>1, Zenon
      <4> QED
        BY <1>11, <3>1, <4>2, Zenon
    <3>2. CASE k # key
      <4>1. written'[k] = written[k] /\ (k \in DOMAIN files' <=> k \in DOMAIN files)
            /\ (k \in DOMAIN files => files'[k] = files[k])
        BY <1>9, <1>11, <3>2
      <4> QED
        BY <3>0, <4>1, Zenon
    <3> QED
      BY <3>1, <3>2
  <2> QED
    BY <1>11, <2>1, <2>2 DEF HistoryInv
<1>13. ViewInv'
  <2>1. \A k : TailerOf(k)' = TailerOf(k)
    BY <1>7 DEF TailerOf
  <2>2. ASSUME NEW k \in Keys \ (swept' \cup overtaken')
        PROVE  /\ ~TailerOf(k).half /\ TailerOf(k).offset <= Len(written'[k])
               /\ Shows(views, k, SubSeq(written'[k], 1, TailerOf(k).offset))
    <3>1. PICK m \in Nat : m = TailerOf(k).offset
      BY TailerType
    <3>2. ~TailerOf(k).half /\ m <= Len(written[k]) /\ Shows(views, k, SubSeq(written[k], 1, m))
      BY <1>7, <3>1 DEF ViewInv
    <3>3. m <= Len(written'[k]) /\ SubSeq(written'[k], 1, m) = SubSeq(written[k], 1, m)
      <4>1. CASE k = key
        <5>1. m <= Len(Append(w, event)) /\ SubSeq(Append(w, event), 1, m) = SubSeq(w, 1, m)
          BY <1>4, <1>5, <1>6, <3>2, <4>1, ReadStays
        <5> QED
          BY <1>5, <1>11, <4>1, <5>1, Zenon
      <4>2. CASE k # key
        BY <1>11, <3>2, <4>2
      <4> QED
        BY <4>1, <4>2
    <3> QED
      BY <3>1, <3>2, <3>3, Zenon
  <2>3. ViewState(views)' /\ views' = views
    BY <1>7 DEF ViewInv
  <2> QED
    BY <2>1, <2>2, <2>3 DEF ViewInv
<1>14. PollInv'
  <2>1. ASSUME reading.key # NoFile
        PROVE  /\ ~reading.gone => reading.key \in DOMAIN files'
               /\ reading.key \notin swept => ~reading.gone /\ reading.len <= Len(files'[reading.key])
    <3>1. /\ ~reading.gone => reading.key \in DOMAIN files
          /\ reading.key \notin swept => ~reading.gone /\ reading.len <= Len(files[reading.key])
          /\ reading.len \in Nat
      BY <2>1 DEF PollInv
    <3>2. ~reading.gone => reading.key \in DOMAIN files'
      BY <1>9, <3>1
    <3>3. ASSUME reading.key \notin swept PROVE reading.len <= Len(files'[reading.key])
      <4>1. CASE reading.key = key
        <5>1. key \in DOMAIN files
          BY <3>1, <3>3, <4>1
        <5>2. PICK f \in Seq(EventType) : f = files[key]
          BY <5>1 DEF FilesInv
        <5>3. files'[key] = Append(f, event)
          BY <1>9, <5>1, <5>2
        <5>4. reading.len <= Len(f)
          BY <3>1, <3>3, <4>1, <5>2
        <5> QED BY <1>4, <3>1, <4>1, <5>3, <5>4, ReadStays
      <4>2. CASE reading.key # key
        BY <1>9, <3>1, <3>3, <4>2
      <4> QED BY <4>1, <4>2
    <3> QED BY <3>1, <3>2, <3>3
  <2> QED
    BY <1>7, <2>1 DEF PollInv
<1> QED
  BY <1>2, <1>12, <1>13, <1>14

LEMMA DiscoverView ==
  ASSUME FilesInv, HistoryInv, PollInv, ViewInv, Discover
  PROVE  FilesInv' /\ HistoryInv' /\ PollInv' /\ ViewInv'
<1>1. /\ UNCHANGED <<today, files, modified, written, swept, reading, overtaken, views>>
      /\ tailers' = Discovered /\ polling' = DOMAIN Discovered /\ reading = NotReading
  BY DEF Discover, directory
<1>2. FilesInv' /\ HistoryInv'
  BY <1>1 DEF FilesInv, HistoryInv
<1>3. NewTailer \in [offset : Nat, half : BOOLEAN]
  BY DEF NewTailer
<1>4. /\ DOMAIN Discovered = DOMAIN tailers \cup DOMAIN files
      /\ Discovered \in [DOMAIN Discovered -> [offset : Nat, half : BOOLEAN]]
      /\ DOMAIN Discovered \subseteq Keys
  BY <1>3 DEF Discovered, PollInv, HistoryInv
<1>5. PollInv'
  BY <1>1, <1>4 DEF PollInv, NotReading
<1>6. \A k : TailerOf(k)' = TailerOf(k)
  BY <1>1, <1>4 DEF TailerOf, Discovered
<1>7. ViewInv'
  BY <1>1, <1>6 DEF ViewInv
<1> QED
  BY <1>2, <1>5, <1>7

LEMMA PollLengthView ==
  ASSUME FilesInv, HistoryInv, PollInv, ViewInv, PollLength
  PROVE  FilesInv' /\ HistoryInv' /\ PollInv' /\ ViewInv'
<1>1. PICK key : key = FirstPath(polling)
  OBVIOUS
<1>2. /\ UNCHANGED <<today, files, modified, written, swept, overtaken, views>>
      /\ polling # {} /\ reading = NotReading /\ polling' = polling \ {key}
      /\ \/ key \notin DOMAIN files /\ UNCHANGED <<tailers, reading>>
         \/ /\ key \in DOMAIN files
            /\ tailers' = [tailers EXCEPT ![key] = Rewound(tailers[key], Len(files[key]))]
            /\ reading' = IF Len(files[key]) = Rewound(tailers[key], Len(files[key])).offset
                          THEN NotReading
                          ELSE [NotReading EXCEPT !.key = key, !.len = Len(files[key])]
  BY <1>1 DEF PollLength, directory
<1>3. key \in polling /\ key \in DOMAIN tailers /\ key \in Keys /\ key # NoFile
  BY <1>1, <1>2, FirstPathIn, NoFileNoKey DEF PollInv
<1>4. FilesInv' /\ HistoryInv'
  BY <1>2 DEF FilesInv, HistoryInv
<1>5. CASE key \notin DOMAIN files
  <2>1. UNCHANGED <<tailers, reading>>
    BY <1>2, <1>5
  <2>2. PollInv'
    BY <1>2, <2>1 DEF PollInv
  <2>3. ViewInv'
    BY <1>2, <2>1 DEF ViewInv, TailerOf
  <2> QED BY <1>4, <2>2, <2>3
<1>6. CASE key \in DOMAIN files
  <2>1. PICK len \in Nat : len = Len(files[key])
    BY <1>6, ReadAll DEF FilesInv
  <2>2. PICK cursor \in [offset : Nat, half : BOOLEAN] : cursor = Rewound(tailers[key], len)
    BY <1>3 DEF Rewound, NewTailer, PollInv
  <2>3. /\ tailers' = [tailers EXCEPT ![key] = cursor]
        /\ reading' \in {NotReading, [NotReading EXCEPT !.key = key, !.len = len]}
    BY <1>2, <1>6, <2>1, <2>2
  <2>4. DOMAIN tailers' = DOMAIN tailers /\ tailers' \in [DOMAIN tailers' -> [offset : Nat, half : BOOLEAN]]
    BY <2>3 DEF PollInv
  <2>5. PollInv'
    <3>1. <<>> \in Seq(EventType)
      OBVIOUS
    <3>2. CASE reading' = NotReading
      BY <1>2, <2>4, <3>1, <3>2 DEF PollInv, NotReading
    <3>3. CASE reading' = [NotReading EXCEPT !.key = key, !.len = len]
      <4>1. reading' = [key |-> key, len |-> len, gone |-> FALSE, last |-> <<>>]
        BY <3>3 DEF NotReading
      <4>2. /\ reading' \in [key : DOMAIN tailers \cup {NoFile}, len : Nat, gone : BOOLEAN, last : Seq(EventType)]
            /\ reading'.key = key /\ reading'.len = len /\ ~reading'.gone
        BY <1>3, <3>1, <4>1
      <4>3. len <= Len(files'[key]) /\ key \in DOMAIN files'
        BY <1>2, <1>6, <2>1
      <4> QED BY <1>2, <1>3, <2>4, <4>2, <4>3 DEF PollInv
    <3> QED BY <2>3, <3>2, <3>3
  <2>6. ViewInv'
    <3>1. ASSUME NEW k \in Keys \ (swept \cup overtaken) PROVE TailerOf(k)' = TailerOf(k)
      <4>1. CASE k # key
        BY <2>3, <4>1 DEF TailerOf
      <4>2. CASE k = key
        <5>1. TailerOf(k) = tailers[key] /\ TailerOf(k).offset \in Nat
          BY <1>3, <4>2, TailerType DEF TailerOf
        <5>2. TailerOf(k).offset <= Len(written[k]) /\ written[k] = files[key]
          BY <1>6, <4>2 DEF ViewInv, HistoryInv
        <5>3. cursor = tailers[key]
          BY <2>1, <2>2, <5>1, <5>2 DEF Rewound
        <5> QED BY <1>3, <2>3, <2>4, <4>2, <5>1, <5>3 DEF TailerOf, PollInv
      <4> QED BY <4>1, <4>2
    <3> QED BY <1>2, <3>1 DEF ViewInv
  <2> QED BY <1>4, <2>5, <2>6
<1> QED
  BY <1>5, <1>6

\* The open file, and what is read of it.
LEMMA HeldEvents ==
  ASSUME FilesInv, PollInv, reading # NotReading
  PROVE  /\ reading.key \in DOMAIN tailers /\ reading.key \in Keys /\ reading.len \in Nat
         /\ Held \in Seq(EventType) /\ Len(Held) \in Nat
         /\ \A to \in ReadEnds : Unread(to) \in Seq(EventType)
<1>1. reading.key # NoFile /\ reading.key \in DOMAIN tailers /\ reading.key \in Keys /\ reading.len \in Nat
  BY DEF PollInv
<1>2. Held \in Seq(EventType)
  BY <1>1 DEF Held, PollInv, FilesInv
<1>3. PICK held \in Seq(EventType) : held = Held
  BY <1>2
<1>4. Len(held) \in Nat
  BY ReadAll
<1>5. ASSUME NEW to \in ReadEnds PROVE Unread(to) \in Seq(EventType)
  <2>1. to <= Len(held) /\ to \in Int
    BY <1>3, <1>4, <1>5 DEF ReadEnds
  <2>2. PICK o \in Nat : o = tailers[reading.key].offset
    BY <1>1 DEF PollInv
  <2> DEFINE skip == IF tailers[reading.key].half THEN 2 ELSE 1
  <2>3. Unread(to) = SubSeq(held, o + skip, to) /\ o + skip \in Nat \ {0}
    <3>1. Unread(to) = SubSeq(held, o + skip, to)
      BY <1>3, <2>2, Zenon DEF Unread
    <3>2. skip \in {1, 2}
      OBVIOUS
    <3> QED
      BY <3>1, <3>2
  <2> DEFINE S == EventType
  <2>4. held \in Seq(S)
    OBVIOUS
  <2> HIDE DEF S
  <2> HIDE DEF skip
  <2>5. SubSeq(held, o + skip, to) \in Seq(S)
    BY <1>4, <2>1, <2>3, <2>4
  <2> QED BY <2>3, <2>5 DEF S
<1> QED
  BY <1>1, <1>2, <1>3, <1>4, <1>5

LEMMA PollToEndView ==
  ASSUME FilesInv, HistoryInv, PollInv, ViewInv, PollToEnd
  PROVE  FilesInv' /\ HistoryInv' /\ PollInv' /\ ViewInv'
<1>1. PICK key : key = reading.key
  OBVIOUS
<1>2. PICK to \in ReadEnds :
        /\ views' = ApplyAll(views, key, Unread(to))
        /\ tailers' = [tailers EXCEPT ![key] = [offset |-> reading.len, half |-> to < Len(Held)]]
  BY <1>1, Zenon DEF PollToEnd
<1>3. /\ UNCHANGED <<today, files, modified, written, swept, polling>>
      /\ reading # NotReading /\ reading' = NotReading
      /\ overtaken' = IF Len(Held) > reading.len THEN overtaken \cup {key} ELSE overtaken
  BY <1>1, Zenon DEF PollToEnd, directory
<1>4. /\ key \in DOMAIN tailers /\ key \in Keys /\ reading.len \in Nat /\ Held \in Seq(EventType)
      /\ Len(Held) \in Nat /\ Unread(to) \in Seq(EventType)
  BY <1>1, <1>3, HeldEvents
<1>5. FilesInv' /\ HistoryInv'
  BY <1>3 DEF FilesInv, HistoryInv
<1>6. PICK cursor \in [offset : Nat, half : BOOLEAN] :
        cursor.offset = reading.len /\ (cursor.half <=> to < Len(Held))
        /\ tailers' = [tailers EXCEPT ![key] = cursor]
  <2>1. CASE to < Len(Held)
    <3>1. [offset |-> reading.len, half |-> to < Len(Held)] = [offset |-> reading.len, half |-> TRUE]
      BY <2>1
    <3> QED BY <1>2, <1>4, <2>1, <3>1
  <2>2. CASE ~(to < Len(Held))
    <3>1. (to < Len(Held)) = FALSE
      <4>1. to \in Int
        BY <1>4 DEF ReadEnds
      <4> QED BY <1>4, <2>2, <4>1
    <3>2. [offset |-> reading.len, half |-> to < Len(Held)] = [offset |-> reading.len, half |-> FALSE]
      BY <3>1
    <3> QED BY <1>2, <1>4, <2>2, <3>2
  <2> QED BY <2>1, <2>2
<1>7. PollInv'
  <2>1. DOMAIN tailers' = DOMAIN tailers /\ tailers' \in [DOMAIN tailers' -> [offset : Nat, half : BOOLEAN]]
    BY <1>6 DEF PollInv
  <2>2. <<>> \in Seq(EventType)
    OBVIOUS
  <2> QED BY <1>3, <2>1, <2>2 DEF PollInv, NotReading
<1>8. /\ ViewState(views')
      /\ \A k, shown : k # key /\ Shows(views, k, shown) => Shows(views', k, shown)
  BY <1>2, <1>4, AnyRead, Zenon DEF ViewInv
<1>9. ASSUME NEW k \in Keys \ (swept \cup overtaken')
      PROVE  /\ ~TailerOf(k)'.half /\ TailerOf(k)'.offset <= Len(written[k])
             /\ Shows(views', k, SubSeq(written[k], 1, TailerOf(k)'.offset))
  <2>1. k \notin overtaken
    BY <1>3
  <2>2. /\ ~TailerOf(k).half /\ TailerOf(k).offset <= Len(written[k]) /\ TailerOf(k).offset \in Nat
        /\ Shows(views, k, SubSeq(written[k], 1, TailerOf(k).offset))
    BY <2>1, TailerType DEF ViewInv
  <2>3. CASE k # key
    <3>1. TailerOf(k)' = TailerOf(k)
      BY <1>6, <2>3 DEF TailerOf
    <3> QED BY <1>8, <2>2, <2>3, <3>1, Zenon
  <2>4. CASE k = key
    <3>1. ~reading.gone /\ reading.len <= Len(files[key]) /\ key \in DOMAIN files
      BY <1>1, <1>4, <2>4, NoFileNoKey DEF PollInv
    <3>2. PICK w \in Seq(EventType) : w = files[key]
      BY <3>1 DEF FilesInv
    <3>3. Held = w /\ written[k] = w
      BY <1>1, <2>4, <3>1, <3>2 DEF Held, HistoryInv
    <3>4. ~(Len(Held) > reading.len)
      BY <1>3, <2>4
    <3>5. reading.len = Len(w) /\ to = Len(w)
      <4>1. reading.len <= Len(w) /\ Len(w) \in Nat
        BY <1>4, <3>1, <3>2, <3>3
      <4>2. ReadEnds = {Len(w)}
        BY <3>3, <3>4 DEF ReadEnds
      <4> QED BY <1>4, <3>3, <3>4, <4>1, <4>2
    <3>6. PICK m \in 0..Len(w) : m = TailerOf(k).offset
      BY <1>4, <2>2, <3>3
    <3>7. tailers[key] = TailerOf(k)
      BY <1>4, <2>4 DEF TailerOf
    <3>8. Unread(to) = SubSeq(w, m + 1, Len(w))
      BY <1>1, <2>2, <3>3, <3>5, <3>6, <3>7 DEF Unread
    <3>9. Shows(views, key, Read(w, m))
      BY <2>2, <2>4, <3>3, <3>6 DEF Read
    <3>10. Shows(views', key, w)
      BY <1>2, <1>4, <3>8, <3>9, ApplyAllKeeps, Zenon DEF ViewInv
    <3>11. TailerOf(k)' = cursor
      BY <1>4, <1>6, <2>4 DEF TailerOf
    <3>12. cursor.offset = Len(w) /\ ~cursor.half
      BY <1>4, <1>6, <3>3, <3>5
    <3>13. SubSeq(w, 1, Len(w)) = w /\ Len(w) \in Nat /\ Len(w) <= Len(w)
      BY <1>4, <3>3, ReadAll DEF Read
    <3> QED BY <2>4, <3>3, <3>10, <3>11, <3>12, <3>13, Zenon
  <2> QED BY <2>3, <2>4
<1>10. ViewInv'
  BY <1>3, <1>8, <1>9 DEF ViewInv
<1> QED
  BY <1>5, <1>7, <1>10

LEMMA PollFailsView ==
  ASSUME FilesInv, HistoryInv, PollInv, ViewInv, PollFails
  PROVE  FilesInv' /\ HistoryInv' /\ PollInv' /\ ViewInv'
<1>1. /\ UNCHANGED <<today, files, modified, written, swept, tailers, polling, overtaken, views>>
      /\ reading' = NotReading
  BY DEF PollFails, directory
<1>2. FilesInv' /\ HistoryInv'
  BY <1>1 DEF FilesInv, HistoryInv
<1>3. PollInv'
  <2>1. <<>> \in Seq(EventType)
    OBVIOUS
  <2> QED BY <1>1, <2>1 DEF PollInv, NotReading
<1>4. ViewInv'
  BY <1>1 DEF ViewInv, TailerOf
<1> QED
  BY <1>2, <1>3, <1>4

LEMMA NextView == DirInv /\ [DirNext]_dirVars => DirInv'
<1> SUFFICES ASSUME FilesInv, SessionsInv, HistoryInv, PollInv, ViewInv, [DirNext]_dirVars
             PROVE  FilesInv' /\ SessionsInv' /\ HistoryInv' /\ PollInv' /\ ViewInv'
  BY DEF DirInv
<1>1. SessionsInv' /\ (Elsewhere \/ Removes \/ Appends \/ ClockMoves \/ Views)
  BY SessionsNext
<1>2. CASE Elsewhere
  BY <1>1, <1>2, QuietView
<1>3. CASE Removes
  BY <1>1, <1>3, RemoveView DEF Removes
<1>4. CASE Appends
  BY <1>1, <1>4, AppendView DEF Appends
<1>5. CASE ClockMoves
  BY <1>1, <1>5, ClockView
<1>6. CASE Views
  BY <1>1, <1>6, DiscoverView, PollLengthView, PollToEndView, PollFailsView DEF Views
<1> QED
  BY <1>1, <1>2, <1>3, <1>4, <1>5, <1>6
-----------------------------------------------------------------------------
LEMMA ReadIsPrefix ==
  ASSUME NEW w \in Seq(EventType), NEW m \in Nat, m <= Len(w)
  PROVE  IsPrefix(Read(w, m), w)
<1> DEFINE S == EventType
<1>1. PICK v \in Seq(S) : v = w
  OBVIOUS
<1> HIDE DEF S
<1>2. PICK l \in Nat : l = Len(v)
  OBVIOUS
<1>3. m \in 0..l /\ \A i \in 1..m : i \in 1..l
  BY <1>1, <1>2
<1>4. PICK a : a = SubSeq(v, 1, m)
  OBVIOUS
<1>5. Len(a) = m /\ a \in Seq(S)
  BY <1>2, <1>3, <1>4
<1>6. SubSeq(a, 1, m) = a
  BY <1>5
<1>7. Len(a) <= l /\ SubSeq(a, 1, Len(a)) = SubSeq(v, 1, Len(a))
  BY <1>3, <1>4, <1>5, <1>6
<1> QED
  BY <1>1, <1>2, <1>4, <1>7 DEF Read, IsPrefix

LEMMA ViewsExact == DirInv => ViewExact
<1> SUFFICES ASSUME FilesInv, HistoryInv, PollInv, ViewInv PROVE ViewExact
  BY DEF DirInv
<1>1. \A i, j \in DOMAIN views : views[i].key = views[j].key => i = j
  BY DEF ViewInv, ViewState
<1>2. ASSUME NEW i \in DOMAIN views
      PROVE  Tells(views[i]) /\ views[i].key \in Keys
  <2> DEFINE V == View
  <2>1. views \in Seq(V)
    BY DEF ViewInv, ViewState
  <2>2. views[i] \in V
    <3> HIDE DEF V
    <3> QED
      BY <2>1
  <2>3. Tells(views[i])
    BY DEF ViewInv, ViewState
  <2> QED
    BY <2>2, <2>3, ViewFields
<1>3. ASSUME NEW i \in DOMAIN views, views[i].key \notin swept \cup overtaken
      PROVE  /\ IsPrefix(views[i].transcript, written[views[i].key])
             /\ views[i].key \in ListSessions => IsPrefix(views[i].transcript, SessionTranscript(views[i].key))
  <2>1. PICK k \in Keys : k = views[i].key
    BY <1>2
  <2>2. PICK w \in Seq(EventType) : w = written[k]
    BY DEF HistoryInv
  <2>3. PICK m \in Nat : m = TailerOf(k).offset
    BY TailerType
  <2>4. m <= Len(w) /\ Shows(views, k, Read(w, m))
    BY <1>3, <2>1, <2>2, <2>3 DEF ViewInv, Read
  <2>5. views[i].transcript = Read(w, m)
    BY <2>1, <2>4 DEF Shows, ViewsOf
  <2>6. IsPrefix(Read(w, m), w)
    BY <2>4, ReadIsPrefix
  <2>7. k \in DOMAIN files => files[k] = w
    BY <1>3, <2>1, <2>2 DEF HistoryInv
  <2> QED
    BY <2>1, <2>2, <2>5, <2>6, <2>7, Zenon DEF ListSessions, SessionTranscript
<1> QED
  BY <1>1, <1>2, <1>3, Zenon DEF ViewExact

\* AppState, DirTailer, Tailer::poll and the history beside servers that come and go:
\* one view per session, with the events of that session in order and each once as
\* long as it does not write between the length and the read of a poll.
THEOREM ViewExactCorrect == DirSpec => []ViewExact
<1>1. DirInit => DirInv
  BY InitView
<1>2. DirInv /\ [DirNext]_dirVars => DirInv'
  BY NextView
<1>3. DirInv => ViewExact
  BY ViewsExact
<1> QED
  BY <1>1, <1>2, <1>3, PTL DEF DirSpec
-----------------------------------------------------------------------------
LEMMA InitToken == ViewerInit => TokenInv
BY DEF ViewerInit, TokenInv

LEMMA NextToken == TokenInv /\ [ViewerNext]_viewerVars => TokenInv'
<1> SUFFICES ASSUME TokenInv, [ViewerNext]_viewerVars PROVE TokenInv'
  OBVIOUS
<1>1. ASSUME NEW s \in Starts, TokenRead(s) PROVE TokenInv'
  <2>1. CASE Settled
    <3>1. tokenFile \in Starts /\ tokenFile \notin {"absent", "empty"}
      BY <2>1, ViewerAssumption DEF Settled
    <3>2. /\ starting' = [starting EXCEPT ![s] = "serving"]
          /\ url' = [url EXCEPT ![s] = tokenFile]
          /\ settled' = [settled EXCEPT ![s] = TRUE]
          /\ tokenFile' = tokenFile
      BY <1>1, <2>1, <3>1 DEF TokenRead
    <3>3. Settled'
      BY <2>1, <3>1, <3>2 DEF Settled, TokenInv
    <3> QED BY <3>2, <3>3 DEF TokenInv
  <2>2. CASE ~Settled
    <3>1. \A r \in Starts : ~settled[r]
      BY <2>2 DEF TokenInv
    <3>0. Settled = FALSE
      BY <2>2 DEF Settled
    <3>2. settled' = [settled EXCEPT ![s] = FALSE]
      BY <1>1, <3>0 DEF TokenRead
    <3>3. \A r \in Starts : ~settled'[r]
      BY <3>1, <3>2 DEF TokenInv
    <3> QED BY <1>1, <3>2, <3>3 DEF TokenRead, TokenInv
  <2> QED BY <2>1, <2>2
<1>2. ASSUME NEW s \in Starts, TokenTruncate(s) PROVE TokenInv'
  <2>1. \A r \in Starts : ~settled[r]
    BY <1>2 DEF TokenTruncate, TokenInv, Settled
  <2> QED BY <1>2, <2>1 DEF TokenTruncate, TokenInv
<1>3. ASSUME NEW s \in Starts, TokenWrite(s) PROVE TokenInv'
  <2>1. \A r \in Starts : ~settled[r]
    BY <1>3 DEF TokenWrite, TokenInv, Settled
  <2> QED BY <1>3, <2>1 DEF TokenWrite, TokenInv
<1>4. ASSUME NEW s \in Starts, ServerEnds(s) PROVE TokenInv'
  BY <1>4 DEF ServerEnds, TokenInv, Settled
<1>5. CASE UNCHANGED tokenVars
  BY <1>5, SMTT(30) DEF tokenVars, TokenInv, Settled
<1>6. ASSUME NEW p \in Posters,
             \/ \E body \in Bodies : \E claimed \in 0..(body.len + 1), arrived \in 0..body.len :
                  Request(p, body, claimed, arrived)
             \/ SaveOpen(p) \/ SaveWrite(p)
      PROVE  UNCHANGED tokenVars
  BY <1>6 DEF Request, SaveOpen, SaveWrite
<1>7. ViewerEnds => UNCHANGED tokenVars
  BY DEF ViewerEnds
<1> QED
  BY <1>1, <1>2, <1>3, <1>4, <1>5, <1>6, <1>7 DEF ViewerNext, viewerVars

\* load_or_create_token, for any number of starts: those that find a token while no
\* server is making one all serve with the same URL.
THEOREM RestartsKeepUrlCorrect == ViewerSpec => []RestartsKeepUrl
<1>1. TokenInv => RestartsKeepUrl
  BY DEF TokenInv, RestartsKeepUrl
<1> QED
  BY InitToken, NextToken, <1>1, PTL DEF ViewerSpec
-----------------------------------------------------------------------------
\* A body is known by its blocks.
LEMMA BlocksTellBodies ==
  ASSUME NEW b \in Bodies, NEW c \in Bodies, Blocks(b) = Blocks(c)
  PROVE  b = c
<1>1. b.len \in Nat \ {0} /\ c.len \in Nat \ {0}
  BY ViewerAssumption
<1>2. Blocks(b)[1] = <<b.id, 1>> /\ Blocks(c)[1] = <<c.id, 1>>
  BY <1>1 DEF Blocks
<1> QED
  BY <1>2, ViewerAssumption

LEMMA NoEmptyBody == \A b \in Bodies : Blocks(b) # <<>>
<1> SUFFICES ASSUME NEW b \in Bodies PROVE Blocks(b) # <<>>
  OBVIOUS
<1>1. b.len \in Nat \ {0}
  BY ViewerAssumption
<1>2. 1 \in DOMAIN Blocks(b)
  BY <1>1 DEF Blocks
<1> QED
  BY <1>2

LEMMA LoadReads ==
  ASSUME NEW body \in Bodies \cup {Default}, stateFile = Blocks(body)
  PROVE  Load = body
<1> DEFINE whole == {b \in Bodies : Blocks(b) = stateFile}
<1>1. CASE body \in Bodies
  <2>1. whole = {body}
    BY <1>1, BlocksTellBodies
  <2> QED BY <2>1 DEF Load
<1>2. CASE body = Default
  <2>1. stateFile = <<>>
    BY <1>2 DEF Blocks, Default
  <2>2. whole = {}
    BY <2>1, NoEmptyBody
  <2> QED BY <1>2, <2>2 DEF Load
<1> QED
  BY <1>1, <1>2

LEMMA InitState == ViewerInit => StateInv
<1> SUFFICES ASSUME ViewerInit PROVE StateInv
  OBVIOUS
<1>1. Saving = {}
  BY DEF ViewerInit, Saving, Quiet
<1>2. Blocks(Default) = <<>>
  BY DEF Blocks, Default
<1> QED
  BY <1>1, <1>2 DEF ViewerInit, StateInv, Quiet

\* A write into the emptied file is the body.
LEMMA WrittenWhole ==
  ASSUME NEW body \in Bodies
  PROVE  Blocks(body) \o SubSeq(<<>>, body.len + 1, Len(<<>>)) = Blocks(body)
<1>1. body.len \in Nat \ {0}
  BY ViewerAssumption
<1>2. SubSeq(<<>>, body.len + 1, Len(<<>>)) = <<>>
  BY <1>1
<1>3. Blocks(body) \in Seq({<<body.id, i>> : i \in Nat})
  BY <1>1 DEF Blocks
<1> QED
  BY <1>2, <1>3, ConcatEmpty

LEMMA SaveOpenState ==
  ASSUME StateInv, NEW p \in Posters, SaveOpen(p)
  PROVE  StateInv'
<1>1. /\ posting[p].at = "parsed" /\ posting' = [posting EXCEPT ![p].at = "truncated"]
      /\ stateFile' = <<>> /\ last' = last
      /\ overlap' = (Saving # {}) /\ torn' = (torn /\ Saving # {})
  BY DEF SaveOpen
<1>2. Saving' = Saving \cup {p}
  BY <1>1 DEF StateInv, Saving
<1>3. posting' \in [Posters -> [at : {"idle", "parsed", "truncated"}, body : Bodies \cup {Default}]]
      /\ \A q \in Posters : posting'[q].at # "idle" => posting'[q].body \in Bodies
  BY <1>1 DEF StateInv
<1> QED
  BY <1>1, <1>2, <1>3 DEF StateInv

LEMMA SaveWriteState ==
  ASSUME StateInv, NEW p \in Posters, SaveWrite(p)
  PROVE  StateInv'
<1>1. /\ posting[p].at = "truncated" /\ posting' = [posting EXCEPT ![p] = Quiet]
      /\ stateFile' = Blocks(posting[p].body)
                        \o SubSeq(stateFile, posting[p].body.len + 1, Len(stateFile))
      /\ last' = posting[p].body /\ UNCHANGED <<overlap, torn>>
  BY DEF SaveWrite
<1>2. p \in Saving /\ Saving' = Saving \ {p}
  BY <1>1 DEF StateInv, Saving, Quiet
<1>3. /\ posting' \in [Posters -> [at : {"idle", "parsed", "truncated"}, body : Bodies \cup {Default}]]
      /\ \A q \in Posters : posting'[q].at # "idle" => posting'[q].body \in Bodies
      /\ posting[p].body \in Bodies
  BY <1>1, SMTT(30) DEF StateInv, Quiet
<1>4. ASSUME ~overlap, ~torn
      PROVE  Saving' = {} /\ stateFile' = Blocks(last')
  <2>1. Saving = {p} /\ stateFile = <<>>
    BY <1>2, <1>4 DEF StateInv
  <2>2. PICK body \in Bodies : body = posting[p].body
    BY <1>3
  <2> QED BY <1>1, <1>2, <2>1, <2>2, WrittenWhole
<1>5. ~overlap => \A q, r \in Saving' : q = r
  BY <1>2 DEF StateInv
<1> QED
  BY <1>1, <1>3, <1>4, <1>5 DEF StateInv

LEMMA NextState == StateInv /\ [ViewerNext]_viewerVars => StateInv'
<1> SUFFICES ASSUME StateInv, [ViewerNext]_viewerVars PROVE StateInv'
  OBVIOUS
<1>1. ASSUME NEW p \in Posters, NEW body \in Bodies, NEW claimed, NEW arrived,
             Request(p, body, claimed, arrived)
      PROVE  StateInv'
  <2>1. /\ posting[p].at = "idle"
        /\ posting' = [posting EXCEPT ![p] = [at |-> "parsed", body |-> body]]
        /\ UNCHANGED <<stateFile, last, overlap, torn>>
    BY <1>1 DEF Request
  <2>2. Saving' = Saving
    BY <2>1 DEF StateInv, Saving
  <2> QED BY <2>1, <2>2 DEF StateInv
<1>2. ASSUME NEW p \in Posters, SaveOpen(p) PROVE StateInv'
  BY <1>2, SaveOpenState
<1>3. ASSUME NEW p \in Posters, SaveWrite(p) PROVE StateInv'
  BY <1>3, SaveWriteState
<1>4. CASE ViewerEnds
  <2>1. Saving' = {}
    BY <1>4 DEF ViewerEnds, Saving, Quiet
  <2>2. posting' \in [Posters -> [at : {"idle", "parsed", "truncated"}, body : Bodies \cup {Default}]]
        /\ \A q \in Posters : posting'[q].at = "idle"
    BY <1>4 DEF ViewerEnds, Quiet
  <2> QED BY <1>4, <2>1, <2>2 DEF ViewerEnds, StateInv
<1>5. CASE UNCHANGED stateVars
  <2>1. Saving' = Saving
    BY <1>5 DEF stateVars, Saving
  <2> QED BY <1>5, <2>1 DEF stateVars, StateInv
<1>6. ASSUME NEW s \in Starts, TokenRead(s) \/ TokenTruncate(s) \/ TokenWrite(s) \/ ServerEnds(s)
      PROVE  UNCHANGED stateVars
  BY <1>6 DEF TokenRead, TokenTruncate, TokenWrite, ServerEnds
<1> QED
  BY <1>1, <1>2, <1>3, <1>4, <1>5, <1>6 DEF ViewerNext, viewerVars

\* save and load, for any number of pages and any bodies: unless saves overlapped or
\* one was cut off, a page reads the last body saved, whole.
THEOREM StateSavedCorrect == ViewerSpec => []StateSaved
<1>1. StateInv => StateSaved
  BY LoadReads DEF StateInv, StateSaved
<1> QED
  BY InitState, NextState, <1>1, PTL DEF ViewerSpec
=============================================================================
