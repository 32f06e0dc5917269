-------------------------- MODULE TransportProofs --------------------------
(***************************************************************************)
(* The link between a session and its shell, for every transport, any      *)
(* capacity of its queues and any number of lines and chunks: nothing is   *)
(* lost, repeated or reordered, and few lines are ever under way.          *)
(***************************************************************************)
EXTENDS Transport, TLAPS

-----------------------------------------------------------------------------
(***************************************************************************)
(* Sequences.                                                              *)
(***************************************************************************)
LEMMA Appending ==
  ASSUME NEW S, NEW s \in Seq(S), NEW e \in S
  PROVE  /\ Append(s, e) \in Seq(S) /\ Len(Append(s, e)) = Len(s) + 1
         /\ \A i \in 1..Len(s) : Append(s, e)[i] = s[i]
         /\ Append(s, e)[Len(s) + 1] = e
OBVIOUS

LEMMA Splitting ==
  ASSUME NEW S, NEW s \in Seq(S), s # <<>>
  PROVE  /\ Len(s) \in Nat \ {0} /\ Head(s) \in S /\ Head(s) = s[1]
         /\ Tail(s) \in Seq(S) /\ Len(Tail(s)) = Len(s) - 1
         /\ \A i \in 1..(Len(s) - 1) : Tail(s)[i] = s[i + 1]
         /\ <<Head(s)>> \in Seq(S) /\ Len(<<Head(s)>>) = 1 /\ <<Head(s)>>[1] = s[1]
OBVIOUS

LEMMA Joining ==
  ASSUME NEW S, NEW s \in Seq(S), NEW t \in Seq(S)
  PROVE  /\ s \o t \in Seq(S) /\ Len(s \o t) = Len(s) + Len(t)
         /\ \A i \in 1..Len(s) : (s \o t)[i] = s[i]
         /\ \A i \in 1..Len(t) : (s \o t)[Len(s) + i] = t[i]
OBVIOUS

LEMMA Lengths ==
  ASSUME NEW S, NEW s \in Seq(S)
  PROVE  Len(s) \in Nat /\ <<>> \in Seq(S) /\ Len(<<>>) = 0
OBVIOUS
-----------------------------------------------------------------------------
(***************************************************************************)
(* A line moves from queue to queue.                                       *)
(***************************************************************************)
LEMMA LineQueued ==
  ASSUME NEW n \in Seq(Nat), NEW l \in Seq(Nat), NEW q \in Seq(Nat), NEW from \in Nat, NEW to \in Nat,
         Lined(n, l, q, from, to)
  PROVE  Lined(n, l, Append(q, to + 1), from, to + 1)
<1>5. PICK e \in Nat : e = to + 1
  OBVIOUS
<1>6. Append(q, e) \in Seq(Nat)
  BY Appending
<1>1. PICK r \in Seq(Nat) : r = Append(q, e)
  BY <1>6
<1>2. Len(r) = Len(q) + 1 /\ r[Len(q) + 1] = to + 1 /\ \A i \in 1..Len(q) : r[i] = q[i]
  BY <1>1, <1>5, Appending
<1>3. Len(n) \in Nat /\ Len(l) \in Nat /\ Len(q) \in Nat
  BY Lengths
<1>7. /\ \A i \in 1..Len(n) : n[i] = from + i
      /\ \A i \in 1..Len(l) : l[i] = from + Len(n) + i
      /\ \A i \in 1..Len(q) : q[i] = from + Len(n) + Len(l) + i
      /\ to = from + Len(n) + Len(l) + Len(q)
  BY DEF Lined
<1>8. ASSUME NEW i \in 1..Len(r) PROVE r[i] = from + Len(n) + Len(l) + i
  <2>1. i \in 1..Len(q) \/ i = Len(q) + 1
    BY <1>2, <1>3
  <2> QED BY <1>2, <1>3, <1>7, <2>1
<1>4. Lined(n, l, r, from, to + 1)
  BY <1>2, <1>3, <1>7, <1>8 DEF Lined
<1> QED
  BY <1>1, <1>4, <1>5

LEMMA LineTyped ==
  ASSUME NEW n \in Seq(Nat), NEW from \in Nat, NEW to \in Nat, Lined(n, <<>>, <<>>, from, to)
  PROVE  Lined(Append(n, to + 1), <<>>, <<>>, from, to + 1)
<1>5. PICK c \in Nat : c = to + 1
  OBVIOUS
<1>6. Append(n, c) \in Seq(Nat)
  BY Appending
<1>1. PICK m \in Seq(Nat) : m = Append(n, c)
  BY <1>6
<1>2. Len(m) = Len(n) + 1 /\ m[Len(n) + 1] = to + 1 /\ \A i \in 1..Len(n) : m[i] = n[i]
  BY <1>1, <1>5, Appending
<1>3. PICK e \in Seq(Nat) : e = <<>> /\ Len(e) = 0 /\ Len(n) \in Nat
  BY Lengths
<1>4. Lined(m, e, e, from, to + 1)
  <2>1. Lined(n, e, e, from, to)
    BY <1>3
  <2>2. to = from + Len(n) /\ \A i \in 1..Len(n) : n[i] = from + i
    BY <1>3, <2>1 DEF Lined
  <2>3. ASSUME NEW i \in 1..Len(m) PROVE m[i] = from + i
    <3>1. i \in 1..Len(n) \/ i = Len(n) + 1
      BY <1>2, <1>3
    <3> QED BY <1>2, <1>3, <2>2, <3>1
  <2> QED BY <1>2, <1>3, <2>2, <2>3 DEF Lined
<1> QED
  BY <1>1, <1>3, <1>4, <1>5

LEMMA LineTaken ==
  ASSUME NEW n \in Seq(Nat), NEW q \in Seq(Nat), q # <<>>, NEW from \in Nat, NEW to \in Nat,
         Lined(n, <<>>, q, from, to)
  PROVE  Lined(n, <<Head(q)>>, Tail(q), from, to)
<1>1. PICK l \in Seq(Nat), r \in Seq(Nat), e \in Seq(Nat) : l = <<Head(q)>> /\ r = Tail(q) /\ e = <<>>
  BY Splitting, Lengths
<1>2. /\ Len(l) = 1 /\ l[1] = q[1] /\ Len(r) = Len(q) - 1 /\ Len(q) \in Nat \ {0} /\ Len(n) \in Nat
      /\ \A i \in 1..(Len(q) - 1) : r[i] = q[i + 1]
      /\ Len(e) = 0
  BY <1>1, Splitting, Lengths
<1>3. Lined(n, e, q, from, to)
  BY <1>1
<1>4. /\ to = from + Len(n) + Len(q) /\ \A i \in 1..Len(n) : n[i] = from + i
      /\ \A i \in 1..Len(q) : q[i] = from + Len(n) + i
  BY <1>2, <1>3 DEF Lined
<1>5. \A i \in 1..(Len(q) - 1) : r[i] = from + Len(n) + (i + 1)
  BY <1>2, <1>4
<1>6. Lined(n, l, r, from, to)
  BY <1>2, <1>4, <1>5 DEF Lined
<1> QED
  BY <1>1, <1>6

LEMMA LineWritten ==
  ASSUME NEW n \in Seq(Nat), NEW l \in Seq(Nat), NEW q \in Seq(Nat), NEW from \in Nat, NEW to \in Nat,
         Lined(n, l, q, from, to)
  PROVE  Lined(n \o l, <<>>, q, from, to)
<1>1. PICK m \in Seq(Nat), e \in Seq(Nat) : m = n \o l /\ e = <<>>
  BY Joining, Lengths
<1>2. /\ Len(m) = Len(n) + Len(l) /\ Len(e) = 0
      /\ \A i \in 1..Len(n) : m[i] = n[i]
      /\ \A i \in 1..Len(l) : m[Len(n) + i] = l[i]
      /\ Len(n) \in Nat /\ Len(l) \in Nat /\ Len(q) \in Nat
  BY <1>1, Joining, Lengths
<1>3. ASSUME NEW i \in 1..Len(m) PROVE m[i] = from + i
  <2>1. CASE i <= Len(n)
    BY <1>2, <2>1 DEF Lined
  <2>2. CASE i > Len(n)
    <3>1. PICK j \in 1..Len(l) : i = Len(n) + j
      <4>1. i - Len(n) \in 1..Len(l) /\ i = Len(n) + (i - Len(n))
        BY <1>2, <2>2
      <4> QED BY <4>1
    <3>2. l[j] = from + Len(n) + j
      BY <3>1 DEF Lined
    <3>3. m[i] = l[j]
      BY <1>2, <3>1
    <3> QED BY <1>2, <3>1, <3>2, <3>3
  <2> QED BY <1>2, <2>1, <2>2
<1>4. Lined(m, e, q, from, to)
  BY <1>2, <1>3 DEF Lined
<1> QED
  BY <1>1, <1>4

LEMMA LineRead ==
  ASSUME NEW n \in Seq(Nat), n # <<>>, NEW l \in Seq(Nat), NEW q \in Seq(Nat), NEW from \in Nat,
         NEW to \in Nat, Lined(n, l, q, from, to)
  PROVE  Head(n) = from + 1 /\ Lined(Tail(n), l, q, Head(n), to)
<1>1. PICK m \in Seq(Nat) : m = Tail(n)
  BY Splitting
<1>2. /\ Len(m) = Len(n) - 1 /\ Len(n) \in Nat \ {0} /\ Len(l) \in Nat /\ Len(q) \in Nat /\ Head(n) = n[1]
      /\ \A i \in 1..(Len(n) - 1) : m[i] = n[i + 1]
  BY <1>1, Splitting, Lengths
<1>3. n[1] = from + 1
  BY <1>2 DEF Lined
<1>4. \A i \in 1..Len(m) : m[i] = from + 1 + i
  BY <1>2 DEF Lined
<1>5. Lined(m, l, q, from + 1, to)
  BY <1>2, <1>4 DEF Lined
<1> QED
  BY <1>1, <1>2, <1>3, <1>5
-----------------------------------------------------------------------------
(***************************************************************************)
(* A chunk moves from queue to queue.                                      *)
(***************************************************************************)
LEMMA ChunkPrinted ==
  ASSUME NEW g \in Seq(Chunks), NEW r \in Seq(Chunks), NEW h \in Seq(Chunks), NEW o \in Seq(Chunks),
         NEW to \in Nat, NEW c \in Chunks, c.n = to + 1, Chained(g, r, h, o, to)
  PROVE  Chained(g, r, h, Append(o, c), to + 1)
<1>1. PICK p \in Seq(Chunks) : p = Append(o, c)
  BY Appending
<1>2. Len(p) = Len(o) + 1 /\ p[Len(o) + 1] = c /\ \A i \in 1..Len(o) : p[i] = o[i]
  BY <1>1, Appending
<1>3. Len(g) \in Nat /\ Len(r) \in Nat /\ Len(h) \in Nat /\ Len(o) \in Nat
  BY Lengths
<1>6. /\ to = Len(g) + Len(r) + Len(h) + Len(o)
      /\ \A i \in 1..Len(o) : o[i].n = Len(g) + Len(r) + Len(h) + i
  BY DEF Chained
<1>4. ASSUME NEW i \in 1..Len(p) PROVE p[i].n = Len(g) + Len(r) + Len(h) + i
  <2>1. i \in 1..Len(o) \/ i = Len(o) + 1
    BY <1>2, <1>3
  <2>2. CASE i \in 1..Len(o)
    BY <1>2, <1>6, <2>2
  <2>3. CASE i = Len(o) + 1
    BY <1>2, <1>3, <1>6, <2>3
  <2> QED BY <2>1, <2>2, <2>3
<1>5. Chained(g, r, h, p, to + 1)
  BY <1>2, <1>3, <1>4 DEF Chained
<1> QED
  BY <1>1, <1>5

LEMMA ChunkTaken ==
  ASSUME NEW g \in Seq(Chunks), NEW r \in Seq(Chunks), NEW o \in Seq(Chunks), o # <<>>,
         NEW to \in Nat, Chained(g, r, <<>>, o, to)
  PROVE  Chained(g, r, <<Head(o)>>, Tail(o), to)
<1>1. PICK h \in Seq(Chunks), p \in Seq(Chunks), e \in Seq(Chunks) :
        h = <<Head(o)>> /\ p = Tail(o) /\ e = <<>>
  BY Splitting, Lengths
<1>2. /\ Len(h) = 1 /\ h[1] = o[1] /\ Len(p) = Len(o) - 1 /\ Len(o) \in Nat \ {0}
      /\ Len(g) \in Nat /\ Len(r) \in Nat /\ Len(e) = 0
      /\ \A i \in 1..(Len(o) - 1) : p[i] = o[i + 1]
  BY <1>1, Splitting, Lengths
<1>3. Chained(g, r, e, o, to)
  BY <1>1
<1>4. /\ to = Len(g) + Len(r) + Len(o)
      /\ \A i \in 1..Len(o) : o[i].n = Len(g) + Len(r) + i
      /\ \A i \in 1..Len(g) : g[i].n = i
      /\ \A i \in 1..Len(r) : r[i].n = Len(g) + i
  BY <1>2, <1>3 DEF Chained
<1>5. ASSUME NEW i \in 1..Len(p) PROVE p[i].n = Len(g) + Len(r) + Len(h) + i
  <2>1. i + 1 \in 1..Len(o) /\ i \in 1..(Len(o) - 1)
    BY <1>2
  <2>2. p[i].n = Len(g) + Len(r) + (i + 1)
    BY <1>2, <1>4, <2>1
  <2> QED BY <1>2, <2>2
<1>6. Chained(g, r, h, p, to)
  BY <1>2, <1>4, <1>5 DEF Chained
<1> QED
  BY <1>1, <1>6

LEMMA ChunkForwarded ==
  ASSUME NEW g \in Seq(Chunks), NEW r \in Seq(Chunks), NEW h \in Seq(Chunks), NEW o \in Seq(Chunks),
         NEW to \in Nat, Chained(g, r, h, o, to)
  PROVE  Chained(g, r \o h, <<>>, o, to)
<1>1. PICK q \in Seq(Chunks), e \in Seq(Chunks) : q = r \o h /\ e = <<>>
  BY Joining, Lengths
<1>2. /\ Len(q) = Len(r) + Len(h) /\ Len(e) = 0
      /\ \A i \in 1..Len(r) : q[i] = r[i]
      /\ \A i \in 1..Len(h) : q[Len(r) + i] = h[i]
      /\ Len(g) \in Nat /\ Len(r) \in Nat /\ Len(h) \in Nat /\ Len(o) \in Nat
  BY <1>1, Joining, Lengths
<1>5. /\ \A i \in 1..Len(r) : r[i].n = Len(g) + i
      /\ \A i \in 1..Len(h) : h[i].n = Len(g) + Len(r) + i
  BY DEF Chained
<1>3. ASSUME NEW i \in 1..Len(q) PROVE q[i].n = Len(g) + i
  <2>1. CASE i <= Len(r)
    <3>1. i \in 1..Len(r)
      BY <1>2, <2>1
    <3>2. q[i] = r[i]
      BY <1>2, <3>1
    <3> QED BY <1>5, <3>1, <3>2
  <2>2. CASE i > Len(r)
    <3>1. PICK j \in 1..Len(h) : i = Len(r) + j
      <4>1. i - Len(r) \in 1..Len(h) /\ i = Len(r) + (i - Len(r))
        BY <1>2, <2>2
      <4> QED BY <4>1
    <3>2. h[j].n = Len(g) + Len(r) + j
      BY <1>5, <3>1
    <3>3. q[i] = h[j]
      BY <1>2, <3>1
    <3> QED BY <1>2, <3>1, <3>2, <3>3
  <2> QED BY <1>2, <2>1, <2>2
<1>4. Chained(g, q, e, o, to)
  BY <1>2, <1>3 DEF Chained
<1> QED
  BY <1>1, <1>4

LEMMA ChunkReceived ==
  ASSUME NEW g \in Seq(Chunks), NEW r \in Seq(Chunks), r # <<>>, NEW h \in Seq(Chunks),
         NEW o \in Seq(Chunks), NEW to \in Nat, Chained(g, r, h, o, to)
  PROVE  Chained(Append(g, Head(r)), Tail(r), h, o, to)
<1>1. Head(r) \in Chunks
  BY Splitting
<1>2. PICK f \in Seq(Chunks), q \in Seq(Chunks) : f = Append(g, Head(r)) /\ q = Tail(r)
  BY <1>1, Splitting, Appending
<1>3. /\ Len(f) = Len(g) + 1 /\ f[Len(g) + 1] = r[1] /\ \A i \in 1..Len(g) : f[i] = g[i]
      /\ Len(q) = Len(r) - 1 /\ Len(r) \in Nat \ {0}
      /\ \A i \in 1..(Len(r) - 1) : q[i] = r[i + 1]
      /\ Len(g) \in Nat /\ Len(h) \in Nat /\ Len(o) \in Nat
  BY <1>1, <1>2, Splitting, Appending, Lengths
<1>8. /\ \A i \in 1..Len(g) : g[i].n = i
      /\ \A i \in 1..Len(r) : r[i].n = Len(g) + i
  BY DEF Chained
<1>4. r[1].n = Len(g) + 1
  <2>1. 1 \in 1..Len(r)
    BY <1>3
  <2> QED BY <1>8, <2>1
<1>5. ASSUME NEW i \in 1..Len(f) PROVE f[i].n = i
  <2>1. CASE i <= Len(g)
    <3>1. i \in 1..Len(g)
      BY <1>3, <2>1
    <3>2. f[i] = g[i]
      BY <1>3, <3>1
    <3> QED BY <1>8, <3>1, <3>2
  <2>2. CASE i = Len(g) + 1
    BY <1>3, <1>4, <2>2
  <2> QED BY <1>3, <2>1, <2>2
<1>6. ASSUME NEW i \in 1..Len(q) PROVE q[i].n = Len(f) + i
  <2>1. i + 1 \in 1..Len(r) /\ i \in 1..(Len(r) - 1)
    BY <1>3
  <2>2. q[i] = r[i + 1]
    BY <1>3, <2>1
  <2>3. q[i].n = Len(g) + (i + 1)
    BY <1>8, <2>1, <2>2
  <2> QED BY <1>3, <2>3
<1>7. Chained(f, q, h, o, to)
  BY <1>3, <1>5, <1>6 DEF Chained
<1> QED
  BY <1>2, <1>7
-----------------------------------------------------------------------------
(***************************************************************************)
(* What the chunks under way reply to.                                     *)
(***************************************************************************)
LEMMA RepliesKept ==
  ASSUME NEW s \in Seq(Chunks), NEW t \in Seq(Chunks), NEW n \in Nat,
         RepliesUpTo(s, n), RepliesUpTo(t, n)
  PROVE  RepliesUpTo(s \o t, n)
<1>1. PICK q \in Seq(Chunks) : q = s \o t
  BY Joining
<1>2. /\ Len(q) = Len(s) + Len(t) /\ Len(s) \in Nat /\ Len(t) \in Nat
      /\ \A i \in 1..Len(s) : q[i] = s[i]
      /\ \A i \in 1..Len(t) : q[Len(s) + i] = t[i]
  BY <1>1, Joining, Lengths
<1>3. ASSUME NEW i \in 1..Len(q) PROVE q[i].reply <= n
  <2>1. CASE i <= Len(s)
    BY <1>2, <2>1 DEF RepliesUpTo
  <2>2. CASE i > Len(s)
    <3>1. i - Len(s) \in 1..Len(t) /\ i = Len(s) + (i - Len(s))
      BY <1>2, <2>2
    <3>2. PICK j \in 1..Len(t) : i = Len(s) + j
      BY <3>1
    <3> QED BY <1>2, <3>2 DEF RepliesUpTo
  <2> QED BY <1>2, <2>1, <2>2
<1> QED
  BY <1>1, <1>3 DEF RepliesUpTo

LEMMA RepliesSplit ==
  ASSUME NEW s \in Seq(Chunks), s # <<>>, NEW n \in Nat, RepliesUpTo(s, n)
  PROVE  Head(s).reply <= n /\ RepliesUpTo(<<Head(s)>>, n) /\ RepliesUpTo(Tail(s), n)
<1>1. PICK h \in Seq(Chunks), t \in Seq(Chunks) : h = <<Head(s)>> /\ t = Tail(s)
  BY Splitting
<1>2. /\ Len(h) = 1 /\ h[1] = s[1] /\ Head(s) = s[1] /\ Len(s) \in Nat \ {0} /\ Len(t) = Len(s) - 1
      /\ \A i \in 1..(Len(s) - 1) : t[i] = s[i + 1]
  BY <1>1, Splitting
<1>3. RepliesUpTo(h, n) /\ RepliesUpTo(t, n) /\ Head(s).reply <= n
  BY <1>2 DEF RepliesUpTo
<1> QED
  BY <1>1, <1>3

LEMMA RepliesPrinted ==
  ASSUME NEW s \in Seq(Chunks), NEW c \in Chunks, NEW n \in Nat, c.reply <= n, RepliesUpTo(s, n)
  PROVE  RepliesUpTo(Append(s, c), n)
<1>1. PICK q \in Seq(Chunks) : q = Append(s, c)
  BY Appending
<1>2. /\ Len(q) = Len(s) + 1 /\ q[Len(s) + 1] = c /\ Len(s) \in Nat
      /\ \A i \in 1..Len(s) : q[i] = s[i]
  BY <1>1, Appending, Lengths
<1>3. RepliesUpTo(q, n)
  BY <1>2 DEF RepliesUpTo
<1> QED
  BY <1>1, <1>3

LEMMA RepliesLater ==
  ASSUME NEW s \in Seq(Chunks), NEW n \in Nat, RepliesUpTo(s, n)
  PROVE  RepliesUpTo(s, n + 1)
<1>1. \A i \in 1..Len(s) : s[i] \in Chunks
  OBVIOUS
<1>2. \A i \in 1..Len(s) : s[i].reply \in Nat
  BY <1>1 DEF Chunks
<1> QED
  BY <1>2 DEF RepliesUpTo
-----------------------------------------------------------------------------
(***************************************************************************)
(* Every step keeps what the queues hold.                                  *)
(***************************************************************************)
QueuesHold == QueuesInv /\ LinesInv /\ ChunksInv /\ RepliesInv

LEMMA InitLink == Init => LinkInv
<1> SUFFICES ASSUME Init PROVE LinkInv
  OBVIOUS
<1> USE DEF Init
<1>1. QueuesInv
  BY DEF QueuesInv
<1>2. LinesInv
  BY DEF LinesInv, Lined
<1>3. ChunksInv
  BY DEF ChunksInv, Chained
<1>4. RepliesInv
  BY DEF RepliesInv, RepliesUpTo
<1>5. HeldInv
  BY DEF HeldInv
<1>6. CallerInv
  BY DEF CallerInv, FewLines
<1>7. PlaceInv
  BY TransportAssumption DEF PlaceInv, Ssh, Dead
<1> QED
  BY <1>1, <1>2, <1>3, <1>4, <1>5, <1>6, <1>7 DEF LinkInv

\* What a step of the caller, of the login, or the end of a task comes to.
Quiet ==
  /\ UNCHANGED <<kind, sent, got, hand, line, writeQ, readQ, out, printed, heard>>
  /\ reading' => reading
  /\ Live' => (Live /\ net' = net)
  /\ Open' => Open
  /\ net' = net \/ net' = <<>>
  /\ task' = task \/ (hand = <<>> /\ line = <<>>)

LEMMA QuietHolds == QueuesHold /\ Quiet => QueuesHold'
<1> SUFFICES ASSUME QueuesHold, Quiet PROVE QueuesHold'
  OBVIOUS
<1> USE DEF Quiet
<1>1. QueuesInv'
  BY DEF QueuesHold, QueuesInv, Ssh
<1>2. LinesInv'
  BY DEF QueuesHold, LinesInv, Live
<1>3. ChunksInv'
  BY DEF QueuesHold, ChunksInv
<1>4. RepliesInv'
  BY DEF QueuesHold, RepliesInv
<1> QED
  BY <1>1, <1>2, <1>3, <1>4 DEF QueuesHold

\* The steps that leave every queue alone.
Still ==
  \/ LoginEnds \/ ChannelOpened \/ ChannelFailed \/ Inspected
  \/ Connected \/ ConnectFailed \/ WriteFails \/ Disconnected \/ Deadline \/ Killed \/ Joined
  \/ Command \/ Drop \/ ContainerCleaned \/ TaskEnds \/ ShellExits \/ SurvivorEnds \/ UNCHANGED vars

LEMMA StillQuiet == QueuesHold /\ Still => Quiet
<1> SUFFICES ASSUME QueuesHold, Still PROVE Quiet
  OBVIOUS
<1> USE DEF callerVars, taskVars, shellVars, Quiet
<1>1. task # "forward" => hand = <<>>
  BY DEF QueuesHold, QueuesInv
<1>2. task # "write" => line = <<>>
  BY DEF QueuesHold, QueuesInv
<1>3. CASE LoginEnds \/ ChannelOpened \/ ChannelFailed \/ Inspected
  BY <1>1, <1>2, <1>3
     DEF LoginEnds, LoggedIn, LoginFailed, Inspected, ChannelOpened, ChannelFailed, Report, Live, Open, Linked, Dead, Ssh
<1>4. CASE Connected \/ ConnectFailed \/ WriteFails \/ Disconnected \/ Joined \/ Command
  BY <1>4 DEF Connected, ConnectFailed, WriteFails, Disconnected, Joined, Command, Live, Open, Linked, Dead, Ssh
<1>5. CASE Deadline
  BY <1>5 DEF Deadline, Live, Open, Linked, Dead, Ssh
<1>6. CASE Drop
  <2>1. UNCHANGED <<kind, sent, got, taskVars, writeQ, readQ, net, out, shellVars>> /\ (reading' => reading)
    BY <1>6 DEF Drop
  <2> QED BY <2>1 DEF Live, Open, Linked, Dead, Ssh
<1>7. CASE TaskEnds
  BY <1>1, <1>2, <1>7 DEF TaskEnds, Live, Open, Linked, Dead, Ssh
<1>8. CASE ShellExits \/ SurvivorEnds
  BY <1>8 DEF ShellExits, SurvivorEnds, Gone, Live, Open, Linked, Dead, Ssh
<1>9. CASE UNCHANGED vars
  BY <1>9 DEF vars, Live, Open, Linked, Dead, Ssh
<1>10. CASE ContainerCleaned
  BY <1>10 DEF ContainerCleaned, Live, Open, Linked, Dead, Ssh
<1>11. CASE Killed
  BY <1>11 DEF Killed, Hangup, Gone, Live, Open, Linked, Dead, Ssh
<1> QED
  BY <1>3, <1>4, <1>5, <1>6, <1>7, <1>8, <1>9, <1>10, <1>11 DEF Still

LEMMA EnqueueHolds == QueuesHold /\ Enqueue => QueuesHold'
<1> SUFFICES ASSUME QueuesHold, Enqueue PROVE QueuesHold'
  OBVIOUS
<1> USE DEF Enqueue, AfterWrite, callerVars, taskVars, shellVars
<1>1. QueuesInv
  BY DEF QueuesHold
<1>2. sent + 1 \in Nat /\ writeQ \in Seq(Nat)
  BY <1>1 DEF QueuesInv
<1>3. writeQ' \in Seq(Nat)
  BY <1>2, Appending
<1>4. QueuesInv'
  BY <1>1, <1>2, <1>3 DEF QueuesInv, Ssh
<1>5. LinesInv'
  <2>1. CASE Live
    <3>1. Lined(net, line, Append(writeQ, sent + 1), heard, sent + 1)
      BY <1>1, <2>1, LineQueued DEF QueuesHold, QueuesInv, LinesInv
    <3> QED BY <3>1 DEF LinesInv
  <2>2. CASE ~Live
    BY <2>2 DEF LinesInv, Live, Dead
  <2> QED BY <2>1, <2>2
<1>6. ChunksInv' /\ RepliesInv'
  BY DEF QueuesHold, ChunksInv, RepliesInv, Open, Linked, Live, Dead, Ssh
<1> QED
  BY <1>4, <1>5, <1>6 DEF QueuesHold

LEMMA WriteTerminalHolds == QueuesHold /\ WriteTerminal => QueuesHold'
<1> SUFFICES ASSUME QueuesHold, WriteTerminal PROVE QueuesHold'
  OBVIOUS
<1> USE DEF WriteTerminal, AfterWrite, callerVars, taskVars, shellVars
<1>1. QueuesInv
  BY DEF QueuesHold
<1>2. sent + 1 \in Nat /\ net \in Seq(Nat) /\ line = <<>> /\ writeQ = <<>>
  BY <1>1 DEF QueuesInv
<1>3. net' \in Seq(Nat)
  BY <1>2, Appending
<1>4. QueuesInv'
  BY <1>1, <1>2, <1>3 DEF QueuesInv, Ssh
<1>5. LinesInv'
  <2>1. CASE Live
    <3>1. Lined(net, <<>>, <<>>, heard, sent)
      BY <1>2, <2>1 DEF QueuesHold, LinesInv
    <3>2. Lined(Append(net, sent + 1), <<>>, <<>>, heard, sent + 1)
      BY <1>1, <3>1, LineTyped DEF QueuesInv
    <3>3. line' = <<>> /\ writeQ' = <<>> /\ net' = Append(net, sent + 1) /\ heard' = heard /\ sent' = sent + 1
      BY <1>2
    <3> QED BY <3>2, <3>3 DEF LinesInv
  <2>2. CASE ~Live
    BY <2>2 DEF LinesInv, Live, Dead
  <2> QED BY <2>1, <2>2
<1>6. ChunksInv' /\ RepliesInv'
  BY DEF QueuesHold, ChunksInv, RepliesInv, Open, Linked, Live, Dead, Ssh
<1> QED
  BY <1>4, <1>5, <1>6 DEF QueuesHold

LEMMA ReceiveHolds == QueuesHold /\ Receive => QueuesHold'
<1> SUFFICES ASSUME QueuesHold, Receive PROVE QueuesHold'
  OBVIOUS
<1> USE DEF Receive, taskVars, shellVars
<1>1. QueuesInv
  BY DEF QueuesHold
<1>2. /\ got \in Seq(Chunks) /\ readQ \in Seq(Chunks) /\ hand \in Seq(Chunks) /\ out \in Seq(Chunks)
      /\ printed \in Nat /\ heard \in Nat /\ readQ # <<>>
  BY <1>1 DEF QueuesInv
<1>3. Head(readQ) \in Chunks /\ Tail(readQ) \in Seq(Chunks)
  BY <1>2, Splitting
<1>4. Append(got, Head(readQ)) \in Seq(Chunks)
  BY <1>2, <1>3, Appending
<1>5. QueuesInv'
  BY <1>1, <1>3, <1>4 DEF QueuesInv, Ssh
<1>6. LinesInv'
  BY DEF QueuesHold, LinesInv, Live, Dead
<1>7. ChunksInv'
  <2>1. CASE reading
    <3>1. Chained(Append(got, Head(readQ)), Tail(readQ), hand, out, printed)
      BY <1>2, <2>1, ChunkReceived DEF QueuesHold, ChunksInv
    <3> QED BY <3>1 DEF ChunksInv
  <2>2. CASE ~reading
    BY <2>2 DEF ChunksInv
  <2> QED BY <2>1, <2>2
<1>8. RepliesInv'
  <2>1. Open => RepliesUpTo(Tail(readQ), heard)
    BY <1>2, RepliesSplit DEF QueuesHold, RepliesInv
  <2> QED BY <2>1 DEF QueuesHold, RepliesInv, Open, Linked, Live, Dead, Ssh
<1> QED
  BY <1>5, <1>6, <1>7, <1>8 DEF QueuesHold

LEMMA ReadShellHolds == QueuesHold /\ ReadShell => QueuesHold'
<1> SUFFICES ASSUME QueuesHold, ReadShell PROVE QueuesHold'
  OBVIOUS
<1> USE DEF ReadShell, callerVars, shellVars
<1>1. QueuesInv
  BY DEF QueuesHold
<1>2. /\ got \in Seq(Chunks) /\ readQ \in Seq(Chunks) /\ hand = <<>> /\ out \in Seq(Chunks)
      /\ printed \in Nat /\ heard \in Nat /\ out # <<>> /\ line = <<>>
  BY <1>1 DEF QueuesInv
<1>3. <<Head(out)>> \in Seq(Chunks) /\ Tail(out) \in Seq(Chunks)
  BY <1>2, Splitting
<1>4. QueuesInv'
  BY <1>1, <1>2, <1>3 DEF QueuesInv, Ssh
<1>5. LinesInv'
  BY DEF QueuesHold, LinesInv, Live, Dead
<1>6. ChunksInv'
  <2>1. CASE reading
    <3>1. Chained(got, readQ, <<>>, out, printed)
      BY <1>2, <2>1 DEF QueuesHold, ChunksInv
    <3>2. Chained(got, readQ, <<Head(out)>>, Tail(out), printed)
      BY <1>2, <3>1, ChunkTaken
    <3> QED BY <3>2 DEF ChunksInv
  <2>2. CASE ~reading
    BY <2>2 DEF ChunksInv
  <2> QED BY <2>1, <2>2
<1>7. RepliesInv'
  <2>1. Open => RepliesUpTo(<<Head(out)>>, heard) /\ RepliesUpTo(Tail(out), heard)
    BY <1>2, RepliesSplit DEF QueuesHold, RepliesInv
  <2> QED BY <2>1 DEF QueuesHold, RepliesInv, Open, Linked, Live, Dead, Ssh
<1> QED
  BY <1>4, <1>5, <1>6, <1>7 DEF QueuesHold

LEMMA ForwardHolds == QueuesHold /\ Forward => QueuesHold'
<1> SUFFICES ASSUME QueuesHold, Forward PROVE QueuesHold'
  OBVIOUS
<1> USE DEF Forward, callerVars, shellVars
<1>1. QueuesInv
  BY DEF QueuesHold
<1>2. /\ got \in Seq(Chunks) /\ readQ \in Seq(Chunks) /\ hand \in Seq(Chunks) /\ out \in Seq(Chunks)
      /\ printed \in Nat /\ heard \in Nat /\ line = <<>>
  BY <1>1 DEF QueuesInv
<1>3. readQ \o hand \in Seq(Chunks) /\ <<>> \in Seq(Chunks)
  BY <1>2, Joining, Lengths
<1>4. readQ' \in Seq(Chunks)
  BY <1>2, <1>3
<1>5. QueuesInv'
  BY <1>1, <1>2, <1>3, <1>4 DEF QueuesInv, Ssh
<1>6. LinesInv'
  BY DEF QueuesHold, LinesInv, Live, Dead
<1>7. ChunksInv'
  <2>1. CASE reading
    <3>1. Chained(got, readQ \o hand, <<>>, out, printed)
      BY <1>2, <2>1, ChunkForwarded DEF QueuesHold, ChunksInv
    <3>2. readQ' = readQ \o hand
      BY <2>1
    <3> QED BY <3>1, <3>2 DEF ChunksInv
  <2>2. CASE ~reading
    BY <2>2 DEF ChunksInv
  <2> QED BY <2>1, <2>2
<1>8. RepliesInv'
  <2> SUFFICES ASSUME Open' PROVE RepliesUpTo(readQ', heard') /\ RepliesUpTo(hand', heard') /\ RepliesUpTo(out', heard')
    BY DEF RepliesInv
  <2>1. Open /\ reading
    BY DEF Open, Linked, Dead, Ssh
  <2>2. RepliesUpTo(readQ \o hand, heard) /\ RepliesUpTo(out, heard)
    BY <1>2, <2>1, RepliesKept DEF QueuesHold, RepliesInv
  <2>3. readQ' = readQ \o hand
    BY <2>1
  <2>4. RepliesUpTo(<<>>, heard)
    BY DEF RepliesUpTo
  <2> QED BY <2>2, <2>3, <2>4
<1> QED
  BY <1>5, <1>6, <1>7, <1>8 DEF QueuesHold

LEMMA TakeLineHolds == QueuesHold /\ TakeLine => QueuesHold'
<1> SUFFICES ASSUME QueuesHold, TakeLine PROVE QueuesHold'
  OBVIOUS
<1> USE DEF TakeLine, callerVars, shellVars
<1>1. QueuesInv
  BY DEF QueuesHold
<1>2. /\ net \in Seq(Nat) /\ writeQ \in Seq(Nat) /\ writeQ # <<>> /\ line = <<>> /\ hand = <<>>
      /\ heard \in Nat /\ sent \in Nat /\ Ssh
  BY <1>1 DEF QueuesInv
<1>3. <<Head(writeQ)>> \in Seq(Nat) /\ Tail(writeQ) \in Seq(Nat)
  BY <1>2, Splitting
<1>4. QueuesInv'
  BY <1>1, <1>2, <1>3 DEF QueuesInv, Ssh
<1>5. LinesInv'
  <2>1. CASE Live
    <3>1. Lined(net, <<>>, writeQ, heard, sent)
      BY <1>2, <2>1 DEF QueuesHold, LinesInv
    <3>2. Lined(net, <<Head(writeQ)>>, Tail(writeQ), heard, sent)
      BY <1>2, <3>1, LineTaken
    <3> QED BY <3>2 DEF LinesInv
  <2>2. CASE ~Live
    BY <2>2 DEF LinesInv, Live, Dead
  <2> QED BY <2>1, <2>2
<1>6. ChunksInv' /\ RepliesInv'
  BY DEF QueuesHold, ChunksInv, RepliesInv, Open, Linked, Live, Dead, Ssh
<1> QED
  BY <1>4, <1>5, <1>6 DEF QueuesHold

LEMMA WriteLineHolds == QueuesHold /\ WriteLine => QueuesHold'
<1> SUFFICES ASSUME QueuesHold, WriteLine PROVE QueuesHold'
  OBVIOUS
<1> USE DEF WriteLine, callerVars, shellVars
<1>1. QueuesInv
  BY DEF QueuesHold
<1>2. /\ net \in Seq(Nat) /\ writeQ \in Seq(Nat) /\ line \in Seq(Nat) /\ hand = <<>>
      /\ heard \in Nat /\ sent \in Nat
  BY <1>1 DEF QueuesInv
<1>3. net \o line \in Seq(Nat) /\ <<>> \in Seq(Nat)
  BY <1>2, Joining, Lengths
<1>4. QueuesInv'
  BY <1>1, <1>2, <1>3 DEF QueuesInv, Ssh
<1>5. LinesInv'
  <2> SUFFICES ASSUME Live' PROVE Lined(net', line', writeQ', heard', sent')
    BY DEF LinesInv
  <2>1. Live /\ net' = net \o line
    BY DEF Live, Dead
  <2>2. Lined(net \o line, <<>>, writeQ, heard, sent)
    BY <1>2, <2>1, LineWritten DEF QueuesHold, LinesInv
  <2> QED BY <2>1, <2>2
<1>6. ChunksInv' /\ RepliesInv'
  BY DEF QueuesHold, ChunksInv, RepliesInv, Open, Linked, Live, Dead, Ssh
<1> QED
  BY <1>4, <1>5, <1>6 DEF QueuesHold

LEMMA ShellReadsHolds == QueuesHold /\ ShellReads => QueuesHold' /\ (Live => heard' = heard + 1)
<1> SUFFICES ASSUME QueuesHold, ShellReads PROVE QueuesHold' /\ (Live => heard' = heard + 1)
  OBVIOUS
<1> USE DEF ShellReads, callerVars, taskVars
<1>1. QueuesInv
  BY DEF QueuesHold
<1>2. /\ net \in Seq(Nat) /\ net # <<>> /\ line \in Seq(Nat) /\ writeQ \in Seq(Nat)
      /\ readQ \in Seq(Chunks) /\ hand \in Seq(Chunks) /\ out \in Seq(Chunks)
      /\ heard \in Nat /\ sent \in Nat
  BY <1>1 DEF QueuesInv
<1>3. Head(net) \in Nat /\ Tail(net) \in Seq(Nat)
  BY <1>2, Splitting
<1>4. QueuesInv'
  BY <1>1, <1>2, <1>3 DEF QueuesInv, Ssh
<1>5. Live => Head(net) = heard + 1 /\ Lined(Tail(net), line, writeQ, Head(net), sent)
  BY <1>2, LineRead DEF QueuesHold, LinesInv
<1>6. LinesInv'
  BY <1>5 DEF LinesInv, Live, Dead
<1>7. ChunksInv'
  BY DEF QueuesHold, ChunksInv
<1>8. RepliesInv'
  <2>1. Live => RepliesUpTo(readQ, heard + 1) /\ RepliesUpTo(hand, heard + 1) /\ RepliesUpTo(out, heard + 1)
    BY <1>2, RepliesLater DEF QueuesHold, RepliesInv, Live, Open, Linked
  <2> QED BY <1>5, <2>1 DEF RepliesInv, Open, Linked, Live, Dead, Ssh
<1> QED
  BY <1>4, <1>5, <1>6, <1>7, <1>8 DEF QueuesHold

LEMMA ShellPrintsHolds == QueuesHold /\ ShellPrints => QueuesHold'
<1> SUFFICES ASSUME QueuesHold, ShellPrints PROVE QueuesHold'
  OBVIOUS
<1> USE DEF ShellPrints, callerVars, taskVars
<1>1. QueuesInv
  BY DEF QueuesHold
<1>2. /\ got \in Seq(Chunks) /\ readQ \in Seq(Chunks) /\ hand \in Seq(Chunks) /\ out \in Seq(Chunks)
      /\ printed \in Nat /\ heard \in Nat
  BY <1>1 DEF QueuesInv
<1>3. PICK reply \in {0, heard}, ok \in BOOLEAN : out' = Append(out, [n |-> printed + 1, reply |-> reply, ok |-> ok])
  OBVIOUS
<1>4. [n |-> printed + 1, reply |-> reply, ok |-> ok] \in Chunks
  BY <1>2 DEF Chunks
<1>5. PICK c \in Chunks : c = [n |-> printed + 1, reply |-> reply, ok |-> ok]
  BY <1>4
<1>6. out' = Append(out, c) /\ c.n = printed + 1 /\ c.reply <= heard
  BY <1>2, <1>3, <1>5
<1>7. Append(out, c) \in Seq(Chunks)
  BY <1>2, Appending
<1>8. QueuesInv'
  BY <1>1, <1>2, <1>6, <1>7 DEF QueuesInv, Ssh
<1>9. LinesInv'
  BY DEF QueuesHold, LinesInv, Live, Dead
<1>10. ChunksInv'
  <2>1. CASE reading
    <3>1. Chained(got, readQ, hand, Append(out, c), printed + 1)
      BY <1>2, <1>6, <2>1, ChunkPrinted DEF QueuesHold, ChunksInv
    <3> QED BY <1>6, <3>1 DEF ChunksInv
  <2>2. CASE ~reading
    BY <2>2 DEF ChunksInv
  <2> QED BY <2>1, <2>2
<1>11. RepliesInv'
  <2>1. Open => RepliesUpTo(Append(out, c), heard)
    BY <1>2, <1>6, RepliesPrinted DEF QueuesHold, RepliesInv
  <2> QED BY <1>6, <2>1 DEF QueuesHold, RepliesInv, Open, Linked, Live, Dead, Ssh
<1> QED
  BY <1>8, <1>9, <1>10, <1>11 DEF QueuesHold
-----------------------------------------------------------------------------
(***************************************************************************)
(* Every step keeps what the caller's place tells of the lines under way.  *)
(***************************************************************************)
LEMMA StillCaller == LinkInv /\ Still => CallerInv'
<1> SUFFICES ASSUME LinkInv, Still, Open' PROVE CallerInv'
  BY DEF CallerInv
<1>1. sent' = sent /\ heard' = heard /\ Open /\ sent \in Nat /\ heard \in Nat
  BY StillQuiet DEF Quiet, LinkInv, QueuesHold, QueuesInv
<1>2. /\ sent - heard <= 4
      /\ caller = "connecting" => sent = 0
      /\ caller \in {"sending", "receiving"} => tries \in {1, 2}
      /\ caller = "sending" => burst \in 1..3 /\ sent - heard + burst <= IF tries = 2 THEN 1 ELSE 4
      /\ caller = "receiving" /\ tries = 2 => sent - heard <= 1
      /\ caller = "idle" => sent = heard
  BY <1>1 DEF LinkInv, CallerInv, FewLines
<1>3. CASE UNCHANGED <<caller, burst, tries>>
  BY <1>1, <1>2, <1>3 DEF CallerInv, FewLines
<1>8. heard <= sent
  <2>1. Len(net) \in Nat /\ Len(line) \in Nat /\ Len(writeQ) \in Nat
    BY Lengths DEF LinkInv, QueuesInv
  <2> QED BY <1>1, <2>1 DEF LinkInv, HeldInv
<1>4. CASE Connected \/ Command
  BY <1>1, <1>2, <1>4, <1>8 DEF Connected, Command, CallerInv, FewLines
<1>5. CASE ConnectFailed \/ WriteFails \/ Disconnected \/ ContainerCleaned \/ Killed \/ Joined
  BY <1>1, <1>2, <1>5 DEF ConnectFailed, WriteFails, Disconnected, ContainerCleaned, Killed, Joined,
                          Open, Dead, Ssh, CallerInv, FewLines
<1>6. CASE Deadline
  BY <1>1, <1>2, <1>6 DEF Deadline, CallerInv, FewLines
<1>7. CASE Drop
  <2>1. caller' \in {"dropping", "killing", "cleaning"}
    BY <1>7 DEF Drop, LinkInv, PlaceInv
  <2> QED BY <1>1, <1>2, <2>1 DEF CallerInv, FewLines
<1> QED
  <2>1. CASE LoginEnds \/ ChannelOpened \/ ChannelFailed \/ Inspected \/ TaskEnds \/ ShellExits \/ SurvivorEnds
               \/ UNCHANGED vars
    BY <1>3, <2>1 DEF LoginEnds, LoggedIn, LoginFailed, Inspected, ChannelOpened, ChannelFailed, Report,
                      TaskEnds, ShellExits, SurvivorEnds, vars, callerVars
  <2> QED BY <1>4, <1>5, <1>6, <1>7, <2>1 DEF Still

LEMMA MovesCaller ==
  ASSUME LinkInv, QueuesHold', HeldInv',
         Enqueue \/ WriteTerminal \/ Receive \/ ReadShell \/ Forward \/ TakeLine \/ WriteLine \/ ShellReads \/ ShellPrints
  PROVE  CallerInv'
<1> SUFFICES ASSUME Open' PROVE CallerInv'
  BY DEF CallerInv
<1>1. QueuesHold /\ sent \in Nat /\ heard \in Nat /\ sent' \in Nat /\ heard' \in Nat
  BY DEF LinkInv, QueuesHold, QueuesInv
<1>2. Open
  BY DEF Open, Linked, Dead, Ssh, Enqueue, WriteTerminal, Receive, ReadShell, Forward, TakeLine, WriteLine, ShellReads,
         ShellPrints, taskVars, shellVars
<1>3. /\ sent - heard <= 4
      /\ caller = "connecting" => sent = 0
      /\ caller \in {"sending", "receiving"} => tries \in {1, 2}
      /\ caller = "sending" => burst \in 1..3 /\ sent - heard + burst <= IF tries = 2 THEN 1 ELSE 4
      /\ caller = "receiving" /\ tries = 2 => sent - heard <= 1
      /\ caller = "idle" => sent = heard
  BY <1>2 DEF LinkInv, CallerInv, FewLines
<1>4. CASE Enqueue \/ WriteTerminal
  <2>1. /\ heard' = heard /\ sent' = sent + 1 /\ tries' = tries /\ burst' = burst - 1
        /\ caller' = IF burst = 1 THEN "receiving" ELSE "sending"
        /\ caller = "sending"
    BY <1>4 DEF Enqueue, WriteTerminal, AfterWrite, shellVars
  <2>2. tries \in {1, 2} /\ burst \in 1..3 /\ sent - heard + burst <= IF tries = 2 THEN 1 ELSE 4
    BY <1>3, <2>1
  <2>3. sent' - heard' <= 4 /\ (tries = 2 => sent' - heard' <= 1)
    BY <1>1, <2>1, <2>2
  <2>4. burst # 1 => burst' \in 1..3 /\ sent' - heard' + burst' <= IF tries' = 2 THEN 1 ELSE 4
    BY <1>1, <2>1, <2>2
  <2> QED BY <2>1, <2>2, <2>3, <2>4 DEF CallerInv, FewLines
<1>5. CASE Receive
  <2>1. Len(net) \in Nat /\ Len(line) \in Nat /\ Len(writeQ) \in Nat
    BY <1>1, Lengths DEF QueuesHold, QueuesInv
  <2>2. heard <= sent
    BY <1>1, <1>2, <2>1 DEF LinkInv, HeldInv
  <2>3. readQ \in Seq(Chunks) /\ readQ # <<>>
    BY <1>1, <1>5 DEF QueuesHold, QueuesInv, Receive
  <2>4. Head(readQ).reply <= heard
    BY <1>1, <1>2, <2>3, RepliesSplit DEF QueuesHold, RepliesInv
  <2>5. Head(readQ).reply \in Nat
    <3>1. Head(readQ) \in Chunks
      BY <2>3, Splitting
    <3> QED BY <3>1 DEF Chunks
  <2>6. Head(readQ).reply = sent => sent = heard
    BY <1>1, <2>2, <2>4, <2>5
  <2> QED BY <1>1, <1>3, <1>5, <2>6 DEF Receive, shellVars, CallerInv, FewLines
<1>6. CASE ReadShell \/ Forward \/ TakeLine \/ WriteLine \/ ShellPrints
  BY <1>1, <1>3, <1>6 DEF ReadShell, Forward, TakeLine, WriteLine, ShellPrints, callerVars, shellVars,
                          CallerInv, FewLines
<1>7. CASE ShellReads
  <2>1. heard' = heard + 1 /\ sent' = sent /\ caller' = caller /\ tries' = tries /\ burst' = burst
    BY <1>1, <1>2, <1>7, ShellReadsHolds DEF ShellReads, callerVars, Open, Linked, Live
  <2>2. Len(net') \in Nat /\ Len(line') \in Nat /\ Len(writeQ') \in Nat
    BY Lengths DEF QueuesHold, QueuesInv
  <2>3. heard' <= sent'
    BY <1>1, <2>2 DEF HeldInv
  <2> QED BY <1>1, <1>3, <2>1, <2>3 DEF CallerInv, FewLines
<1> QED
  BY <1>4, <1>5, <1>6, <1>7

LEMMA StillHeld == LinkInv /\ Still => HeldInv'
<1> SUFFICES ASSUME LinkInv, Still, Open' PROVE HeldInv'
  BY DEF HeldInv
<1>1. /\ UNCHANGED <<sent, heard, line, writeQ>> /\ Open
      /\ net' = net \/ net' = <<>>
  BY StillQuiet DEF Quiet, LinkInv, QueuesHold
<1>2. /\ Len(net) \in Nat /\ Len(line) \in Nat /\ Len(writeQ) \in Nat /\ Len(<<>>) = 0
      /\ sent \in Nat /\ heard \in Nat
  BY Lengths DEF LinkInv, QueuesInv
<1>3. Len(net) + Len(line) + Len(writeQ) <= sent - heard
  BY <1>1 DEF LinkInv, HeldInv
<1>4. PICK few \in Nat : few = Len(net') /\ few <= Len(net)
  BY <1>1, <1>2
<1>5. few + Len(line) + Len(writeQ) <= sent - heard
  BY <1>2, <1>3, <1>4
<1> QED BY <1>1, <1>4, <1>5 DEF HeldInv

LEMMA MovesHeld ==
  ASSUME LinkInv,
         Enqueue \/ WriteTerminal \/ Receive \/ ReadShell \/ Forward \/ TakeLine \/ WriteLine \/ ShellReads \/ ShellPrints
  PROVE  HeldInv'
<1> SUFFICES ASSUME Open' PROVE HeldInv'
  BY DEF HeldInv
<1>1. /\ net \in Seq(Nat) /\ line \in Seq(Nat) /\ writeQ \in Seq(Nat)
      /\ sent \in Nat /\ heard \in Nat
  BY DEF LinkInv, QueuesInv
<1>2. Len(net) \in Nat /\ Len(line) \in Nat /\ Len(writeQ) \in Nat /\ Len(<<>>) = 0
  BY <1>1, Lengths
<1>3. Open
  BY DEF Open, Linked, Dead, Ssh, Enqueue, WriteTerminal, Receive, ReadShell, Forward, TakeLine, WriteLine, ShellReads,
         ShellPrints, taskVars, shellVars
<1>4. Len(net) + Len(line) + Len(writeQ) <= sent - heard
  BY <1>3 DEF LinkInv, HeldInv
<1>5. CASE Enqueue
  <2>1. Len(Append(writeQ, sent + 1)) = Len(writeQ) + 1
    BY <1>1, Appending
  <2>2. UNCHANGED <<net, line, heard>> /\ writeQ' = Append(writeQ, sent + 1) /\ sent' = sent + 1
    BY <1>5 DEF Enqueue, AfterWrite, taskVars, shellVars
  <2> QED BY <1>1, <1>2, <1>4, <2>1, <2>2 DEF HeldInv
<1>6. CASE WriteTerminal
  <2>1. Len(Append(net, sent + 1)) = Len(net) + 1
    BY <1>1, Appending
  <2>2. UNCHANGED <<writeQ, line, heard>> /\ net' = Append(net, sent + 1) /\ sent' = sent + 1
    BY <1>6 DEF WriteTerminal, AfterWrite, taskVars, shellVars
  <2> QED BY <1>1, <1>2, <1>4, <2>1, <2>2 DEF HeldInv
<1>7. CASE Receive \/ ReadShell \/ Forward \/ ShellPrints
  <2>1. UNCHANGED <<net, line, writeQ, sent, heard>>
    BY <1>7 DEF Receive, ReadShell, Forward, ShellPrints, callerVars, taskVars, shellVars
  <2> QED BY <1>4, <2>1 DEF HeldInv
<1>8. CASE TakeLine
  <2>1. line = <<>> /\ line' = <<Head(writeQ)>> /\ writeQ' = Tail(writeQ) /\ UNCHANGED <<net, sent, heard>>
        /\ writeQ # <<>>
    BY <1>8 DEF LinkInv, QueuesInv, TakeLine, callerVars, shellVars
  <2>2. Len(Tail(writeQ)) = Len(writeQ) - 1 /\ Len(<<Head(writeQ)>>) = 1
    BY <1>1, <2>1, Splitting
  <2> QED BY <1>2, <1>4, <2>1, <2>2 DEF HeldInv
<1>9. CASE WriteLine
  <2>1. net' = net \o line /\ line' = <<>> /\ UNCHANGED <<writeQ, sent, heard>>
    BY <1>9 DEF WriteLine, callerVars, shellVars, Open, Dead
  <2>2. Len(net \o line) = Len(net) + Len(line)
    BY <1>1, Joining
  <2> QED BY <1>2, <1>4, <2>1, <2>2 DEF HeldInv
<1>10. CASE ShellReads
  <2>1. net # <<>> /\ net' = Tail(net) /\ UNCHANGED <<line, writeQ, sent>>
    BY <1>10 DEF ShellReads, callerVars, taskVars
  <2>2. Len(Tail(net)) = Len(net) - 1
    BY <1>1, <2>1, Splitting
  <2>3. heard' = heard + 1
    BY <1>3, <1>10, ShellReadsHolds DEF ShellReads, Open, Linked, Live, LinkInv, QueuesHold
  <2> QED BY <1>1, <1>2, <1>4, <2>1, <2>2, <2>3 DEF HeldInv
<1> QED
  BY <1>5, <1>6, <1>7, <1>8, <1>9, <1>10
-----------------------------------------------------------------------------
(***************************************************************************)
(* Every step keeps where the caller and the thread can be together.       *)
(***************************************************************************)
LEMMA NextPlace == LinkInv /\ [Next]_vars => PlaceInv'
<1> SUFFICES ASSUME LinkInv, [Next]_vars PROVE PlaceInv'
  OBVIOUS
<1> USE DEF LinkInv, PlaceInv, Dead, Ssh, Linked, callerVars, taskVars, shellVars
<1>1. CASE LoginEnds \/ ChannelOpened \/ ChannelFailed \/ Inspected
  BY <1>1 DEF LoginEnds, LoggedIn, LoginFailed, Inspected, ChannelOpened, ChannelFailed, Report
<1>2. CASE Connected \/ Command \/ Disconnected \/ Deadline
  <2>1. /\ caller \in {"connecting", "idle", "receiving"} /\ caller' \in {"sending", "spent"}
        /\ caller = "connecting" => ready = "ok"
    BY <1>2 DEF Connected, Command, Disconnected, Deadline
  <2>2. UNCHANGED <<kind, writing, reading, taskVars, shellVars>>
    BY <1>2 DEF Connected, Command, Disconnected, Deadline
  <2> QED BY <2>1, <2>2
<1>15. CASE ConnectFailed
  BY <1>15 DEF ConnectFailed
<1>3. CASE Enqueue \/ WriteTerminal
  <2>1. caller = "sending" /\ caller' \in {"receiving", "sending"}
    BY <1>3 DEF Enqueue, WriteTerminal, AfterWrite
  <2>2. UNCHANGED <<kind, writing, reading, taskVars, shellVars>>
    BY <1>3 DEF Enqueue, WriteTerminal, AfterWrite
  <2> QED BY <2>1, <2>2
<1>13. CASE WriteFails
  BY <1>13 DEF WriteFails
<1>14. CASE Receive
  <2>1. caller = "receiving" /\ caller' \in {"receiving", "idle", "spent"}
    BY <1>14 DEF Receive
  <2>2. UNCHANGED <<kind, writing, reading, taskVars, shellVars>>
    BY <1>14 DEF Receive
  <2> QED BY <2>1, <2>2
<1>4. CASE Drop
  <2>1. caller' = IF Ssh THEN "dropping" ELSE IF kind = "local" THEN "killing" ELSE "cleaning"
    BY <1>4 DEF Drop
  <2>2. UNCHANGED <<kind, taskVars, shellVars>>
    BY <1>4 DEF Drop
  <2>3. IF Ssh THEN writing' = FALSE /\ reading' = FALSE ELSE UNCHANGED <<writing, reading>>
    BY <1>4 DEF Drop
  <2>4. caller \in {"idle", "spent"}
    BY <1>4 DEF Drop
  <2> QED BY <2>1, <2>2, <2>3, <2>4
<1>12. CASE ContainerCleaned
  BY <1>12 DEF ContainerCleaned
<1>5. CASE Joined
  BY <1>5 DEF Joined
<1>11. CASE Killed
  BY <1>11 DEF Killed, Hangup, Gone
<1>6. CASE ReadShell \/ WriteLine \/ TaskEnds
  BY <1>6 DEF ReadShell, WriteLine, TaskEnds
<1>10. CASE Forward
  BY <1>10 DEF Forward
<1>7. CASE TakeLine
  <2>1. writeQ \in Seq(Nat) /\ writeQ # <<>>
    BY <1>7 DEF QueuesInv, TakeLine
  <2>2. Len(<<Head(writeQ)>>) = 1
    BY <2>1, Splitting
  <2> QED BY <1>7, <2>2 DEF TakeLine
<1>8. CASE ShellReads \/ ShellPrints \/ ShellExits \/ SurvivorEnds
  BY <1>8 DEF ShellReads, ShellPrints, ShellExits, SurvivorEnds, Gone
<1>9. CASE UNCHANGED vars
  BY <1>9 DEF vars
<1> QED
  BY <1>1, <1>2, <1>3, <1>4, <1>5, <1>6, <1>7, <1>8, <1>9, <1>10, <1>11, <1>12, <1>13, <1>14, <1>15 DEF Next, Caller, Task

LEMMA NextLink == LinkInv /\ [Next]_vars => LinkInv'
<1> SUFFICES ASSUME LinkInv, [Next]_vars PROVE LinkInv'
  OBVIOUS
<1>1. QueuesHold
  BY DEF LinkInv, QueuesHold
<1>4. PlaceInv'
  BY NextPlace
<1>2. CASE Still
  <2>1. QueuesHold'
    BY <1>1, <1>2, StillQuiet, QuietHolds
  <2>2. CallerInv'
    BY <1>2, StillCaller
  <2>3. HeldInv'
    BY <1>2, StillHeld
  <2> QED BY <1>4, <2>1, <2>2, <2>3 DEF LinkInv, QueuesHold
<1>3. CASE Enqueue \/ WriteTerminal \/ Receive \/ ReadShell \/ Forward \/ TakeLine \/ WriteLine \/ ShellReads \/ ShellPrints
  <2>1. QueuesHold'
    BY <1>1, <1>3, EnqueueHolds, WriteTerminalHolds, ReceiveHolds, ReadShellHolds, ForwardHolds,
       TakeLineHolds, WriteLineHolds, ShellReadsHolds, ShellPrintsHolds
  <2>2. HeldInv'
    BY <1>3, MovesHeld
  <2>3. CallerInv'
    BY <1>3, <2>1, <2>2, MovesCaller
  <2> QED BY <1>4, <2>1, <2>2, <2>3 DEF LinkInv, QueuesHold
<1> QED
  BY <1>2, <1>3 DEF Next, Caller, Task, Still

LEMMA LinkInvHolds == Spec => []LinkInv
<1> QED
  BY InitLink, NextLink, PTL DEF Spec
-----------------------------------------------------------------------------
(***************************************************************************)
(* What the invariant says of the queues together.                         *)
(***************************************************************************)
LEMMA LinesTogether ==
  ASSUME NEW n \in Seq(Nat), NEW l \in Seq(Nat), NEW q \in Seq(Nat), NEW from \in Nat, NEW to \in Nat,
         Lined(n, l, q, from, to)
  PROVE  n \o l \o q = Numbers(from + 1, to)
<1>1. PICK m \in Seq(Nat) : m = n \o l
  BY Joining
<1>2. PICK e \in Seq(Nat) : e = <<>> /\ Len(e) = 0
  BY Lengths
<1>3. Lined(m, e, q, from, to)
  BY <1>1, <1>2, LineWritten
<1>4. PICK k \in Seq(Nat) : k = m \o q
  BY Joining
<1>5. Lined(m, q, e, from, to)
  BY <1>2, <1>3, Lengths DEF Lined
<1>6. Lined(k, e, e, from, to)
  BY <1>2, <1>4, <1>5, LineWritten
<1>7. to = from + Len(k) /\ Len(k) \in Nat /\ \A i \in 1..Len(k) : k[i] = from + i
  BY <1>2, <1>6, Lengths DEF Lined
<1>8. k = [i \in 1..Len(k) |-> k[i]]
  OBVIOUS
<1>9. k = [i \in 1..Len(k) |-> from + i]
  BY <1>7, <1>8
<1>10. Numbers(from + 1, to) = [i \in 1..Len(k) |-> from + i]
  BY <1>7 DEF Numbers
<1> QED
  BY <1>1, <1>4, <1>9, <1>10

LEMMA ChunksJoined ==
  ASSUME NEW g \in Seq(Chunks), NEW r \in Seq(Chunks), NEW h \in Seq(Chunks), NEW o \in Seq(Chunks),
         NEW to \in Nat, Chained(g, r, h, o, to)
  PROVE  Chained(g \o r, h, o, <<>>, to)
<1>1. PICK q \in Seq(Chunks), e \in Seq(Chunks) : q = g \o r /\ e = <<>>
  BY Joining, Lengths
<1>2. /\ Len(q) = Len(g) + Len(r) /\ Len(e) = 0
      /\ \A i \in 1..Len(g) : q[i] = g[i]
      /\ \A i \in 1..Len(r) : q[Len(g) + i] = r[i]
      /\ Len(g) \in Nat /\ Len(r) \in Nat /\ Len(h) \in Nat /\ Len(o) \in Nat
  BY <1>1, Joining, Lengths
<1>3. /\ \A i \in 1..Len(g) : g[i].n = i
      /\ \A i \in 1..Len(r) : r[i].n = Len(g) + i
  BY DEF Chained
<1>4. ASSUME NEW i \in 1..Len(q) PROVE q[i].n = i
  <2>1. CASE i <= Len(g)
    <3>1. i \in 1..Len(g)
      BY <1>2, <2>1
    <3>2. q[i] = g[i]
      BY <1>2, <3>1
    <3> QED BY <1>3, <3>1, <3>2
  <2>2. CASE i > Len(g)
    <3>1. i - Len(g) \in 1..Len(r) /\ i = Len(g) + (i - Len(g))
      BY <1>2, <2>2
    <3>2. PICK j \in 1..Len(r) : i = Len(g) + j
      BY <3>1
    <3>3. q[i] = r[j]
      BY <1>2, <3>2
    <3> QED BY <1>2, <1>3, <3>2, <3>3
  <2> QED BY <1>2, <2>1, <2>2
<1>5. Chained(q, h, o, e, to)
  BY <1>2, <1>4 DEF Chained
<1> QED
  BY <1>1, <1>5

LEMMA ChunksTogether ==
  ASSUME NEW g \in Seq(Chunks), NEW r \in Seq(Chunks), NEW h \in Seq(Chunks), NEW o \in Seq(Chunks),
         NEW to \in Nat, Chained(g, r, h, o, to)
  PROVE  [i \in 1..Len(g \o r \o h \o o) |-> (g \o r \o h \o o)[i].n] = Numbers(1, to)
<1>1. PICK e \in Seq(Chunks) : e = <<>> /\ Len(e) = 0
  BY Lengths
<1>2. PICK a \in Seq(Chunks) : a = g \o r
  BY Joining
<1>3. PICK b \in Seq(Chunks) : b = a \o h
  BY Joining
<1>4. PICK c \in Seq(Chunks) : c = b \o o
  BY Joining
<1>5. Chained(a, h, o, e, to)
  BY <1>1, <1>2, ChunksJoined
<1>6. Chained(b, o, e, e, to)
  BY <1>1, <1>3, <1>5, ChunksJoined
<1>7. Chained(c, e, e, e, to)
  BY <1>1, <1>4, <1>6, ChunksJoined
<1>8. to = Len(c) /\ \A i \in 1..Len(c) : c[i].n = i
  BY <1>1, <1>7, Lengths DEF Chained
<1>9. g \o r \o h \o o = c
  BY <1>2, <1>3, <1>4
<1>10. Numbers(1, to) = [i \in 1..Len(c) |-> i]
  BY <1>8, Lengths DEF Numbers
<1> QED
  BY <1>8, <1>9, <1>10

\* write_all and recv_timeout lose, repeat or reorder nothing, over every transport.
THEOREM NothingLostCorrect == Spec => []NothingLost
<1>1. LinkInv => NothingLost
  <2> SUFFICES ASSUME LinkInv PROVE NothingLost
    OBVIOUS
  <2>1. QueuesInv /\ LinesInv /\ ChunksInv
    BY DEF LinkInv
  <2>2. ASSUME shell = "up", ~Dead PROVE net \o line \o writeQ = Numbers(heard + 1, sent)
    <3>1. Lined(net, line, writeQ, heard, sent)
      BY <2>1, <2>2 DEF LinesInv, Live
    <3>2. net \in Seq(Nat) /\ line \in Seq(Nat) /\ writeQ \in Seq(Nat) /\ heard \in Nat /\ sent \in Nat
      BY <2>1 DEF QueuesInv
    <3> QED BY <3>1, <3>2, LinesTogether
  <2>3. ASSUME reading
        PROVE  [i \in 1..Len(got \o readQ \o hand \o out) |-> (got \o readQ \o hand \o out)[i].n]
                 = Numbers(1, printed)
    <3>1. Chained(got, readQ, hand, out, printed)
      BY <2>1, <2>3 DEF ChunksInv
    <3>2. /\ got \in Seq(Chunks) /\ readQ \in Seq(Chunks) /\ hand \in Seq(Chunks) /\ out \in Seq(Chunks)
          /\ printed \in Nat
      BY <2>1 DEF QueuesInv
    <3> QED BY <3>1, <3>2, ChunksTogether
  <2> QED BY <2>2, <2>3 DEF NothingLost
<1> QED
  BY <1>1, LinkInvHolds, PTL

\* At most a command's line and the three writes of its resync are under way.
THEOREM FewLinesCorrect == Spec => []FewLines
<1>1. LinkInv => FewLines
  BY DEF LinkInv, CallerInv, FewLines
<1> QED
  BY <1>1, LinkInvHolds, PTL

\* With a queue of four lines or more, nobody waits for whom waits for him: a write goes
\* through or fails, and the thread of a dropped transport is never held, but by a line
\* that does not fit or, in a terminal, by a process that the shell left behind.
THEOREM NoStandoffCorrect == Spec => []NoStandoff
<1>1. LinkInv => NoStandoff
  <2> SUFFICES ASSUME LinkInv, Roomy
               PROVE  /\ caller = "sending" => Writable \/ Stalled
                      /\ caller \in {"dropping", "dropped"} => TaskUnheld \/ Stalled \/ (~Ssh /\ survivor)
    BY DEF NoStandoff
  <2>1. /\ Len(net) \in Nat /\ Len(line) \in Nat /\ Len(writeQ) \in Nat
        /\ sent \in Nat /\ heard \in Nat /\ WriteCap \in Nat /\ Window \in Nat
    BY TransportAssumption, Lengths DEF LinkInv, QueuesInv
  <2>2. ASSUME caller = "sending" PROVE Writable \/ Stalled
    <3>1. CASE ~Ssh
      BY <2>1, <2>2, <3>1 DEF Writable, Stalled
    <3>2. CASE Ssh /\ ~Dead
      <4>1. Open
        BY <3>2 DEF Open
      <4>2. /\ Len(net) + Len(line) + Len(writeQ) <= sent - heard
            /\ burst \in 1..3 /\ tries \in {1, 2} /\ sent - heard + burst <= IF tries = 2 THEN 1 ELSE 4
        BY <2>2, <4>1 DEF LinkInv, HeldInv, CallerInv
      <4>3. Len(writeQ) <= 3
        BY <2>1, <4>2
      <4> QED BY <2>1, <3>2, <4>3 DEF Roomy, Writable
    <3>3. CASE Ssh /\ Dead
      BY <3>3 DEF Writable
    <3> QED BY <3>1, <3>2, <3>3
  <2>3. ASSUME caller \in {"dropping", "dropped"}
        PROVE  TaskUnheld \/ Stalled \/ (~Ssh /\ survivor)
    <3>1. /\ ~reading /\ ~writing
          /\ task \in {"select", "forward", "write", "ended"}
          /\ ~Ssh => Dead \/ shell # "up"
          /\ survivor \in BOOLEAN
          /\ task = "write" => Len(line) = 1
      <4>1. ready # "none"
        BY <2>3 DEF LinkInv, PlaceInv
      <4> QED BY <2>3, <4>1 DEF LinkInv, PlaceInv
    <3>2. task = "write" => TaskUnheld \/ Stalled
      <4>1. ~Ssh => Len(line) = 0
        BY Lengths DEF LinkInv, QueuesInv
      <4>2. Len(net) < Window \/ Len(net) >= Window
        BY <2>1
      <4>3. ASSUME task = "write" PROVE Ssh
        BY <3>1, <4>1, <4>3
      <4> QED BY <4>2, <4>3, Zenon DEF TaskUnheld, Stalled
    <3> QED BY <3>1, <3>2 DEF TaskUnheld, Dead, Linked
  <2> QED BY <2>2, <2>3
<1> QED
  BY <1>1, LinkInvHolds, PTL

\* A terminal or a window that takes four lines takes whatever a session writes, so no
\* line waits for a shell that does not read.
THEOREM NoStallWithRoom == Spec => [](Window >= 4 => ~Stalled)
<1>1. LinkInv => (Window >= 4 => ~Stalled)
  <2> SUFFICES ASSUME LinkInv, Window >= 4, Stalled PROVE FALSE
    OBVIOUS
  <2>1. /\ Len(net) \in Nat /\ Len(line) \in Nat /\ Len(writeQ) \in Nat
        /\ sent \in Nat /\ heard \in Nat /\ Window \in Nat
    BY TransportAssumption, Lengths DEF LinkInv, QueuesInv
  <2>2. Linked /\ Len(net) >= Window
    BY DEF Stalled
  <2>3. CASE Ssh
    <3>1. task = "write" /\ Open /\ Len(line) = 1
      BY <2>3 DEF Stalled, Open, Dead, LinkInv, PlaceInv
    <3>2. sent - heard <= 4 /\ Len(net) + Len(line) + Len(writeQ) <= sent - heard
      BY <3>1 DEF LinkInv, HeldInv, CallerInv, FewLines
    <3> QED BY <2>1, <2>2, <3>1, <3>2
  <2>4. CASE ~Ssh
    <3>1. caller = "sending"
      BY <2>4 DEF Stalled
    <3>2. Open
      BY <2>2, <2>4, <3>1 DEF Open, LinkInv, PlaceInv
    <3>3. /\ Len(net) + Len(line) + Len(writeQ) <= sent - heard
          /\ burst \in 1..3 /\ tries \in {1, 2} /\ sent - heard + burst <= IF tries = 2 THEN 1 ELSE 4
      BY <3>1, <3>2 DEF LinkInv, HeldInv, CallerInv
    <3> QED BY <2>1, <2>2, <3>3
  <2> QED BY <2>3, <2>4
<1> QED
  BY <1>1, LinkInvHolds, PTL
=============================================================================
