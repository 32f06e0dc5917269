-------------------------- MODULE AccumulatorProofs --------------------------
(***************************************************************************)
(* The Accumulator for every cap, every output and every cutting into      *)
(* chunks: its tracked indexes lie in the buffer, no byte is lost from its *)
(* count, and the results, the partial outputs and the buffer itself are   *)
(* what the command printed, but for middles that were elided. The last    *)
(* part rests on ContentInv, which says of every index of the buffer which *)
(* byte of the stream stands there.                                        *)
(***************************************************************************)
EXTENDS Accumulator, TLAPS, FiniteSetTheorems, SequenceTheorems

\* The length of a separator is a number.
LEMMA SepLenNat == ASSUME NEW n \in Nat PROVE SepLen(n) \in Nat
<1> DEFINE D == {k \in 0..9 : 10^k <= n}
<1>1. IsFiniteSet(0..9)
  BY 0 \in Int, 9 \in Int, FS_Interval, Zenon
<1>2. D \subseteq 0..9
  OBVIOUS
<1>3. IsFiniteSet(D)
  BY <1>1, <1>2, FS_Subset
<1>4. Cardinality(D) \in Nat
  BY <1>3, FS_CardinalityType
<1>5. SepLen(n) = IF n = 0 THEN 0 ELSE 1 + Cardinality(D)
  BY DEF SepLen
<1> QED
  BY <1>4, <1>5

\* A part of a sequence is a sequence, as long as its bounds say.
LEMMA PartLen ==
  ASSUME NEW S, NEW s \in Seq(S), NEW m \in Nat, NEW n \in Nat, 1 <= m, m <= n + 1, n <= Len(s)
  PROVE  SubSeq(s, m, n) \in Seq(S) /\ Len(SubSeq(s, m, n)) = n - m + 1
<1>1. \A i \in m..n : s[i] \in S
  BY ElementOfSeq, LenProperties
<1> QED
  BY <1>1, SubSeqProperties

\* Two sequences after each other.
LEMMA ConcatLen ==
  ASSUME NEW S, NEW s \in Seq(S), NEW t \in Seq(S)
  PROVE  s \o t \in Seq(S) /\ Len(s \o t) = Len(s) + Len(t)
BY ConcatProperties

\* Equal bytes.
LEMMA CopiesLen ==
  ASSUME NEW n \in Nat, NEW S, NEW k \in S
  PROVE  Copies(n, k) \in Seq(S) /\ Len(Copies(n, k)) = n
BY DEF Copies

\* A buffer after t bytes of the stream.
Buffer(b, t) == b \in Seq(0..t) /\ Len(b) \in Nat

\* The middle of a buffer replaced by a separator.
Spliced(b, x, sep, y) == SubSeq(b, 1, x) \o sep \o SubSeq(b, y + 1, Len(b))

\* Its length.
LEMMA SpliceLen ==
  ASSUME NEW t \in Nat, NEW b, Buffer(b, t), NEW sep, Buffer(sep, t),
         NEW x \in Nat, NEW y \in Nat, x <= y, y <= Len(b)
  PROVE  /\ Buffer(Spliced(b, x, sep, y), t)
         /\ Len(Spliced(b, x, sep, y)) = x + Len(sep) + (Len(b) - y)
<1> DEFINE head == SubSeq(b, 1, x)
           tail == SubSeq(b, y + 1, Len(b))
<1>1. b \in Seq(0..t) /\ sep \in Seq(0..t) /\ Len(b) \in Nat /\ Len(sep) \in Nat
  BY DEF Buffer
<1>2. head \in Seq(0..t) /\ Len(head) = x
  <2>1. SubSeq(b, 1, x) \in Seq(0..t) /\ Len(SubSeq(b, 1, x)) = x - 1 + 1
    BY <1>1, PartLen
  <2> QED
    BY <2>1
<1>3. tail \in Seq(0..t) /\ Len(tail) = Len(b) - y
  <2>1. PICK m \in Nat : m = y + 1
    OBVIOUS
  <2>2. SubSeq(b, m, Len(b)) \in Seq(0..t) /\ Len(SubSeq(b, m, Len(b))) = Len(b) - m + 1
    BY <1>1, <2>1, PartLen
  <2>3. Len(b) - m + 1 = Len(b) - y
    BY <1>1, <2>1
  <2> QED
    BY <2>1, <2>2, <2>3, Zenon
<1> HIDE DEF head, tail
<1>4. head \o sep \in Seq(0..t) /\ Len(head \o sep) = Len(head) + Len(sep)
  BY <1>1, <1>2, ConcatLen
<1>5. /\ (head \o sep) \o tail \in Seq(0..t)
      /\ Len((head \o sep) \o tail) = Len(head \o sep) + Len(tail)
  BY <1>3, <1>4, ConcatLen
<1>6. Len((head \o sep) \o tail) = x + Len(sep) + (Len(b) - y)
  BY <1>2, <1>3, <1>4, <1>5, Zenon
<1>7. Len((head \o sep) \o tail) \in Nat
  BY <1>5, LenProperties
<1> QED
  BY <1>5, <1>6, <1>7 DEF head, tail, Spliced, Buffer

\* What is elided from a range of a buffer, in numbers.
LEMMA CutCounts ==
  ASSUME NEW l \in Nat, NEW from \in Nat, NEW to \in Nat, NEW keep \in Nat,
         NEW n \in Nat, NEW sep \in Nat, to <= l,
         to - from - 2 * keep > sep
  PROVE  /\ to - from - 2 * keep \in Nat
         /\ n + (to - from - 2 * keep) - sep \in Nat
         /\ from + keep \in Nat /\ to - keep \in Nat
         /\ from + keep <= to - keep /\ to - keep <= l
OBVIOUS

\* What a compaction r of b[from+1..to] keeps.
Compaction(r, b, from, to, n, t) ==
  /\ Buffer(r.buf, t) /\ r.to \in Nat /\ r.elided \in Nat
  /\ r.to >= from /\ Len(r.buf) - r.to = Len(b) - to
  /\ Len(r.buf) - SepLen(r.elided) + r.elided = Len(b) - SepLen(n) + n

\* compact_range: what follows the range keeps its length, and the bytes of the
\* buffer without the separator, plus those elided, are as many as before.
LEMMA CompactRangeCounts ==
  ASSUME NEW t \in Nat, NEW b, Buffer(b, t), NEW from \in Nat, NEW to \in Nat,
         from <= to, to <= Len(b), NEW keep \in Nat, NEW n \in Nat
  PROVE  Compaction(CompactRange(b, from, to, keep, n), b, from, to, n, t)
<1> DEFINE r == CompactRange(b, from, to, keep, n)
           cut == to - from - 2 * keep
<1>1. SepLen(n) \in Nat /\ Len(b) \in Nat
  BY SepLenNat DEF Buffer
<1>2. CASE cut <= SepLen(n)
  <2>1. r = [buf |-> b, to |-> to, elided |-> n]
    BY <1>2 DEF CompactRange
  <2> QED
    BY <2>1 DEF Compaction
<1>3. CASE ~(cut <= SepLen(n))
  <2> DEFINE sum == n + cut - SepLen(n)
             copies == Copies(SepLen(sum), 0)
             nb == Spliced(b, from + keep, copies, to - keep)
             nto == to - cut + SepLen(sum)
  <2>1. r = [buf |-> nb, to |-> nto, elided |-> sum]
    BY <1>3 DEF CompactRange, Spliced
  <2>2. cut > SepLen(n)
    BY <1>1, <1>3
  <2>3. /\ cut \in Nat /\ sum \in Nat
        /\ from + keep \in Nat /\ to - keep \in Nat
        /\ from + keep <= to - keep /\ to - keep <= Len(b)
    BY <1>1, <2>2, CutCounts
  <2> HIDE DEF sum
  <2>4. SepLen(sum) \in Nat
    BY <2>3, SepLenNat
  <2>5. Buffer(copies, t) /\ Len(copies) = SepLen(sum)
    BY <2>4, CopiesLen, 0 \in 0..t DEF Buffer
  <2> HIDE DEF copies, r
  <2>6. Buffer(nb, t) /\ Len(nb) = from + keep + Len(copies) + (Len(b) - (to - keep))
    <3>1. /\ from + keep \in Nat /\ to - keep \in Nat
          /\ from + keep <= to - keep /\ to - keep <= Len(b)
          /\ Buffer(b, t) /\ Buffer(copies, t)
      BY <2>3, <2>5
    <3>2. PICK x \in Nat, y \in Nat : x = from + keep /\ y = to - keep
      BY <3>1
    <3>3. x <= y /\ y <= Len(b)
      BY <3>1, <3>2, Zenon
    <3>4. Buffer(Spliced(b, x, copies, y), t)
      BY <3>1, <3>3, SpliceLen
    <3>5. Len(Spliced(b, x, copies, y)) = x + Len(copies) + (Len(b) - y)
      BY <3>1, <3>3, SpliceLen
    <3> QED
      BY <3>2, <3>4, <3>5, Zenon
  <2> HIDE DEF nb
  <2>7. Len(nb) = from + keep + SepLen(sum) + (Len(b) - (to - keep))
    BY <2>5, <2>6
  <2>8. sum = n + (to - from - 2 * keep) - SepLen(n)
    BY DEF sum
  <2>9. /\ nto \in Nat /\ nto >= from
        /\ Len(nb) - nto = Len(b) - to
        /\ Len(nb) - SepLen(sum) + sum = Len(b) - SepLen(n) + n
    <3>1. PICK l \in Nat, u \in Nat, v \in Nat :
             l = Len(b) /\ u = SepLen(n) /\ v = SepLen(sum)
      BY <1>1, <2>4
    <3>2. Len(nb) = from + keep + v + (l - (to - keep))
      BY <2>7, <3>1, Zenon
    <3>3. sum = n + (to - from - 2 * keep) - u
      BY <2>8, <3>1, Zenon
    <3>4. nto = to - (to - from - 2 * keep) + v
      BY <3>1, Zenon
    <3>5. to - from - 2 * keep > u
      BY <2>2, <3>1, Zenon
    <3> HIDE DEF nto, cut
    <3>6. nto \in Nat
      BY <3>4
    <3>7. nto >= from
      BY <3>4
    <3>8. Len(nb) - nto = l - to
      BY <3>2, <3>4
    <3>9. Len(nb) - v + sum = l - u + n
      BY <3>2, <3>3
    <3> QED
      BY <3>1, <3>6, <3>7, <3>8, <3>9, Zenon
  <2> HIDE DEF nto
  <2>10. r.buf = nb /\ r.to = nto /\ r.elided = sum
    BY <2>1
  <2> QED
    BY <2>3, <2>6, <2>9, <2>10, Zenon DEF r, Compaction
<1> QED
  BY <1>2, <1>3

\* What the tracked indexes of a buffer b may be.
Tracked(b, s, e) ==
  /\ s \in 0..Len(b) /\ e \in 0..(Len(b) + 1)
  /\ e # 0 => s \in 1..(e - 1)

\* track_start: the indexes it finds or keeps lie in the buffer.
LEMMA TrackFacts ==
  ASSUME NEW b, Len(b) \in Nat, Tracked(b, start, stderrAt)
  PROVE  Tracked(b, TrackStart(b), TrackStderr(b, TrackStart(b)))
<1> DEFINE s == TrackStart(b)
           e == TrackStderr(b, s)
<1>1. Len(b) \in Nat /\ Len(StartMarker) = 2
  BY DEF StartMarker
<1>2. start # 0 => s = start
  BY DEF TrackStart
<1>3. s \in 0..Len(b)
  <2> DEFINE new == {i \in Occurrences(b, StartMarker) :
                       /\ i > scanned - (Len(StartMarker) - 1 + HDR)
                       /\ ValidHeader(b, i + Len(StartMarker))}
             first == {i \in new : \A j \in new : i <= j}
  <2>1. s = IF start # 0 \/ first = {} THEN start ELSE CHOOSE i \in first : TRUE
    BY DEF TrackStart
  <2>2. new \subseteq 1..(Len(b) - 1)
    BY <1>1 DEF Occurrences
  <2>3. first \subseteq 0..Len(b)
    BY <1>1, <2>2
  <2>4. start \in 0..Len(b)
    BY DEF Tracked
  <2> HIDE DEF first, s
  <2> QED
    BY <2>1, <2>3, <2>4
<1> HIDE DEF s
<1>4. e \in 0..(Len(b) + 1) /\ (e # 0 => s \in 1..(e - 1))
  <2> DEFINE third == NthSeparator(b, s + Len(StartMarker), Len(b), 3)
  <2>1. e = IF stderrAt # 0 \/ s = 0 \/ third = {} THEN stderrAt ELSE (CHOOSE k \in third : TRUE) + 1
    BY DEF TrackStderr
  <2>2. third \subseteq (s + 2)..Len(b)
    BY <1>1 DEF NthSeparator, Separators
  <2> HIDE DEF third, e
  <2>3. CASE stderrAt # 0
    BY <1>2, <2>1, <2>3 DEF Tracked
  <2>4. CASE stderrAt = 0 /\ (s = 0 \/ third = {})
    BY <1>1, <2>1, <2>4
  <2>5. CASE stderrAt = 0 /\ s # 0 /\ third # {}
    <3>1. PICK k \in third : e = k + 1
      BY <2>1, <2>5
    <3>2. k \in (s + 2)..Len(b)
      BY <2>2
    <3> QED
      BY <1>1, <1>3, <2>5, <3>1, <3>2
  <2> QED
    BY <2>3, <2>4, <2>5
<1> QED
  BY <1>3, <1>4 DEF Tracked, s

\* Bytes of the output that a buffer holds or that were elided from it.
Balance(b, n, m) == Len(b) - SepLen(n) - SepLen(m) + n + m

\* What an accumulator's fields may be after t bytes.
Held(b, n, s, e, m, k, t) ==
  /\ Buffer(b, t) /\ n \in Nat /\ m \in Nat
  /\ Tracked(b, s, e)
  /\ k \in {NoKeep} \cup Nat

\* The larger of two numbers is one of them.
LEMMA MaxOfTwo == ASSUME NEW x \in Nat, NEW y \in Nat PROVE Max({x, y}) \in Nat
<1>1. \E z \in {x, y} : \A w \in {x, y} : z >= w
  OBVIOUS
<1>2. Max({x, y}) \in {x, y}
  BY <1>1 DEF Max
<1> QED
  BY <1>2

\* The fields c that a compaction of b after t bytes leaves.
Keeps(c, b, t) ==
  /\ Held(c.buf, c.elided, c.start, c.stderrAt, c.errElided, c.errKeep, t)
  /\ Balance(c.buf, c.elided, c.errElided) = Balance(b, elided, errElided)

\* compact: the indexes still lie in the buffer, and no byte is lost from the
\* count of either stream.
LEMMA CompactedFacts ==
  ASSUME NEW t \in Nat, NEW b, NEW s, NEW e,
         Held(b, elided, s, e, errElided, errKeep, t)
  PROVE  Keeps(Compacted(b, s, e), b, t)
<1> DEFINE to == IF s = 0 THEN Len(b) ELSE s - 1
           half == Cap \div 2
           out == CompactRange(b, 0, to, half, elided)
           at == e - s + out.to
           room == IF Cap > at THEN (Cap - at) \div 2 ELSE 0
           keep == IF errKeep # NoKeep THEN errKeep ELSE Max({room, Cap \div 4})
           err == CompactRange(out.buf, at, Len(out.buf), keep, errElided)
           c == Compacted(b, s, e)
<1>1. /\ Buffer(b, t) /\ Len(b) \in Nat /\ elided \in Nat /\ errElided \in Nat
      /\ s \in 0..Len(b) /\ e \in 0..(Len(b) + 1) /\ (e # 0 => s \in 1..(e - 1))
      /\ errKeep \in {NoKeep} \cup Nat
  BY DEF Held, Tracked, Buffer
<1>2. half \in Nat /\ Cap \div 4 \in Nat
  BY CapAssumption
<1>3. to \in Nat /\ 0 <= to /\ to <= Len(b)
  BY <1>1
<1>4. c = IF e = 0
          THEN [buf |-> out.buf, elided |-> out.elided,
                start |-> IF s = 0 THEN 0 ELSE out.to + 1,
                stderrAt |-> 0, errElided |-> errElided, errKeep |-> errKeep]
          ELSE [buf |-> err.buf, elided |-> out.elided, start |-> out.to + 1,
                stderrAt |-> at + 1, errElided |-> err.elided, errKeep |-> keep]
  BY DEF Compacted
<1> HIDE DEF half, c
<1>5. Compaction(out, b, 0, to, elided, t)
  BY <1>1, <1>2, <1>3, CompactRangeCounts, 0 \in Nat
<1> HIDE DEF out
<1>6. PICK l \in Nat, ol \in Nat, oto \in Nat, on \in Nat :
        /\ l = Len(b) /\ ol = Len(out.buf) /\ oto = out.to /\ on = out.elided
        /\ ol - oto = l - to
        /\ ol - SepLen(on) + on = l - SepLen(elided) + elided
  BY <1>1, <1>5 DEF Compaction, Buffer
<1>7. PICK p \in Nat, q \in Nat, r \in Nat :
        p = SepLen(on) /\ q = SepLen(elided) /\ r = SepLen(errElided)
  BY <1>1, <1>6, SepLenNat
<1>8. Buffer(out.buf, t)
  BY <1>5 DEF Compaction
<1>9. /\ s \in 0..l /\ e \in 0..(l + 1) /\ (e # 0 => s \in 1..(e - 1))
      /\ to = IF s = 0 THEN l ELSE s - 1
  BY <1>1, <1>6, Zenon
<1>10. ol - oto = l - to
  BY <1>6
<1>11. ol - p + on = l - q + elided
  BY <1>6, <1>7, Zenon
<1>12. elided \in Nat /\ errElided \in Nat
  BY <1>1
<1> HIDE DEF to
<1>13. CASE e = 0
  <2>1. /\ c.buf = out.buf /\ c.elided = on /\ c.errElided = errElided
        /\ c.start = (IF s = 0 THEN 0 ELSE oto + 1)
        /\ c.stderrAt = 0 /\ c.errKeep = errKeep
    BY <1>4, <1>6, <1>13
  <2>2. (IF s = 0 THEN 0 ELSE oto + 1) \in 0..ol
    BY <1>9, <1>10
  <2>3. Tracked(c.buf, c.start, c.stderrAt)
    <3>1. 0 \in 0..(ol + 1)
      OBVIOUS
    <3> QED
      BY <1>6, <2>1, <2>2, <3>1, Zenon DEF Tracked
  <2>4. ol - p - r + on + errElided = l - q - r + elided + errElided
    BY <1>11, <1>12
  <2>5. Balance(c.buf, c.elided, c.errElided) = Balance(b, elided, errElided)
    BY <1>6, <1>7, <2>1, <2>4, Zenon DEF Balance
  <2>6. Held(c.buf, c.elided, c.start, c.stderrAt, c.errElided, c.errKeep, t)
    BY <1>1, <1>6, <1>8, <2>1, <2>3, Zenon DEF Held
  <2> QED
    BY <2>5, <2>6, Zenon DEF c, Keeps
<1>14. CASE e # 0
  <2>1. PICK a \in Nat : a = e - s + oto
    BY <1>9, <1>14
  <2>2. a <= ol /\ oto + 1 \in 1..a
    BY <1>9, <1>10, <1>14, <2>1
  <2>3. a = at
    BY <1>6, <2>1, Zenon
  <2> HIDE DEF at
  <2>4. room \in Nat
    BY <2>1, <2>3, CapAssumption
  <2> HIDE DEF room
  <2>5. keep \in Nat
    BY <1>1, <1>2, <2>4, MaxOfTwo
  <2> HIDE DEF keep
  <2>6. Compaction(err, out.buf, a, ol, errElided, t)
    <3>1. err = CompactRange(out.buf, a, ol, keep, errElided)
      BY <1>6, <2>3, Zenon
    <3>2. ol <= Len(out.buf)
      BY <1>6
    <3> HIDE DEF err
    <3>3. Compaction(CompactRange(out.buf, a, ol, keep, errElided), out.buf, a, ol, errElided, t)
      BY <1>8, <1>12, <2>2, <2>5, <3>2, CompactRangeCounts
    <3> QED
      BY <3>1, <3>3, Zenon
  <2> HIDE DEF err
  <2>7. PICK el \in Nat, en \in Nat, eto \in Nat :
          /\ el = Len(err.buf) /\ en = err.elided /\ eto = err.to
          /\ eto >= a /\ el - eto = ol - ol
          /\ el - SepLen(en) + en = ol - SepLen(errElided) + errElided
    BY <1>6, <2>6 DEF Compaction, Buffer
  <2>8. /\ c.buf = err.buf /\ c.elided = on /\ c.errElided = en
        /\ c.start = oto + 1 /\ c.stderrAt = a + 1 /\ c.errKeep = keep
    BY <1>4, <1>6, <1>14, <2>3, <2>7
  <2>9. Tracked(c.buf, c.start, c.stderrAt)
    <3>1. eto >= a /\ el - eto = ol - ol
      BY <2>7
    <3>2. /\ oto + 1 \in 0..el /\ a + 1 \in 0..(el + 1)
          /\ oto + 1 \in 1..(a + 1 - 1)
      BY <2>2, <3>1
    <3>3. PICK i \in Nat, j \in Nat : i = oto + 1 /\ j = a + 1
      OBVIOUS
    <3>4. i \in 0..el /\ j \in 0..(el + 1) /\ i \in 1..(j - 1)
      BY <3>2, <3>3
    <3>5. Tracked(err.buf, i, j)
      BY <2>7, <3>4, Zenon DEF Tracked
    <3> QED
      BY <2>8, <3>3, <3>5, Zenon
  <2>10. PICK u \in Nat : u = SepLen(en)
    BY <2>7, SepLenNat
  <2>11. el - u + en = ol - r + errElided
    BY <1>7, <2>7, <2>10, Zenon
  <2>12. el - p - u + on + en = l - q - r + elided + errElided
    BY <1>11, <1>12, <2>11
  <2>13. Balance(c.buf, c.elided, c.errElided) = Balance(b, elided, errElided)
    BY <1>6, <1>7, <2>7, <2>8, <2>10, <2>12, Zenon DEF Balance
  <2>14. Buffer(c.buf, t)
    BY <2>6, <2>8 DEF Compaction
  <2>15. Held(c.buf, c.elided, c.start, c.stderrAt, c.errElided, c.errKeep, t)
    BY <1>6, <2>5, <2>7, <2>8, <2>9, <2>14, Zenon DEF Held
  <2> QED
    BY <2>13, <2>15, Zenon DEF c, Keeps
<1> QED
  BY <1>13, <1>14
-----------------------------------------------------------------------------
\* A command's output is a sequence of kinds of bytes.
LEMMA OutputIsStream ==
  ASSUME NEW echo \in {<<>>, Echo}, NEW out \in Nat, NEW rc \in Nat, NEW cwd \in Nat,
         NEW err \in Nat, NEW fill \in {"x", "us"}
  PROVE  Output(echo, out, rc, cwd, err, fill) \in Seq(Kinds)
<1>0. /\ "start" \in Kinds /\ "start2" \in Kinds /\ "end" \in Kinds /\ "end2" \in Kinds
      /\ "x" \in Kinds /\ "nl" \in Kinds /\ "us" \in Kinds /\ "digit" \in Kinds
      /\ fill \in Kinds
  BY DEF Kinds
<1>1. /\ StartMarker \in Seq(Kinds) /\ EndMarker \in Seq(Kinds)
      /\ <<"x">> \in Seq(Kinds) /\ <<"nl">> \in Seq(Kinds) /\ <<"us">> \in Seq(Kinds)
  BY <1>0 DEF StartMarker, EndMarker
<1>2. /\ Copies(out, fill) \in Seq(Kinds) /\ Copies(rc, "digit") \in Seq(Kinds)
      /\ Copies(cwd, "x") \in Seq(Kinds) /\ Copies(err, fill) \in Seq(Kinds)
  BY <1>0, CopiesLen
<1>3. echo \in Seq(Kinds)
  <2>1. <<>> \in Seq(Kinds)
    OBVIOUS
  <2>2. Echo \in Seq(Kinds)
    BY <1>1, ConcatLen DEF Echo
  <2> QED
    BY <2>1, <2>2
<1> QED
  BY <1>1, <1>2, <1>3, ConcatLen DEF Output

\* The fields after t bytes, and no byte of the output lost from the count.
AccInv ==
  /\ stream \in Seq(Kinds) /\ taken \in 0..Len(stream)
  /\ Held(buf, elided, start, stderrAt, errElided, errKeep, taken)
  /\ Balance(buf, elided, errElided) = taken
  /\ scanned \in 0..Len(buf)
  /\ result.done \in BOOLEAN

\* Nothing is held and nothing is elided at first.
LEMMA InitAccInv == Init => AccInv
<1> SUFFICES ASSUME Init PROVE AccInv
  OBVIOUS
<1>1. stream \in Seq(Kinds)
  <2>1. PICK echo \in {<<>>, Echo}, out \in OutSizes, err \in ErrSizes,
             rc \in 1..MaxDigits, cwd \in 1..2, fill \in {"x", "us"} :
               stream = Output(echo, out, rc, cwd, err, fill)
    BY DEF Init
  <2>2. out \in Nat /\ err \in Nat /\ rc \in Nat /\ cwd \in Nat
    BY <2>1, CapAssumption DEF MaxDigits
  <2> QED
    BY <2>1, <2>2, OutputIsStream
<1>2. /\ taken = 0 /\ buf = <<>> /\ scanned = 0 /\ elided = 0 /\ start = 0
      /\ stderrAt = 0 /\ errElided = 0 /\ errKeep = NoKeep /\ result = [done |-> FALSE]
  BY DEF Init, NoResult
<1>3. Len(stream) \in Nat
  BY <1>1, LenProperties
<1>4. SepLen(0) = 0
  BY DEF SepLen
<1>5. Len(buf) = 0 /\ buf \in Seq(0..taken)
  BY <1>2
<1>6. Held(buf, elided, start, stderrAt, errElided, errKeep, taken)
  BY <1>2, <1>5 DEF Held, Buffer, Tracked
<1>7. Balance(buf, elided, errElided) = taken
  BY <1>2, <1>4, <1>5 DEF Balance
<1>8. scanned \in 0..Len(buf) /\ taken \in 0..Len(stream) /\ result.done \in BOOLEAN
  BY <1>2, <1>3, <1>5
<1> QED
  BY <1>1, <1>6, <1>7, <1>8 DEF AccInv

\* Each push takes its chunk, and what it does not hold any more it has counted.
LEMMA NextAccInv == AccInv /\ [Next]_vars => AccInv'
<1> SUFFICES ASSUME AccInv, [Next]_vars PROVE AccInv'
  OBVIOUS
<1>1. CASE UNCHANGED vars
  BY <1>1 DEF AccInv, Held, Buffer, Tracked, Balance, vars, acc
<1>2. CASE Next
  <2>1. PICK n \in 1..MaxChunk : taken + n <= Len(stream) /\ Push(n)
    BY <1>2 DEF Next
  <2> DEFINE b == buf \o [i \in 1..n |-> taken + i]
             t == taken + n
  <2>2. /\ stream \in Seq(Kinds) /\ taken \in Nat /\ n \in Nat /\ t \in Nat
        /\ Buffer(buf, taken) /\ Tracked(buf, start, stderrAt)
        /\ elided \in Nat /\ errElided \in Nat /\ errKeep \in {NoKeep} \cup Nat
        /\ Balance(buf, elided, errElided) = taken
        /\ scanned \in 0..Len(buf) /\ Len(stream) \in Nat
    BY LenProperties, <2>1, CapAssumption DEF AccInv, Held
  <2>3. /\ taken' = t /\ stream' = stream
        /\ PushLast(b) \/ PushMore(b)
    BY <2>1 DEF Push
  <2>4. stream' \in Seq(Kinds) /\ taken' \in 0..Len(stream')
    BY <2>1, <2>2, <2>3
  <2>5. Buffer(b, t) /\ Len(b) = Len(buf) + n
    <3>1. buf \in Seq(0..t)
      BY <2>2 DEF Buffer
    <3>2. /\ [i \in 1..n |-> taken + i] \in Seq(0..t)
          /\ Len([i \in 1..n |-> taken + i]) = n
      BY <2>2
    <3>3. b \in Seq(0..t) /\ Len(b) = Len(buf) + n
      BY <3>1, <3>2, ConcatLen
    <3>4. Len(b) \in Nat
      BY <3>3, LenProperties
    <3> QED
      BY <3>3, <3>4 DEF Buffer
  <2> HIDE DEF b, t
  <2>6. Tracked(b, start, stderrAt)
    <3>1. PICK l \in Nat, m \in Nat : l = Len(buf) /\ m = l + n /\ m = Len(b)
      BY <2>2, <2>5 DEF Buffer
    <3>2. start \in 0..l /\ stderrAt \in 0..(l + 1) /\ (stderrAt # 0 => start \in 1..(stderrAt - 1))
      BY <2>2, <3>1, Zenon DEF Tracked
    <3>3. start \in 0..m /\ stderrAt \in 0..(m + 1)
      BY <3>1, <3>2
    <3> QED
      BY <3>1, <3>2, <3>3, Zenon DEF Tracked
  <2>7. Balance(b, elided, errElided) = taken + n
    <3>1. PICK p \in Nat, q \in Nat, l \in Nat :
             p = SepLen(elided) /\ q = SepLen(errElided) /\ l = Len(buf)
      BY <2>2, SepLenNat DEF Buffer
    <3>2. l - p - q + elided + errElided = taken
      BY <2>2, <3>1, Zenon DEF Balance
    <3>3. elided \in Nat /\ errElided \in Nat /\ n \in Nat /\ taken \in Nat
      BY <2>2
    <3>4. (l + n) - p - q + elided + errElided = taken + n
      BY <3>2, <3>3
    <3> QED
      BY <2>5, <3>1, <3>4, Zenon DEF Balance
  <2>8. CASE PushLast(b)
    <3>1. /\ buf' = b /\ elided' = elided /\ start' = start /\ stderrAt' = stderrAt
          /\ errElided' = errElided /\ errKeep' = errKeep /\ scanned' = scanned
          /\ result' = Parse(b)
      BY <2>8 DEF PushLast
    <3>2. result'.done \in BOOLEAN
      BY <3>1 DEF Parse
    <3>3. scanned' \in 0..Len(buf')
      BY <2>2, <2>5, <3>1 DEF Buffer
    <3>4. Held(buf, elided, start, stderrAt, errElided, errKeep, taken)'
      BY <2>2, <2>3, <2>5, <2>6, <3>1, Zenon DEF Held
    <3>5. Balance(buf, elided, errElided)' = taken'
      BY <2>3, <2>7, <3>1, Zenon DEF Balance, t
    <3> QED
      BY <2>4, <3>2, <3>3, <3>4, <3>5, Zenon DEF AccInv
  <2>9. CASE PushMore(b)
    <3> DEFINE s == TrackStart(b)
               e == TrackStderr(b, s)
               kept == IF Len(b) > 2 * Cap THEN Compacted(b, s, e)
                       ELSE [buf |-> b, elided |-> elided, start |-> s,
                             stderrAt |-> e, errElided |-> errElided, errKeep |-> errKeep]
    <3>1. /\ buf' = kept.buf /\ elided' = kept.elided
          /\ start' = kept.start /\ stderrAt' = kept.stderrAt
          /\ errElided' = kept.errElided /\ errKeep' = kept.errKeep
          /\ scanned' = Len(kept.buf) /\ result' = result
      BY <2>9 DEF PushMore
    <3>2. Tracked(b, s, e)
      BY <2>5, <2>6, TrackFacts DEF Buffer
    <3> HIDE DEF s, e
    <3>3. Held(b, elided, s, e, errElided, errKeep, t)
      BY <2>2, <2>5, <3>2, Zenon DEF Held
    <3>4. /\ Held(kept.buf, kept.elided, kept.start, kept.stderrAt, kept.errElided, kept.errKeep, t)
          /\ Balance(kept.buf, kept.elided, kept.errElided) = Balance(b, elided, errElided)
      <4>1. CASE Len(b) > 2 * Cap
        <5>1. kept = Compacted(b, s, e)
          BY <4>1, Zenon
        <5>2. Keeps(Compacted(b, s, e), b, t)
          BY <2>2, <3>3, CompactedFacts
        <5> HIDE DEF kept
        <5> QED
          BY <5>1, <5>2, Zenon DEF Keeps
      <4>2. CASE ~(Len(b) > 2 * Cap)
        <5>1. /\ kept.buf = b /\ kept.elided = elided /\ kept.start = s
              /\ kept.stderrAt = e /\ kept.errElided = errElided /\ kept.errKeep = errKeep
          BY <4>2
        <5> QED
          BY <3>3, <5>1, Zenon
      <4> QED
        BY <4>1, <4>2
    <3> HIDE DEF kept
    <3>5. Held(buf, elided, start, stderrAt, errElided, errKeep, taken)'
      BY <2>3, <3>1, <3>4, Zenon
    <3>6. Balance(buf, elided, errElided)' = taken'
      BY <2>3, <2>7, <3>1, <3>4, Zenon DEF t
    <3>7. scanned' \in 0..Len(buf')
      <4>1. Len(kept.buf) \in Nat
        BY <3>4 DEF Held, Buffer
      <4> QED
        BY <3>1, <4>1
    <3>8. result'.done \in BOOLEAN
      BY <3>1 DEF AccInv
    <3> QED
      BY <2>4, <3>5, <3>6, <3>7, <3>8, Zenon DEF AccInv
  <2> QED
    BY <2>3, <2>8, <2>9
<1> QED
  BY <1>1, <1>2

\* AccInv holds throughout.
LEMMA AccInvHolds == Spec => []AccInv
BY InitAccInv, NextAccInv, PTL DEF Spec

\* The tracked indexes, and the bytes searched so far, always lie in the buffer:
\* the slices of compact and partial_stdout never panic.
THEOREM AccTypeCorrect == Spec => []TypeOK
<1>1. AccInv => TypeOK
  BY DEF AccInv, Held, Buffer, Tracked, TypeOK
<1> QED
  BY <1>1, AccInvHolds, PTL

\* Whatever is compacted, and however often, the bytes kept and the counts of the
\* two separators add up to the bytes that were read.
THEOREM NothingUncounted == Spec => []Counted
<1>1. AccInv => Counted
  BY DEF AccInv, Balance, Counted
<1> QED
  BY <1>1, AccInvHolds, PTL
-----------------------------------------------------------------------------
(* What stands where in the buffer. *)

\* Elements of a sequence v that is b with its middle replaced.
SpliceByte(v, i, b, x, sep, y) ==
  v[i] = IF i <= x THEN b[i] ELSE IF i <= x + Len(sep) THEN sep[i - x] ELSE b[i - x - Len(sep) + y]

\* Those of a buffer with its middle replaced.
LEMMA SpliceAt ==
  ASSUME NEW S, NEW b \in Seq(S), NEW sep \in Seq(S),
         NEW x \in Nat, NEW y \in Nat, x <= y, y <= Len(b),
         NEW i \in 1..(x + Len(sep) + (Len(b) - y))
  PROVE  SpliceByte(Spliced(b, x, sep, y), i, b, x, sep, y)
<1> DEFINE head == SubSeq(b, 1, x)
           tail == SubSeq(b, y + 1, Len(b))
<1>1. PICK l \in Nat, p \in Nat : l = Len(b) /\ p = Len(sep)
  BY LenProperties
<1>2. \A j \in 1..l : b[j] \in S
  BY <1>1, ElementOfSeq
<1>3. /\ head \in Seq(S) /\ Len(head) = x
      /\ \A j \in 1..x : head[j] = b[j]
  <2>1. 1 \in Int /\ x \in Int /\ \A j \in 1..x : b[j] \in S
    BY <1>1, <1>2
  <2>2. /\ SubSeq(b, 1, x) \in Seq(S)
        /\ Len(SubSeq(b, 1, x)) = IF 1 <= x THEN x - 1 + 1 ELSE 0
        /\ \A j \in 1..(x - 1 + 1) : SubSeq(b, 1, x)[j] = b[1 + j - 1]
    BY <2>1, SubSeqProperties
  <2> QED
    BY <2>2
<1>4. /\ tail \in Seq(S) /\ Len(tail) = l - y
      /\ \A j \in 1..(l - y) : tail[j] = b[y + j]
  <2>1. PICK z \in Int : z = y + 1
    OBVIOUS
  <2>2. \A j \in z..l : b[j] \in S
    BY <1>2, <2>1
  <2>3. /\ SubSeq(b, z, l) \in Seq(S)
        /\ Len(SubSeq(b, z, l)) = IF z <= l THEN l - z + 1 ELSE 0
        /\ \A j \in 1..(l - z + 1) : SubSeq(b, z, l)[j] = b[z + j - 1]
    BY <2>2, SubSeqProperties
  <2>4. tail = SubSeq(b, z, l)
    BY <1>1, <2>1
  <2>5. y <= l
    BY <1>1
  <2> HIDE DEF tail
  <2>6. tail \in Seq(S) /\ Len(tail) = l - y
    BY <2>1, <2>3, <2>4, <2>5
  <2>7. ASSUME NEW j \in 1..(l - y) PROVE tail[j] = b[y + j]
    <3>1. j \in 1..(l - z + 1) /\ z + j - 1 = y + j
      BY <2>1, <2>5
    <3>2. tail[j] = b[z + j - 1]
      BY <2>3, <2>4, <3>1
    <3> QED
      BY <3>1, <3>2
  <2> QED
    BY <2>6, <2>7
<1> HIDE DEF head, tail
<1>5. /\ head \o sep \in Seq(S) /\ Len(head \o sep) = x + p
      /\ \A j \in 1..(x + p) : (head \o sep)[j] = IF j <= x THEN head[j] ELSE sep[j - x]
  BY <1>1, <1>3, ConcatProperties
<1> DEFINE front == head \o sep
<1>a. front \in Seq(S) /\ Len(front) = x + p
  BY <1>5
<1> HIDE DEF front
<1>6. \A j \in 1..(x + p + (l - y)) :
        (front \o tail)[j] = IF j <= x + p THEN front[j] ELSE tail[j - (x + p)]
  <2>1. \A j \in 1..(Len(front) + Len(tail)) :
          (front \o tail)[j] = IF j <= Len(front) THEN front[j] ELSE tail[j - Len(front)]
    BY <1>4, <1>a, ConcatProperties
  <2> QED
    BY <1>4, <1>a, <2>1
<1>7. Spliced(b, x, sep, y) = front \o tail
  BY DEF Spliced, front, head, tail
<1>8. i \in 1..(x + p + (l - y)) /\ y <= l
  BY <1>1
<1> SUFFICES Spliced(b, x, sep, y)[i] =
       IF i <= x THEN b[i] ELSE IF i <= x + Len(sep) THEN sep[i - x] ELSE b[i - x - Len(sep) + y]
  BY Zenon DEF SpliceByte
<1>9. CASE i <= x
  <2>1. i <= x + p /\ i \in 1..(x + p) /\ i \in 1..x
    BY <1>8, <1>9
  <2>2. (front \o tail)[i] = b[i]
    BY <1>3, <1>5, <1>6, <1>8, <1>9, <2>1 DEF front
  <2> QED
    BY <1>7, <1>9, <2>2
<1>10. CASE ~(i <= x) /\ i <= x + p
  <2>1. i \in 1..(x + p)
    BY <1>8, <1>10
  <2>2. (front \o tail)[i] = sep[i - x]
    BY <1>5, <1>6, <1>8, <1>10, <2>1 DEF front
  <2> QED
    BY <1>1, <1>7, <1>10, <2>2
<1>11. CASE ~(i <= x + p)
  <2>1. /\ i - (x + p) \in 1..(l - y) /\ ~(i <= x)
        /\ y + (i - (x + p)) = i - x - p + y
    BY <1>8, <1>11
  <2>2. (front \o tail)[i] = tail[i - (x + p)]
    BY <1>6, <1>8, <1>11
  <2>3. tail[i - (x + p)] = b[y + (i - (x + p))]
    BY <1>4, <2>1
  <2> QED
    BY <1>1, <1>7, <1>11, <2>1, <2>2, <2>3
<1> QED
  BY <1>9, <1>10, <1>11

\* Where the parts of the stream are.
LEMMA Places ==
  ASSUME StreamInv
  PROVE  /\ StartAt \in Nat /\ CwdAt \in Nat /\ ErrAt \in Nat /\ EndAt \in Nat
         /\ 2 <= StartAt /\ CwdAt \in (StartAt + 5)..(StartAt + 6)
         /\ CwdAt = StartAt + 4 + sizes.rc
         /\ CwdAt + 2 <= ErrAt /\ ErrAt <= EndAt /\ Len(stream) = EndAt + 2
         /\ sizes.echo # 0 => 7 <= StartAt
<1>1. Len(StartMarker) = 2 /\ Len(EndMarker) = 2
  BY DEF StartMarker, EndMarker
<1>2. Len(Echo) = 5
  BY DEF Echo, StartMarker, EndMarker
<1>3. /\ sizes.echo \in {0, 5} /\ sizes.out \in Nat /\ sizes.echo <= sizes.out
      /\ sizes.rc \in 1..2 /\ sizes.cwd \in 1..2 /\ sizes.err \in Nat
      /\ Len(stream) = EndAt + 2
  BY <1>2 DEF StreamInv, MaxDigits
<1>4. StartAt = sizes.out + 2 /\ CwdAt = StartAt + 2 + sizes.rc + 2
  BY <1>1 DEF StartAt, CwdAt
<1>5. ErrAt = CwdAt + sizes.cwd + 1 /\ EndAt = ErrAt + sizes.err
  BY DEF ErrAt, EndAt
<1>6. PICK s \in Nat, c \in Nat, e \in Nat, d \in Nat, r \in 1..2 :
        /\ s = StartAt /\ c = CwdAt /\ e = ErrAt /\ d = EndAt /\ r = sizes.rc
        /\ 2 <= s /\ c = s + 4 + r /\ c + 2 <= e /\ e <= d
        /\ (sizes.echo # 0 => 7 <= s)
  <2>1. PICK s \in Nat, r \in 1..2, w \in 1..2, x \in Nat :
          s = sizes.out + 2 /\ r = sizes.rc /\ w = sizes.cwd /\ x = sizes.err
    BY <1>3
  <2>2. 2 <= s /\ (sizes.echo # 0 => 7 <= s)
    BY <1>3, <2>1
  <2>3. PICK c \in Nat : c = s + 4 + r
    OBVIOUS
  <2>4. PICK e \in Nat : e = c + w + 1
    OBVIOUS
  <2>5. PICK d \in Nat : d = e + x
    OBVIOUS
  <2>6. s + 2 + r + 2 = s + 4 + r /\ c + 2 <= e /\ e <= d
    BY <2>4, <2>5
  <2>7. s = StartAt
    BY <1>4, <2>1, Zenon
  <2>8. c = CwdAt
    BY <1>4, <2>1, <2>3, <2>6, <2>7, Zenon
  <2>9. e = ErrAt /\ d = EndAt
    BY <1>5, <2>1, <2>4, <2>5, <2>8, Zenon
  <2> QED
    BY <2>1, <2>2, <2>3, <2>6, <2>7, <2>8, <2>9, Zenon
<1>7. c \in (s + 5)..(s + 6)
  BY <1>6
<1> QED
  BY <1>3, <1>6, <1>7, Zenon

\* The caps leave room for a marker and a header in each half.
LEMMA Room ==
  /\ Cap \in Nat /\ Half \in Nat /\ Cap \div 4 \in Nat
  /\ 6 <= Half /\ 1 <= Cap \div 4 /\ 2 * Half <= Cap /\ Half = Cap \div 2
  /\ 2 * (Cap \div 4) <= Cap \div 2 /\ HDR = 4
<1>1. Len(StartMarker) = 2 /\ Len(EndMarker) = 2 /\ HDR = 4
  BY DEF StartMarker, EndMarker, HDR, MaxDigits
<1>2. Cap \in Nat /\ Cap \div 4 >= 1 /\ Cap \div 2 >= 6
  BY <1>1, CapAssumption
<1> QED
  BY <1>1, <1>2 DEF Half

\* Separators grow with the count.
LEMMA SepLenGrows ==
  ASSUME NEW m \in Nat, NEW n \in Nat, m <= n
  PROVE  SepLen(m) <= SepLen(n)
<1> DEFINE D(x) == {k \in 0..9 : 10^k <= x}
<1>1. IsFiniteSet(0..9)
  BY 0 \in Int, 9 \in Int, FS_Interval, Zenon
<1>2. D(m) \subseteq 0..9 /\ D(n) \subseteq 0..9
  OBVIOUS
<1>3. IsFiniteSet(D(m)) /\ IsFiniteSet(D(n))
  BY <1>1, <1>2, FS_Subset
<1>4. D(m) \subseteq D(n)
  <2> SUFFICES ASSUME NEW k \in 0..9, 10^k <= m PROVE 10^k <= n
    OBVIOUS
  <2>1. 10^k \in Int
    OBVIOUS
  <2> QED
    BY <2>1
<1>5. Cardinality(D(m)) <= Cardinality(D(n)) /\ Cardinality(D(m)) \in Nat /\ Cardinality(D(n)) \in Nat
  BY <1>3, <1>4, FS_Subset, FS_CardinalityType
<1>6. /\ SepLen(m) = IF m = 0 THEN 0 ELSE 1 + Cardinality(D(m))
      /\ SepLen(n) = IF n = 0 THEN 0 ELSE 1 + Cardinality(D(n))
  BY DEF SepLen
<1> HIDE DEF D
<1> QED
  BY <1>5, <1>6

\* Nothing elided leaves no separator and moves nothing.
LEMMA SepLenZero == SepLen(0) = 0 /\ Shift(0) = 0
BY DEF SepLen, Shift

\* The buffer b holds t bytes, u of which were there when it was compacted.
Mapped(b, t, u, n, m, k) ==
  /\ Buffer(b, t) /\ t \in Nat /\ u \in Nat /\ n \in Nat /\ m \in Nat
  /\ k \in {NoKeep} \cup Nat
  /\ u <= t /\ u <= EndAt /\ t <= EndAt + 2
  /\ Layout(b, t, n, m, k) /\ Gaps(u, n, m, k)

\* The numbers of a layout, their bounds, and the bytes they place.
Names(b, n, m, h, p, r, s, c, e, d, l) ==
  /\ h = Half /\ p = SepLen(n) /\ r = SepLen(m) /\ l = Len(b)
  /\ s = StartAt /\ c = CwdAt /\ e = ErrAt /\ d = EndAt
  /\ c = s + 4 + sizes.rc /\ Len(stream) = d + 2
  /\ Shift(n) = p - n /\ Shift(m) = r - m

\* How those numbers are ordered.
Bounds(t, u, n, m, k, h, p, r, s, c, e, d, l) ==
  /\ 6 <= h /\ 2 <= s /\ s + 5 <= c /\ c <= s + 6 /\ c + 2 <= e /\ e <= d
  /\ t \in Nat /\ u \in Nat /\ n \in Nat /\ m \in Nat /\ k \in Int /\ -1 <= k
  /\ u <= t /\ u <= d /\ t <= d + 2
  /\ n = 0 => p = 0
  /\ m = 0 => r = 0
  /\ n > 0 => 2 * h + n <= u /\ 2 * h + n <= s + 4
  /\ m > 0 => 1 <= k /\ e - 1 + 2 * k + m <= u
  /\ l = t - n + p - m + r

\* x stands at index i.
ByteIs(x, i, n, m, k, h, p, r, e) ==
  x = IF i <= e - 1 - n + p + k
      THEN IF i <= h THEN i ELSE IF i <= h + p THEN 0 ELSE i + n - p
      ELSE IF i <= e - 1 - n + p + k + r THEN 0 ELSE i + n - p + m - r

\* All of it.
Num(b, t, u, n, m, k, h, p, r, s, c, e, d, l) ==
  /\ Names(b, n, m, h, p, r, s, c, e, d, l)
  /\ Bounds(t, u, n, m, k, h, p, r, s, c, e, d, l)
  /\ sizes.echo # 0 => 7 <= s
  /\ \A i \in 1..l : ByteIs(b[i], i, n, m, k, h, p, r, e)

\* A mapped buffer has such numbers.
LEMMA Numbers ==
  ASSUME StreamInv, NEW b, NEW t, NEW u, NEW n, NEW m, NEW k, Mapped(b, t, u, n, m, k)
  PROVE  \E h, p, r, s, c, e, d, l \in Nat : Num(b, t, u, n, m, k, h, p, r, s, c, e, d, l)
<1>1. /\ t \in Nat /\ u \in Nat /\ n \in Nat /\ m \in Nat /\ k \in {NoKeep} \cup Nat
      /\ u <= t /\ u <= EndAt /\ t <= EndAt + 2 /\ Len(b) \in Nat
      /\ Layout(b, t, n, m, k) /\ Gaps(u, n, m, k)
  BY DEF Mapped, Buffer
<1>2. k \in Int /\ -1 <= k
  BY <1>1 DEF NoKeep
<1>3. PICK h \in Nat, q \in Nat : h = Half /\ q = Cap \div 4 /\ 6 <= h /\ 1 <= q
  BY Room
<1>4. PICK p \in Nat, r \in Nat :
        /\ p = SepLen(n) /\ r = SepLen(m)
        /\ (n = 0 => p = 0) /\ (m = 0 => r = 0)
  BY <1>1, SepLenNat, SepLenZero
<1>5. PICK s \in Nat, c \in Nat, e \in Nat, d \in Nat :
        /\ s = StartAt /\ c = CwdAt /\ e = ErrAt /\ d = EndAt
        /\ 2 <= s /\ c \in (s + 5)..(s + 6) /\ c = s + 4 + sizes.rc
        /\ c + 2 <= e /\ e <= d /\ Len(stream) = d + 2
        /\ (sizes.echo # 0 => 7 <= s)
  BY Places, Zenon
<1>6. PICK l \in Nat : l = Len(b)
  BY <1>1
<1>7. Shift(n) = p - n /\ Shift(m) = r - m /\ Before(n) = e - 1 + (p - n)
  BY <1>4, <1>5 DEF Shift, Before
<1>8. l = t - n + p - m + r
  <2>1. l = t + (p - n) + (r - m)
    BY <1>1, <1>6, <1>7, Zenon DEF Layout
  <2> QED
    BY <1>1, <2>1
<1>9. ASSUME NEW i \in 1..l
      PROVE  ByteIs(b[i], i, n, m, k, h, p, r, e)
  <2>1. b[i] = Byte(i, n, m, Before(n) + k)
    BY <1>1, <1>6, <1>9 DEF Layout
  <2>2. b[i] = IF i <= e - 1 + (p - n) + k
               THEN IF i <= h THEN i ELSE IF i <= h + p THEN 0 ELSE i - (p - n)
               ELSE IF i <= e - 1 + (p - n) + k + r THEN 0 ELSE i - (p - n) - (r - m)
    BY <1>3, <1>4, <1>7, <2>1, Zenon DEF Byte
  <2>3. e - 1 + (p - n) + k = e - 1 - n + p + k /\ i - (p - n) = i + n - p
    BY <1>1, <1>2
  <2>4. i - (p - n) - (r - m) = i + n - p + m - r
    BY <1>1
  <2> QED
    BY <2>2, <2>3, <2>4, Zenon DEF ByteIs
<1>10. (n > 0 => 2 * h + n <= u /\ 2 * h + n <= s + 4)
  BY <1>1, <1>3, <1>5, Room DEF Gaps
<1>11. m > 0 => 1 <= k /\ e - 1 + 2 * k + m <= u
  <2>1. Before(0) = e - 1
    BY <1>5, SepLenZero DEF Before
  <2> QED
    BY <1>1, <1>2, <1>3, <2>1 DEF Gaps
<1>12. s + 5 <= c /\ c <= s + 6
  BY <1>5
<1>13. Names(b, n, m, h, p, r, s, c, e, d, l)
  BY <1>3, <1>4, <1>5, <1>6, <1>7, Zenon DEF Names
<1>14. Bounds(t, u, n, m, k, h, p, r, s, c, e, d, l)
  <2>1. /\ t \in Nat /\ u \in Nat /\ n \in Nat /\ m \in Nat /\ k \in Int /\ -1 <= k
        /\ u <= t /\ u <= d /\ t <= d + 2
        /\ (n = 0 => p = 0) /\ (m = 0 => r = 0)
    BY <1>1, <1>2, <1>4, <1>5, Zenon
  <2> QED
    BY <1>3, <1>5, <1>8, <1>10, <1>11, <1>12, <2>1, Zenon DEF Bounds
<1> QED
  BY <1>5, <1>9, <1>13, <1>14, Zenon DEF Num

\* From the newline before the trailer to the last byte of its header, a byte
\* that has arrived stands in the buffer, and there only.
LEMMA HeaderStands ==
  ASSUME StreamInv, NEW b, NEW t, NEW u, NEW n, NEW m, NEW k, Mapped(b, t, u, n, m, k),
         NEW q \in Nat, StartAt - 1 <= q, q < ErrAt
  PROVE  /\ q <= t => q + Shift(n) \in 1..Len(b) /\ b[q + Shift(n)] = q
         /\ \A i \in 1..Len(b) : b[i] = q => i = q + Shift(n)
<1>1. PICK h, p, r, s, c, e, d, l \in Nat : Num(b, t, u, n, m, k, h, p, r, s, c, e, d, l)
  BY Numbers
<1>2. /\ Bounds(t, u, n, m, k, h, p, r, s, c, e, d, l)
      /\ \A i \in 1..l : ByteIs(b[i], i, n, m, k, h, p, r, e)
      /\ s = StartAt /\ e = ErrAt /\ l = Len(b) /\ Shift(n) = p - n
  BY <1>1, Zenon DEF Num, Names
<1>3. s - 1 <= q /\ q < e
  BY <1>2, Zenon
<1>4. /\ q <= t => q + (p - n) \in 1..l
      /\ \A x : ByteIs(x, q + (p - n), n, m, k, h, p, r, e) => x = q
      /\ \A i \in 1..l : ByteIs(q, i, n, m, k, h, p, r, e) => i = q + (p - n)
  <2> USE <1>2, <1>3 DEF Bounds
  <2>1. q <= t => q + (p - n) \in 1..l
    OBVIOUS
  <2>2. ASSUME NEW x, ByteIs(x, q + (p - n), n, m, k, h, p, r, e) PROVE x = q
    <3>1. PICK i \in Int : i = q + (p - n)
      OBVIOUS
    <3>2. i + n - p = q /\ (n > 0 => i > h + p) /\ (m > 0 => i <= e - 1 - n + p + k)
      BY <3>1
    <3>3. n = 0 => p = 0
      OBVIOUS
    <3>4. i + n - p + m - r = q \/ m > 0
      BY <3>2
    <3>5. ByteIs(x, i, n, m, k, h, p, r, e)
      BY <2>2, <3>1
    <3>6. CASE i <= e - 1 - n + p + k
      BY <3>2, <3>3, <3>5, <3>6 DEF ByteIs
    <3>7. CASE ~(i <= e - 1 - n + p + k)
      BY <3>2, <3>4, <3>5, <3>7 DEF ByteIs
    <3> QED
      BY <3>6, <3>7
  <2>3. ASSUME NEW i \in 1..l, ByteIs(q, i, n, m, k, h, p, r, e) PROVE i = q + (p - n)
    BY <2>3 DEF ByteIs
  <2> QED
    BY <2>1, <2>2, <2>3
<1> QED
  BY <1>2, <1>4, Zenon

\* The same of the bytes from the end marker on.
LEMMA EndStands ==
  ASSUME StreamInv, NEW b, NEW t, NEW u, NEW n, NEW m, NEW k, Mapped(b, t, u, n, m, k),
         NEW q \in Nat, EndAt <= q
  PROVE  /\ q <= t => q + Shift(n) + Shift(m) \in 1..Len(b) /\ b[q + Shift(n) + Shift(m)] = q
         /\ \A i \in 1..Len(b) : b[i] = q => i = q + Shift(n) + Shift(m)
<1>1. PICK h, p, r, s, c, e, d, l \in Nat : Num(b, t, u, n, m, k, h, p, r, s, c, e, d, l)
  BY Numbers
<1>2. /\ Bounds(t, u, n, m, k, h, p, r, s, c, e, d, l)
      /\ \A i \in 1..l : ByteIs(b[i], i, n, m, k, h, p, r, e)
      /\ d = EndAt /\ l = Len(b) /\ Shift(n) = p - n /\ Shift(m) = r - m
  BY <1>1, Zenon DEF Num, Names
<1>3. d <= q
  BY <1>2, Zenon
<1>4. /\ q <= t => q + (p - n) + (r - m) \in 1..l
      /\ \A x : ByteIs(x, q + (p - n) + (r - m), n, m, k, h, p, r, e) => x = q
      /\ \A i \in 1..l : ByteIs(q, i, n, m, k, h, p, r, e) => i = q + (p - n) + (r - m)
  <2> USE <1>2, <1>3 DEF Bounds
  <2>1. q <= t => q + (p - n) + (r - m) \in 1..l
    OBVIOUS
  <2>2. ASSUME NEW x, ByteIs(x, q + (p - n) + (r - m), n, m, k, h, p, r, e) PROVE x = q
    <3>1. PICK i \in Int : i = q + (p - n) + (r - m)
      OBVIOUS
    <3>2. i + n - p + m - r = q /\ (n > 0 => i > h + p) /\ (m > 0 => i > e - 1 - n + p + k + r)
      BY <3>1
    <3>3. n = 0 => p = 0
      OBVIOUS
    <3>4. ByteIs(x, i, n, m, k, h, p, r, e)
      BY <2>2, <3>1
    <3>5. CASE m = 0
      <4>1. i + n - p = q
        BY <3>2, <3>5
      <4>2. i <= e - 1 - n + p + k => x = q
        BY <3>2, <3>3, <3>4, <4>1 DEF ByteIs
      <4>3. ~(i <= e - 1 - n + p + k) => x = q
        <5>1. ~(i <= e - 1 - n + p + k) => ~(i <= e - 1 - n + p + k + r)
          BY <3>5
        <5> QED
          BY <3>2, <3>4, <5>1 DEF ByteIs
      <4> QED
        BY <4>2, <4>3
    <3>6. CASE m > 0
      <4>1. ~(i <= e - 1 - n + p + k) /\ ~(i <= e - 1 - n + p + k + r)
        BY <3>2, <3>6
      <4> QED
        BY <3>2, <3>4, <4>1 DEF ByteIs
    <3> QED
      BY <3>5, <3>6
  <2>3. ASSUME NEW i \in 1..l, ByteIs(q, i, n, m, k, h, p, r, e) PROVE i = q + (p - n) + (r - m)
    BY <2>3 DEF ByteIs
  <2> QED
    BY <2>1, <2>2, <2>3
<1> QED
  BY <1>2, <1>4, Zenon

\* The echo of the run line stays at the head of the buffer.
LEMMA EchoStands ==
  ASSUME StreamInv, NEW b, NEW t, NEW u, NEW n, NEW m, NEW k, Mapped(b, t, u, n, m, k),
         sizes.echo # 0, NEW q \in 1..6, NEW i \in 1..Len(b)
  PROVE  /\ b[i] = q => i = q
         /\ i <= 6 => b[i] = i
<1>1. PICK h, p, r, s, c, e, d, l \in Nat : Num(b, t, u, n, m, k, h, p, r, s, c, e, d, l)
  BY Numbers
<1>2. /\ Bounds(t, u, n, m, k, h, p, r, s, c, e, d, l)
      /\ \A j \in 1..l : ByteIs(b[j], j, n, m, k, h, p, r, e)
      /\ l = Len(b) /\ 7 <= s
  BY <1>1, Zenon DEF Num, Names
<1>3. i \in 1..l
  BY <1>2, Zenon
<1>4. /\ ByteIs(q, i, n, m, k, h, p, r, e) => i = q
      /\ \A x : ByteIs(x, i, n, m, k, h, p, r, e) /\ i <= 6 => x = i
  <2> USE <1>2, <1>3 DEF Bounds
  <2>1. ASSUME ByteIs(q, i, n, m, k, h, p, r, e) PROVE i = q
    BY <2>1 DEF ByteIs
  <2>2. ASSUME NEW x, ByteIs(x, i, n, m, k, h, p, r, e), i <= 6 PROVE x = i
    <3>1. i <= h
      BY <2>2
    <3>2. i <= e - 1 - n + p + k
      BY <2>2
    <3> QED
      BY <2>2, <3>1, <3>2 DEF ByteIs
  <2> QED
    BY <2>1, <2>2
<1> QED
  BY <1>2, <1>3, <1>4, Zenon

\* The share of stderr, which a separator in it needs.
Share(m, k) == k \in {NoKeep} \cup Nat /\ (m > 0 => k >= Cap \div 4)

\* A buffer whose bytes are placed by these numbers has a layout.
LEMMA Placed ==
  ASSUME StreamInv, NEW b, NEW t, NEW u, Buffer(b, t), NEW n, NEW m, NEW k, Share(m, k),
         NEW h \in Nat, NEW p \in Nat, NEW r \in Nat, NEW s \in Nat, NEW c \in Nat, NEW e \in Nat,
         NEW d \in Nat, NEW l \in Nat, Num(b, t, u, n, m, k, h, p, r, s, c, e, d, l)
  PROVE  Mapped(b, t, u, n, m, k)
<1>1. /\ Names(b, n, m, h, p, r, s, c, e, d, l)
      /\ Bounds(t, u, n, m, k, h, p, r, s, c, e, d, l)
      /\ \A i \in 1..l : ByteIs(b[i], i, n, m, k, h, p, r, e)
  BY Zenon DEF Num
<1>2. /\ t \in Nat /\ n \in Nat /\ m \in Nat /\ k \in Int /\ u \in Nat /\ u <= d /\ u <= t /\ t <= d + 2
  BY <1>1 DEF Bounds
<1>3. /\ h = Half /\ p = SepLen(n) /\ r = SepLen(m) /\ l = Len(b) /\ s = StartAt /\ e = ErrAt
      /\ d = EndAt /\ Shift(n) = p - n /\ Shift(m) = r - m
  BY <1>1, Zenon DEF Names
<1>4. Before(n) = e - 1 + (p - n) /\ Before(0) = e - 1
  BY <1>3, SepLenZero DEF Before
<1>5. ASSUME NEW i \in 1..l PROVE b[i] = Byte(i, n, m, Before(n) + k)
  <2>1. ByteIs(b[i], i, n, m, k, h, p, r, e)
    BY <1>1, <1>5
  <2>2. /\ e - 1 + (p - n) + k = e - 1 - n + p + k /\ i - (p - n) = i + n - p
        /\ i - (p - n) - (r - m) = i + n - p + m - r
    BY <1>2
  <2>3. b[i] = IF i <= e - 1 + (p - n) + k
               THEN IF i <= h THEN i ELSE IF i <= h + p THEN 0 ELSE i - (p - n)
               ELSE IF i <= e - 1 + (p - n) + k + r THEN 0 ELSE i - (p - n) - (r - m)
    BY <2>1, <2>2, Zenon DEF ByteIs
  <2> QED
    BY <1>3, <1>4, <2>3, Zenon DEF Byte
<1>6. Layout(b, t, n, m, k)
  <2>1. l = t + (p - n) + (r - m)
    BY <1>1 DEF Bounds
  <2> QED
    BY <1>3, <1>5, <2>1, Zenon DEF Layout
<1>7. Gaps(u, n, m, k)
  <2>1. /\ n > 0 => 2 * h + n <= u /\ 2 * h + n <= s + 4
        /\ m > 0 => e - 1 + 2 * k + m <= u
    BY <1>1 DEF Bounds
  <2>2. HDR = 4
    BY Room
  <2> QED
    BY <1>3, <1>4, <2>1, <2>2, Zenon DEF Gaps, Share
<1> QED
  BY <1>2, <1>3, <1>6, <1>7, Zenon DEF Mapped, Share

\* What was there at a compaction is still there.
LEMMA MappedLater ==
  ASSUME StreamInv, NEW b, NEW t, NEW u, NEW n, NEW m, NEW k, Mapped(b, t, u, n, m, k), t <= EndAt
  PROVE  Mapped(b, t, t, n, m, k)
<1>1. PICK h, p, r, s, c, e, d, l \in Nat : Num(b, t, u, n, m, k, h, p, r, s, c, e, d, l)
  BY Numbers
<1>2. /\ Bounds(t, u, n, m, k, h, p, r, s, c, e, d, l) /\ d = EndAt
      /\ Names(b, n, m, h, p, r, s, c, e, d, l)
      /\ sizes.echo # 0 => 7 <= s
      /\ \A i \in 1..l : ByteIs(b[i], i, n, m, k, h, p, r, e)
  BY <1>1, Zenon DEF Num, Names
<1>3. t <= d
  BY <1>2, Zenon
<1>4. Bounds(t, t, n, m, k, h, p, r, s, c, e, d, l)
  BY <1>2, <1>3 DEF Bounds
<1>5. Num(b, t, t, n, m, k, h, p, r, s, c, e, d, l)
  BY <1>2, <1>4, Zenon DEF Num
<1>6. Buffer(b, t) /\ Share(m, k)
  BY DEF Mapped, Gaps, Share
<1> QED
  BY <1>5, <1>6, Placed, Zenon

\* What stands where in a buffer whose middle became a separator.
LEMMA CutBytes ==
  ASSUME NEW b, NEW t \in Nat, Buffer(b, t), NEW x \in Nat, NEW w \in Nat, NEW y \in Nat,
         x <= y, y <= Len(b)
  PROVE  LET v == Spliced(b, x, Copies(w, 0), y)
         IN
         /\ Buffer(v, t) /\ Len(v) = x + w + (Len(b) - y)
         /\ \A i \in 1..Len(v) :
              v[i] = IF i <= x THEN b[i] ELSE IF i <= x + w THEN 0 ELSE b[i - x - w + y]
<1> DEFINE sep == Copies(w, 0)
           v == Spliced(b, x, sep, y)
<1>1. Buffer(sep, t) /\ Len(sep) = w
  BY CopiesLen, 0 \in 0..t DEF Buffer
<1>2. \A i \in 1..w : sep[i] = 0
  BY DEF Copies
<1> HIDE DEF sep
<1>3. v = Spliced(b, x, sep, y)
  OBVIOUS
<1> HIDE DEF v
<1>4. Buffer(v, t) /\ Len(v) = x + w + (Len(b) - y)
  <2>1. Buffer(Spliced(b, x, sep, y), t)
    BY <1>1, SpliceLen
  <2>0. Buffer(sep, t) /\ x <= y /\ y <= Len(b)
    BY <1>1
  <2>2. Len(Spliced(b, x, sep, y)) = x + Len(sep) + (Len(b) - y)
    BY <2>0, SpliceLen
  <2> QED
    BY <1>1, <1>3, <2>1, <2>2, Zenon
<1>5. PICK l \in Nat : l = Len(b)
  BY DEF Buffer
<1>6. ASSUME NEW i \in 1..(x + w + (l - y))
      PROVE  v[i] = IF i <= x THEN b[i] ELSE IF i <= x + w THEN 0 ELSE b[i - x - w + y]
  <2>1. b \in Seq(0..t) /\ sep \in Seq(0..t)
    BY <1>1 DEF Buffer
  <2>2. i \in 1..(x + Len(sep) + (Len(b) - y))
    BY <1>1, <1>5
  <2>a. Spliced(b, x, sep, y)[i] =
          IF i <= x THEN b[i] ELSE IF i <= x + Len(sep) THEN sep[i - x] ELSE b[i - x - Len(sep) + y]
    <3>1. x <= y /\ y <= Len(b)
      OBVIOUS
    <3>2. SpliceByte(Spliced(b, x, sep, y), i, b, x, sep, y)
      BY <2>1, <2>2, <3>1, SpliceAt, Zenon
    <3> QED
      BY <3>2, Zenon DEF SpliceByte
  <2>3. v[i] = IF i <= x THEN b[i] ELSE IF i <= x + w THEN sep[i - x] ELSE b[i - x - w + y]
    BY <1>1, <1>3, <2>a, Zenon
  <2>4. ~(i <= x) /\ i <= x + w => sep[i - x] = 0
    BY <1>2
  <2> QED
    BY <2>3, <2>4
<1> QED
  BY <1>4, <1>5, <1>6, Zenon DEF v, sep

\* Compacting the bytes up to a position of the stream no further than the header.
OutZone(last, t, m) ==
  /\ last \in Nat /\ last <= t /\ last <= StartAt + 4
  /\ (last = t /\ m = 0) \/ last = StartAt - 1

\* It keeps their halves and a separator.
OutKept(o, b, t, n, m, k, last) ==
  /\ Mapped(o.buf, t, t, o.elided, m, k)
  /\ o.to = last + Shift(o.elided)
  /\ o.to <= 2 * Half + SepLen(o.elided)
  /\ last + Shift(n) - 2 * Half <= SepLen(n) => o.elided = n

\* compact_range of stdout leaves a layout in which the longer middle is elided.
LEMMA OutCompacted ==
  ASSUME StreamInv, NEW b, NEW t, NEW n, NEW m, NEW k, Mapped(b, t, t, n, m, k),
         NEW last, OutZone(last, t, m)
  PROVE  OutKept(CompactRange(b, 0, last + Shift(n), Half, n), b, t, n, m, k, last)
<1> DEFINE o == CompactRange(b, 0, last + Shift(n), Half, n)
<1>1. PICK h, p, r, s, c, e, d, l \in Nat : Num(b, t, t, n, m, k, h, p, r, s, c, e, d, l)
  BY Numbers
<1>2. /\ Bounds(t, t, n, m, k, h, p, r, s, c, e, d, l)
      /\ Names(b, n, m, h, p, r, s, c, e, d, l)
      /\ (sizes.echo # 0 => 7 <= s)
      /\ \A i \in 1..l : ByteIs(b[i], i, n, m, k, h, p, r, e)
  BY <1>1, Zenon DEF Num
<1>3. /\ h = Half /\ p = SepLen(n) /\ r = SepLen(m) /\ l = Len(b)
      /\ s = StartAt /\ c = CwdAt /\ e = ErrAt /\ d = EndAt
      /\ c = s + 4 + sizes.rc /\ Len(stream) = d + 2
      /\ Shift(n) = p - n /\ Shift(m) = r - m
  BY <1>2, Zenon DEF Names
<1>4. /\ t \in Nat /\ n \in Nat /\ m \in Nat /\ Buffer(b, t)
  BY DEF Mapped
<1>5. /\ last \in Nat /\ last <= t /\ last <= s + 4
      /\ (last = t /\ m = 0) \/ last = s - 1
  BY <1>3, Zenon DEF OutZone
<1>6. PICK to \in Nat : to = last + (p - n) /\ to <= l
  BY <1>2, <1>5 DEF Bounds
<1>7. o = CompactRange(b, 0, to, h, n)
  BY <1>3, <1>6, Zenon
<1>8. PICK cut \in Int : cut = to - 0 - 2 * h
  BY <1>6
<1> HIDE DEF o
<1>9. CASE cut <= p
  <2>1. o = [buf |-> b, to |-> to, elided |-> n]
    BY <1>3, <1>7, <1>8, <1>9, Zenon DEF CompactRange
  <2>2. o.buf = b /\ o.to = to /\ o.elided = n
    BY <2>1
  <2>3. to <= 2 * h + p
    BY <1>6, <1>8, <1>9
  <2> QED
    BY <1>3, <1>6, <2>2, <2>3, Zenon DEF o, OutKept
<1>10. CASE ~(cut <= p)
  <2>1. PICK x \in Nat : x = last - 2 * h /\ n < x /\ n + cut - p = x
    BY <1>4, <1>5, <1>6, <1>8, <1>10
  <2>2. PICK w \in Nat : w = SepLen(x)
    BY SepLenNat
  <2>3. o = [buf |-> SubSeq(b, 1, 0 + h) \o Copies(w, 0) \o SubSeq(b, to - h + 1, Len(b)),
             to |-> to - cut + w, elided |-> x]
    BY <1>3, <1>7, <1>8, <1>10, <2>1, <2>2, Zenon DEF CompactRange
  <2>4. PICK y \in Nat : y = to - h /\ h <= y /\ y <= l
    BY <1>6, <1>8, <1>10
  <2> DEFINE v == Spliced(b, h, Copies(w, 0), y)
  <2>5. o.buf = v /\ o.to = to - cut + w /\ o.elided = x
    <3>1. 0 + h = h
      OBVIOUS
    <3>2. o = [buf |-> v, to |-> to - cut + w, elided |-> x]
      BY <2>3, <2>4, <3>1, Zenon DEF Spliced
    <3> QED
      BY <3>2
  <2>6. /\ Buffer(v, t) /\ Len(v) = h + w + (l - y)
        /\ \A i \in 1..Len(v) :
             v[i] = IF i <= h THEN b[i] ELSE IF i <= h + w THEN 0 ELSE b[i - h - w + y]
    <3>1. h <= y /\ y <= Len(b)
      BY <1>3, <2>4
    <3>2. /\ Buffer(v, t) /\ Len(v) = h + w + (Len(b) - y)
          /\ \A i \in 1..Len(v) :
               v[i] = IF i <= h THEN b[i] ELSE IF i <= h + w THEN 0 ELSE b[i - h - w + y]
      BY <1>4, <3>1, CutBytes
    <3> QED
      BY <1>3, <3>2, Zenon
  <2> HIDE DEF v
  <2>7. PICK z \in Nat : z = Len(v)
    BY <2>6 DEF Buffer
  <2>8. /\ n < x /\ 2 * h + x <= t /\ 2 * h + x <= s + 4 /\ z = h + w + (l - y)
        /\ y <= l /\ y = h + x - n + p /\ h + p < y
    BY <1>4, <1>5, <1>6, <1>8, <1>10, <2>1, <2>4, <2>6, <2>7
  <2>9. \A i \in 1..z : v[i] = IF i <= h THEN b[i] ELSE IF i <= h + w THEN 0 ELSE b[i - h - w + y]
    BY <2>6, <2>7
  <2>10. /\ Bounds(t, t, x, m, k, h, w, r, s, c, e, d, z)
         /\ \A i \in 1..z : ByteIs(v[i], i, x, m, k, h, w, r, e)
    <3> USE <1>2, <2>8, <2>9
    <3>1. Bounds(t, t, x, m, k, h, w, r, s, c, e, d, z)
      BY DEF Bounds
    <3>2. ASSUME NEW i \in 1..z PROVE ByteIs(v[i], i, x, m, k, h, w, r, e)
      <4>1. CASE i <= h
        <5>1. i \in 1..l
          BY <4>1
        <5>2. ByteIs(b[i], i, n, m, k, h, p, r, e) /\ v[i] = b[i]
          BY <4>1, <5>1
        <5>3. /\ i <= e - 1 - x + w + k => b[i] = i
              /\ ~(i <= e - 1 - x + w + k) => ~(i <= e - 1 - x + w + k)
          BY <4>1, <5>2 DEF ByteIs, Bounds
        <5>4. i <= e - 1 - x + w + k
          BY <4>1 DEF Bounds
        <5> QED
          BY <4>1, <5>2, <5>3, <5>4 DEF ByteIs
      <4>2. CASE ~(i <= h) /\ i <= h + w
        <5>1. v[i] = 0
          BY <4>2
        <5>2. i <= e - 1 - x + w + k
          BY <4>2 DEF Bounds
        <5> QED
          BY <4>2, <5>1, <5>2 DEF ByteIs
      <4>3. CASE ~(i <= h + w)
        <5>1. PICK j \in 1..l : j = i - h - w + y
          BY <4>3
        <5>2. v[i] = b[j] /\ ByteIs(b[j], j, n, m, k, h, p, r, e)
          BY <4>3, <5>1
        <5>3. /\ j > h + p /\ j + n - p = i + x - w
              /\ (j <= e - 1 - n + p + k <=> i <= e - 1 - x + w + k)
              /\ (j <= e - 1 - n + p + k + r <=> i <= e - 1 - x + w + k + r)
          BY <4>3, <5>1 DEF Bounds
        <5>4. /\ ~(j <= h) /\ ~(j <= h + p) /\ ~(i <= h) /\ ~(i <= h + w)
              /\ j + n - p + m - r = i + x - w + m - r
          BY <4>3, <5>3
        <5> QED
          BY <5>2, <5>3, <5>4, Zenon DEF ByteIs
      <4> QED
        BY <4>1, <4>2, <4>3
    <3> QED
      BY <3>1, <3>2
  <2>11. Shift(x) = w - x
    BY <2>2 DEF Shift
  <2>12. Names(v, x, m, h, w, r, s, c, e, d, z)
    BY <1>3, <2>2, <2>7, <2>11, Zenon DEF Names
  <2>13. Num(v, t, t, x, m, k, h, w, r, s, c, e, d, z)
    BY <1>2, <2>10, <2>12, Zenon DEF Num
  <2>14. Share(m, k)
    BY DEF Mapped, Gaps, Share
  <2>15. Mapped(v, t, t, x, m, k)
    BY <2>6, <2>13, <2>14, Placed
  <2>16. to - cut + w = last + (w - x) /\ last + (w - x) <= 2 * h + w
    BY <1>4, <1>5, <1>6, <1>8, <1>10, <2>1
  <2>17. ~(last + (p - n) - 2 * h <= p)
    BY <1>4, <1>5, <1>6, <1>8, <1>10
  <2> QED
    BY <1>3, <2>2, <2>5, <2>11, <2>15, <2>16, <2>17, Zenon DEF o, OutKept
<1> QED
  BY <1>9, <1>10

\* With nothing of stderr elided, its share does not matter to where bytes stand.
LEMMA AnyShare ==
  ASSUME StreamInv, NEW b, NEW t, NEW n, NEW k, Mapped(b, t, t, n, 0, k), NEW j \in Nat
  PROVE  Mapped(b, t, t, n, 0, j)
<1>1. PICK h, p, r, s, c, e, d, l \in Nat : Num(b, t, t, n, 0, k, h, p, r, s, c, e, d, l)
  BY Numbers
<1>2. /\ Bounds(t, t, n, 0, k, h, p, r, s, c, e, d, l)
      /\ Names(b, n, 0, h, p, r, s, c, e, d, l)
      /\ (sizes.echo # 0 => 7 <= s)
      /\ \A i \in 1..l : ByteIs(b[i], i, n, 0, k, h, p, r, e)
  BY <1>1, Zenon DEF Num
<1>3. Bounds(t, t, n, 0, j, h, p, r, s, c, e, d, l)
  BY <1>2 DEF Bounds
<1>4. ASSUME NEW i \in 1..l PROVE ByteIs(b[i], i, n, 0, j, h, p, r, e)
  <2>1. ByteIs(b[i], i, n, 0, k, h, p, r, e)
    BY <1>2
  <2>2. /\ n \in Nat /\ k \in Int /\ r = 0 /\ (n = 0 => p = 0)
        /\ ~(i <= e - 1 - n + p + k) /\ n > 0 => i > h + p
        /\ ~(i <= e - 1 - n + p + j) /\ n > 0 => i > h + p
    BY <1>2 DEF Bounds
  <2>3. i + n - p + 0 - r = i + n - p
    BY <2>2
  <2>4. (n = 0 => i + n - p = i)
    BY <2>2
  <2>5. b[i] = IF n = 0 THEN i ELSE IF i <= h THEN i ELSE IF i <= h + p THEN 0 ELSE i + n - p
    BY <2>1, <2>2, <2>3, <2>4 DEF ByteIs
  <2> QED
    BY <2>2, <2>3, <2>4, <2>5 DEF ByteIs
<1>5. Num(b, t, t, n, 0, j, h, p, r, s, c, e, d, l)
  BY <1>2, <1>3, <1>4, Zenon DEF Num
<1>6. Buffer(b, t) /\ Share(0, j)
  BY DEF Mapped, Share
<1> QED
  BY <1>5, <1>6, Placed

\* Compacting stderr leaves a layout, of no more than two shares and a separator.
ErrKept(o, t, n, j) ==
  /\ Mapped(o.buf, t, t, n, o.elided, j)
  /\ Len(o.buf) <= Before(n) + 2 * j + SepLen(o.elided)

\* compact_range of stderr does.
LEMMA ErrCompacted ==
  ASSUME StreamInv, NEW b, NEW t, NEW n, NEW m, NEW j \in Nat, Mapped(b, t, t, n, m, j),
         j >= Cap \div 4, ErrAt - 1 <= t
  PROVE  ErrKept(CompactRange(b, Before(n), Len(b), j, m), t, n, j)
<1> DEFINE o == CompactRange(b, Before(n), Len(b), j, m)
<1>1. PICK h, p, r, s, c, e, d, l \in Nat : Num(b, t, t, n, m, j, h, p, r, s, c, e, d, l)
  BY Numbers
<1>2. /\ Bounds(t, t, n, m, j, h, p, r, s, c, e, d, l)
      /\ Names(b, n, m, h, p, r, s, c, e, d, l)
      /\ (sizes.echo # 0 => 7 <= s)
      /\ \A i \in 1..l : ByteIs(b[i], i, n, m, j, h, p, r, e)
  BY <1>1, Zenon DEF Num
<1>3. /\ h = Half /\ p = SepLen(n) /\ r = SepLen(m) /\ l = Len(b)
      /\ s = StartAt /\ c = CwdAt /\ e = ErrAt /\ d = EndAt
      /\ c = s + 4 + sizes.rc /\ Len(stream) = d + 2
      /\ Shift(n) = p - n /\ Shift(m) = r - m
  BY <1>2, Zenon DEF Names
<1>4. /\ t \in Nat /\ n \in Nat /\ m \in Nat /\ Buffer(b, t)
  BY DEF Mapped
<1>5. e - 1 <= t
  BY <1>3, Zenon
<1>6. PICK q \in Nat : q = Cap \div 4 /\ 1 <= q /\ q <= j
  BY Room
<1>7. PICK at \in Nat : at = e - 1 + (p - n) /\ at <= l
  BY <1>2, <1>5 DEF Bounds
<1>8. at = Before(n)
  BY <1>3, <1>7, Zenon DEF Before
<1>9. o = CompactRange(b, at, l, j, m)
  BY <1>3, <1>8, Zenon
<1>10. PICK cut \in Int : cut = l - at - 2 * j
  BY <1>7
<1> HIDE DEF o
<1>11. CASE cut <= r
  <2>1. o = [buf |-> b, to |-> l, elided |-> m]
    BY <1>3, <1>9, <1>10, <1>11, Zenon DEF CompactRange
  <2>2. o.buf = b /\ o.elided = m
    BY <2>1
  <2>3. l <= at + 2 * j + r
    BY <1>7, <1>10, <1>11
  <2> QED
    BY <1>3, <1>8, <2>2, <2>3, Zenon DEF o, ErrKept
<1>12. CASE ~(cut <= r)
  <2>1. PICK x \in Nat : x = t - (e - 1) - 2 * j /\ m < x /\ m + cut - r = x
    BY <1>2, <1>4, <1>7, <1>10, <1>12 DEF Bounds
  <2>2. PICK w \in Nat : w = SepLen(x)
    BY SepLenNat
  <2>3. o = [buf |-> SubSeq(b, 1, at + j) \o Copies(w, 0) \o SubSeq(b, l - j + 1, Len(b)),
             to |-> l - cut + w, elided |-> x]
    BY <1>3, <1>9, <1>10, <1>12, <2>1, <2>2, Zenon DEF CompactRange
  <2>4. PICK y \in Nat, a \in Nat : y = l - j /\ a = at + j /\ a + r < y /\ y <= l
    <3>1. at + j \in Nat /\ l - j \in Nat /\ at + j + r < l - j /\ l - j <= l
      BY <1>7, <1>10, <1>12
    <3> QED
      BY <3>1
  <2> DEFINE v == Spliced(b, a, Copies(w, 0), y)
  <2>5. o.buf = v /\ o.elided = x
    <3>1. o = [buf |-> v, to |-> l - cut + w, elided |-> x]
      BY <2>3, <2>4, Zenon DEF Spliced
    <3> QED
      BY <3>1
  <2>6. /\ Buffer(v, t) /\ Len(v) = a + w + (l - y)
        /\ \A i \in 1..Len(v) :
             v[i] = IF i <= a THEN b[i] ELSE IF i <= a + w THEN 0 ELSE b[i - a - w + y]
    <3>1. a <= y /\ y <= Len(b)
      BY <1>3, <2>4
    <3>2. /\ Buffer(v, t) /\ Len(v) = a + w + (Len(b) - y)
          /\ \A i \in 1..Len(v) :
               v[i] = IF i <= a THEN b[i] ELSE IF i <= a + w THEN 0 ELSE b[i - a - w + y]
      BY <1>4, <3>1, CutBytes
    <3> QED
      BY <1>3, <3>2, Zenon
  <2> HIDE DEF v
  <2>7. PICK z \in Nat : z = Len(v)
    BY <2>6 DEF Buffer
  <2>8. /\ m < x /\ e - 1 + 2 * j + x = t /\ z = a + w + (l - y)
        /\ y <= l /\ y = a + x - m + r /\ a + r < y /\ a = e - 1 - n + p + j
    BY <1>4, <1>7, <1>10, <2>1, <2>4, <2>6, <2>7
  <2>9. \A i \in 1..z : v[i] = IF i <= a THEN b[i] ELSE IF i <= a + w THEN 0 ELSE b[i - a - w + y]
    BY <2>6, <2>7
  <2>10. Bounds(t, t, n, x, j, h, p, w, s, c, e, d, z)
    BY <1>2, <1>6, <2>8 DEF Bounds
  <2>11. ASSUME NEW i \in 1..z PROVE ByteIs(v[i], i, n, x, j, h, p, w, e)
    <3>0. n \in Nat /\ m \in Nat
      BY <1>4
    <3>1. CASE i <= a
      <4>1. i \in 1..l
        BY <2>8, <3>1
      <4>2. ByteIs(b[i], i, n, m, j, h, p, r, e) /\ v[i] = b[i]
        BY <1>2, <2>9, <3>1, <4>1
      <4> QED
        BY <2>8, <3>1, <4>2, Zenon DEF ByteIs
    <3>2. CASE ~(i <= a) /\ i <= a + w
      <4>1. v[i] = 0
        BY <2>9, <3>2
      <4> QED
        BY <2>8, <3>2, <4>1, Zenon DEF ByteIs
    <3>3. CASE ~(i <= a + w)
      <4>1. PICK i1 \in 1..l : i1 = i - a - w + y
        BY <2>8, <3>3
      <4>2. v[i] = b[i1] /\ ByteIs(b[i1], i1, n, m, j, h, p, r, e)
        BY <1>2, <2>9, <3>3, <4>1
      <4>3. i1 > a + r /\ i1 + n - p + m - r = i + n - p + x - w
        BY <2>8, <3>0, <3>3, <4>1
      <4>4. ~(i1 <= a) /\ ~(i1 <= a + r) /\ ~(i <= a)
        BY <3>3, <4>3
      <4> QED
        BY <2>8, <3>3, <4>2, <4>3, <4>4, Zenon DEF ByteIs
    <3> QED
      BY <3>1, <3>2, <3>3
  <2>12. Shift(x) = w - x
    BY <2>2 DEF Shift
  <2>13. Names(v, n, x, h, p, w, s, c, e, d, z)
    BY <1>3, <2>2, <2>7, <2>12, Zenon DEF Names
  <2>14. Num(v, t, t, n, x, j, h, p, w, s, c, e, d, z)
    BY <1>2, <2>10, <2>11, <2>13, Zenon DEF Num
  <2>15. Share(x, j)
    BY DEF Share
  <2>16. Mapped(v, t, t, n, x, j)
    BY <2>6, <2>14, <2>15, Placed
  <2>17. z <= at + 2 * j + w
    BY <2>4, <2>8
  <2> QED
    BY <1>8, <2>2, <2>5, <2>7, <2>16, <2>17, Zenon DEF o, ErrKept
<1> QED
  BY <1>11, <1>12

\* A chunk takes the places behind the bytes that are there.
LEMMA Appended ==
  ASSUME StreamInv, NEW a, NEW t, NEW n, NEW m, NEW k, Mapped(a, t, t, n, m, k),
         NEW x \in Nat, t + x <= Len(stream)
  PROVE  Mapped(a \o [i \in 1..x |-> t + i], t + x, t, n, m, k)
<1> DEFINE b == a \o [i \in 1..x |-> t + i]
<1>1. PICK h, p, r, s, c, e, d, l \in Nat : Num(a, t, t, n, m, k, h, p, r, s, c, e, d, l)
  BY Numbers
<1>2. /\ Bounds(t, t, n, m, k, h, p, r, s, c, e, d, l)
      /\ Names(a, n, m, h, p, r, s, c, e, d, l)
      /\ (sizes.echo # 0 => 7 <= s)
      /\ \A i \in 1..l : ByteIs(a[i], i, n, m, k, h, p, r, e)
  BY <1>1, Zenon DEF Num
<1>3. t \in Nat /\ Buffer(a, t) /\ n \in Nat /\ m \in Nat
  BY DEF Mapped
<1>4. l = Len(a) /\ Len(stream) = d + 2
  BY <1>2, Zenon DEF Names
<1>5. PICK w \in Nat : w = t + x /\ w <= d + 2
  BY <1>3, <1>4
<1>6. /\ Buffer(b, w) /\ Len(b) = l + x
      /\ \A i \in 1..(l + x) : b[i] = IF i <= l THEN a[i] ELSE t + (i - l)
  <2>1. a \in Seq(0..w)
    <3>1. 0..t \subseteq 0..w /\ a \in Seq(0..t)
      BY <1>3, <1>5 DEF Buffer
    <3> QED
      BY <3>1, SeqMonotonic
  <2> DEFINE new == [i \in 1..x |-> t + i]
  <2>2. new \in Seq(0..w) /\ Len(new) = x
    BY <1>3, <1>5
  <2>3. \A i \in 1..x : new[i] = t + i
    OBVIOUS
  <2> HIDE DEF new
  <2>4. /\ a \o new \in Seq(0..w) /\ Len(a \o new) = Len(a) + Len(new)
        /\ \A i \in 1..(Len(a) + Len(new)) :
             (a \o new)[i] = IF i <= Len(a) THEN a[i] ELSE new[i - Len(a)]
    BY <2>1, <2>2, ConcatProperties
  <2>5. \A i \in 1..(l + x) : (a \o new)[i] = IF i <= l THEN a[i] ELSE t + (i - l)
    <3> TAKE i \in 1..(l + x)
    <3>1. ~(i <= l) => i - l \in 1..x
      OBVIOUS
    <3> QED
      BY <1>4, <2>2, <2>3, <2>4, <3>1
  <2>6. Len(a \o new) = l + x /\ Len(a \o new) \in Nat
    BY <1>4, <2>2, <2>4
  <2> QED
    BY <2>4, <2>5, <2>6, Zenon DEF new, Buffer
<1> HIDE DEF b
<1>7. PICK z \in Nat : z = l + x
  OBVIOUS
<1>8. Bounds(w, t, n, m, k, h, p, r, s, c, e, d, z)
  BY <1>2, <1>5, <1>7 DEF Bounds
<1>9. ASSUME NEW i \in 1..z PROVE ByteIs(b[i], i, n, m, k, h, p, r, e)
  <2>1. CASE i <= l
    <3>1. i \in 1..l /\ b[i] = a[i]
      BY <1>6, <1>7, <2>1
    <3> QED
      BY <1>2, <3>1
  <2>2. CASE ~(i <= l)
    <3>1. b[i] = t + (i - l)
      BY <1>6, <1>7, <2>2
    <3>2. /\ t + (i - l) = i + n - p + m - r
          /\ n > 0 => i > h + p
          /\ m > 0 => i > e - 1 - n + p + k + r
          /\ n = 0 => p = 0
          /\ m = 0 => r = 0
      BY <1>2, <2>2 DEF Bounds
    <3>3. m = 0 => i + n - p = i + n - p + m - r
      BY <1>3, <3>2
    <3>4. n = 0 => i + n - p = i
      BY <1>3, <3>2
    <3>5. /\ i + n - p + m - r = IF i <= e - 1 - n + p + k
             THEN IF i <= h THEN i ELSE IF i <= h + p THEN 0 ELSE i + n - p
             ELSE IF i <= e - 1 - n + p + k + r THEN 0 ELSE i + n - p + m - r
      <4>0. k \in Int
        BY <1>2 DEF Bounds
      <4>1. CASE m > 0
        <5>1. ~(i <= e - 1 - n + p + k) /\ ~(i <= e - 1 - n + p + k + r)
          BY <1>3, <3>2, <4>0, <4>1
        <5> QED
          BY <5>1, Zenon
      <4>2. CASE m = 0
        <5>1. n > 0 => ~(i <= h) /\ ~(i <= h + p)
          BY <1>3, <3>2
        <5>2. ~(i <= e - 1 - n + p + k) => ~(i <= e - 1 - n + p + k + r)
          BY <1>3, <3>2, <4>0, <4>2
        <5>3. CASE n > 0
          BY <3>3, <4>2, <5>1, <5>2, <5>3, Zenon
        <5>4. CASE n = 0
          <6>1. p = 0 /\ i + n - p + m - r = i
            BY <1>3, <3>2, <4>2, <5>4
          <6>2. i <= h + p => i <= h
            BY <6>1
          <6> QED
            BY <3>3, <3>4, <4>2, <5>2, <5>4, <6>1, <6>2, Zenon
        <5> QED
          BY <1>3, <5>3, <5>4
      <4> QED
        BY <1>3, <4>1, <4>2
    <3> QED
      BY <3>1, <3>2, <3>5, Zenon DEF ByteIs
  <2> QED
    BY <2>1, <2>2
<1>10. Names(b, n, m, h, p, r, s, c, e, d, z)
  BY <1>2, <1>6, <1>7, Zenon DEF Names
<1>11. Num(b, w, t, n, m, k, h, p, r, s, c, e, d, z)
  BY <1>2, <1>8, <1>9, <1>10, Zenon DEF Num
<1>12. Share(m, k)
  BY DEF Mapped, Gaps, Share
<1>13. Mapped(b, w, t, n, m, k)
  BY <1>6, <1>11, <1>12, Placed
<1> QED
  BY <1>5, <1>13 DEF b
-----------------------------------------------------------------------------
(* What is seen of the markers and of the header. *)

\* A marker occurs where its two bytes stand.
LEMMA MarkerAt ==
  ASSUME NEW b, Len(b) \in Nat, NEW i
  PROVE  /\ i \in Occurrences(b, StartMarker) <=>
              i \in 1..(Len(b) - 1) /\ Kind(b[i]) = "start" /\ Kind(b[i + 1]) = "start2"
         /\ i \in Occurrences(b, EndMarker) <=>
              i \in 1..(Len(b) - 1) /\ Kind(b[i]) = "end" /\ Kind(b[i + 1]) = "end2"
<1>1. Len(StartMarker) = 2 /\ Len(EndMarker) = 2 /\ Len(b) - 2 + 1 = Len(b) - 1
  BY DEF StartMarker, EndMarker
<1>2. /\ StartMarker[1] = "start" /\ StartMarker[2] = "start2"
      /\ EndMarker[1] = "end" /\ EndMarker[2] = "end2"
  BY DEF StartMarker, EndMarker
<1>3. ASSUME NEW j \in 1..(Len(b) - 1)
      PROVE  /\ (\A x \in 1..2 : Kind(b[j + x - 1]) = StartMarker[x]) <=>
                  Kind(b[j]) = "start" /\ Kind(b[j + 1]) = "start2"
             /\ (\A x \in 1..2 : Kind(b[j + x - 1]) = EndMarker[x]) <=>
                  Kind(b[j]) = "end" /\ Kind(b[j + 1]) = "end2"
  <2>1. j + 1 - 1 = j /\ j + 2 - 1 = j + 1
    OBVIOUS
  <2>2. 1..2 = {1, 2}
    OBVIOUS
  <2> QED
    BY <1>2, <2>1, <2>2, Zenon
<1>4. /\ Occurrences(b, StartMarker) =
           {j \in 1..(Len(b) - 1) : \A x \in 1..2 : Kind(b[j + x - 1]) = StartMarker[x]}
      /\ Occurrences(b, EndMarker) =
           {j \in 1..(Len(b) - 1) : \A x \in 1..2 : Kind(b[j + x - 1]) = EndMarker[x]}
  BY <1>1 DEF Occurrences
<1> QED
  BY <1>3, <1>4

\* What a byte of the buffer is: a separator's or one that has arrived.
LEMMA KindOf ==
  ASSUME StreamInv, NEW b, NEW t, NEW u, NEW n, NEW m, NEW k, Mapped(b, t, u, n, m, k),
         NEW i \in 1..Len(b)
  PROVE  /\ b[i] \in 0..t
         /\ Kind(b[i]) = IF b[i] = 0 THEN "sep" ELSE stream[b[i]]
         /\ b[i] # 0 => b[i] \in 1..Len(stream) /\ b[i] <= t
<1>1. t \in Nat /\ b \in Seq(0..t) /\ t <= EndAt + 2 /\ Len(stream) = EndAt + 2
  BY Places, Zenon DEF Mapped, Buffer
<1>2. b[i] \in 0..t
  BY <1>1, ElementOfSeq
<1>3. t <= Len(stream) /\ Len(stream) \in Nat
  BY <1>1, Places
<1> QED
  BY <1>1, <1>2, <1>3 DEF Kind

\* A byte of the header that has arrived.
LEMMA HeaderByte ==
  ASSUME StreamInv, NEW b, NEW t, NEW u, NEW n, NEW m, NEW k, Mapped(b, t, u, n, m, k),
         NEW q \in Nat, StartAt - 1 <= q, q < ErrAt, q <= t
  PROVE  /\ q + Shift(n) \in 1..Len(b) /\ b[q + Shift(n)] = q
         /\ Kind(b[q + Shift(n)]) = stream[q]
<1>1. q + Shift(n) \in 1..Len(b) /\ b[q + Shift(n)] = q
  BY HeaderStands
<1>2. q # 0
  BY Places
<1> QED
  BY <1>1, <1>2 DEF Kind

\* The start marker is seen where it stands, and in an echo.
LEMMA StartSeen ==
  ASSUME StreamInv, NEW b, NEW t, NEW u, NEW n, NEW m, NEW k, Mapped(b, t, u, n, m, k)
  PROVE  /\ StartAt + 1 <= t => StartAt + Shift(n) \in Occurrences(b, StartMarker)
         /\ \A i \in Occurrences(b, StartMarker) :
              \/ i = StartAt + Shift(n) /\ StartAt + 1 <= t
              \/ i = 1 /\ sizes.echo # 0
<1>1. /\ t \in Nat /\ u \in Nat /\ u <= t /\ n \in Nat /\ m \in Nat /\ Len(b) \in Nat
      /\ Layout(b, t, n, m, k) /\ Gaps(u, n, m, k)
  BY DEF Mapped, Buffer
<1>2. PICK s \in Nat : s = StartAt /\ 2 <= s /\ s + 6 < ErrAt
  BY Places
<1>3. PICK f \in Int : f = Shift(n)
  BY <1>1, SepLenNat DEF Shift
<1>4. stream[s] = "start" /\ stream[s + 1] = "start2"
  BY <1>2 DEF StreamInv
<1>5. ASSUME s + 1 <= t PROVE s + f \in Occurrences(b, StartMarker)
  <2>1. s + f \in 1..Len(b) /\ Kind(b[s + f]) = "start"
    <3>1. StartAt - 1 <= s /\ s < ErrAt /\ s <= t
      BY <1>1, <1>2, <1>5, Places
    <3>2. s + Shift(n) \in 1..Len(b) /\ Kind(b[s + Shift(n)]) = stream[s]
      BY <3>1, HeaderByte
    <3> QED
      BY <1>3, <1>4, <3>2, Zenon
  <2>2. PICK q \in Nat : q = s + 1 /\ StartAt - 1 <= q /\ q < ErrAt /\ q <= t
    BY <1>2, <1>5, Places
  <2>3. q + Shift(n) \in 1..Len(b) /\ Kind(b[q + Shift(n)]) = stream[q]
    BY <2>2, HeaderByte
  <2>4. q + Shift(n) = s + f + 1
    BY <1>3, <2>2
  <2>5. s + f + 1 \in 1..Len(b) /\ Kind(b[s + f + 1]) = "start2"
    BY <1>4, <2>2, <2>3, <2>4, Zenon
  <2>6. s + f \in 1..(Len(b) - 1)
    BY <1>1, <2>1, <2>5
  <2> QED
    BY <1>1, <2>1, <2>5, <2>6, MarkerAt
<1>6. ASSUME NEW i \in Occurrences(b, StartMarker)
      PROVE  (i = s + f /\ s + 1 <= t) \/ (i = 1 /\ sizes.echo # 0)
  <2>1. i \in 1..(Len(b) - 1) /\ Kind(b[i]) = "start"
    BY <1>1, <1>6, MarkerAt
  <2>2. i \in 1..Len(b)
    BY <1>1, <2>1
  <2>3. b[i] # 0 /\ b[i] \in 1..Len(stream) /\ stream[b[i]] = "start" /\ b[i] <= t
    BY <2>1, <2>2, KindOf
  <2>4. b[i] = StartAt \/ (sizes.echo # 0 /\ b[i] = 1)
    BY <2>3 DEF StreamInv
  <2>5. CASE b[i] = StartAt
    <3>1. i = s + f
      <4>1. StartAt - 1 <= s /\ s < ErrAt
        BY <1>2, Places
      <4> QED
        BY <1>2, <1>3, <2>2, <2>5, <4>1, HeaderStands
    <3>2. s <= t
      BY <1>2, <2>3, <2>5
    <3>3. ASSUME t = s PROVE FALSE
      <4>1. m = 0
        <5>1. m > 0 => Before(0) + 2 * k + m <= u /\ k >= Cap \div 4
          BY <1>1 DEF Gaps
        <5>2. Before(0) = ErrAt - 1
          BY SepLenZero, Places DEF Before
        <5>3. k \in Int /\ ErrAt \in Nat /\ Cap \div 4 \in Nat
          BY Room, Places DEF Mapped, NoKeep
        <5> QED
          BY <1>1, <1>2, <3>3, <5>1, <5>2, <5>3
      <4>2. Len(b) = t + Shift(n) + Shift(m) /\ Shift(0) = 0
        BY <1>1, SepLenZero DEF Layout
      <4>3. Len(b) = s + f
        BY <1>3, <3>3, <4>1, <4>2
      <4> QED
        BY <2>1, <3>1, <4>3
    <3> QED
      BY <1>1, <3>1, <3>2, <3>3
  <2>6. CASE sizes.echo # 0 /\ b[i] = 1
    <3>1. 1 \in 1..6
      OBVIOUS
    <3>2. i = 1
      BY <2>2, <2>6, <3>1, EchoStands
    <3> QED
      BY <2>6, <3>2
  <2> QED
    BY <2>4, <2>5, <2>6
<1> QED
  BY <1>2, <1>3, <1>5, <1>6

\* The same of the end marker.
LEMMA EndSeen ==
  ASSUME StreamInv, NEW b, NEW t, NEW u, NEW n, NEW m, NEW k, Mapped(b, t, u, n, m, k)
  PROVE  /\ EndAt + 1 <= t => EndAt + Shift(n) + Shift(m) \in Occurrences(b, EndMarker)
         /\ \A i \in Occurrences(b, EndMarker) :
              \/ i = EndAt + Shift(n) + Shift(m) /\ EndAt + 1 <= t
              \/ i = 4 /\ sizes.echo # 0
<1>1. /\ t \in Nat /\ n \in Nat /\ m \in Nat /\ Len(b) \in Nat /\ Layout(b, t, n, m, k)
  BY DEF Mapped, Buffer
<1>2. PICK s \in Nat : s = EndAt /\ 2 <= s
  BY Places
<1>3. PICK f \in Int : f = Shift(n) + Shift(m)
  BY <1>1, SepLenNat DEF Shift
<1>4. stream[s] = "end" /\ stream[s + 1] = "end2"
  BY <1>2 DEF StreamInv
<1>5. Shift(n) \in Int /\ Shift(m) \in Int
  <2>1. SepLen(n) \in Nat /\ SepLen(m) \in Nat
    BY <1>1, SepLenNat
  <2> QED
    BY <1>1, <2>1 DEF Shift
<1>6. ASSUME s + 1 <= t PROVE s + f \in Occurrences(b, EndMarker)
  <2>1. PICK q \in Nat : q = s + 1
    OBVIOUS
  <2>2. EndAt <= s /\ s <= t /\ EndAt <= q /\ q <= t
    BY <1>1, <1>2, <1>6, <2>1
  <2>3. /\ s + Shift(n) + Shift(m) \in 1..Len(b) /\ b[s + Shift(n) + Shift(m)] = s
        /\ q + Shift(n) + Shift(m) \in 1..Len(b) /\ b[q + Shift(n) + Shift(m)] = q
    BY <2>2, EndStands
  <2>4. s + Shift(n) + Shift(m) = s + f /\ q + Shift(n) + Shift(m) = s + f + 1
    BY <1>3, <1>5, <2>1
  <2>5. b[s + f] = s /\ b[s + f + 1] = q /\ s # 0 /\ q # 0
    BY <1>2, <2>1, <2>3, <2>4
  <2>6. Kind(b[s + f]) = "end" /\ Kind(b[s + f + 1]) = "end2"
    BY <1>4, <2>1, <2>5 DEF Kind
  <2>7. s + f \in 1..(Len(b) - 1)
    BY <1>1, <2>3, <2>4
  <2> QED
    BY <1>1, <2>6, <2>7, MarkerAt
<1>7. ASSUME NEW i \in Occurrences(b, EndMarker)
      PROVE  (i = s + f /\ s + 1 <= t) \/ (i = 4 /\ sizes.echo # 0)
  <2>1. i \in 1..(Len(b) - 1) /\ Kind(b[i]) = "end"
    BY <1>1, <1>7, MarkerAt
  <2>2. i \in 1..Len(b)
    BY <1>1, <2>1
  <2>3. b[i] # 0 /\ b[i] \in 1..Len(stream) /\ stream[b[i]] = "end" /\ b[i] <= t
    BY <2>1, <2>2, KindOf
  <2>4. b[i] = EndAt \/ (sizes.echo # 0 /\ b[i] = 4)
    BY <2>3 DEF StreamInv
  <2>5. CASE b[i] = EndAt
    <3>1. i = s + f
      <4>1. EndAt <= s
        BY <1>2
      <4>2. i = s + Shift(n) + Shift(m)
        BY <1>2, <2>2, <2>5, <4>1, EndStands
      <4> QED
        BY <1>3, <1>5, <4>2
    <3>2. s <= t
      BY <1>2, <2>3, <2>5
    <3>3. Len(b) = t + f
      BY <1>1, <1>3, <1>5 DEF Layout
    <3>4. i + 1 <= Len(b)
      BY <1>1, <2>1
    <3> QED
      BY <1>1, <3>1, <3>2, <3>3, <3>4
  <2>6. CASE sizes.echo # 0 /\ b[i] = 4
    <3>1. 4 \in 1..6
      OBVIOUS
    <3>2. i = 4
      BY <2>2, <2>6, <3>1, EchoStands
    <3> QED
      BY <2>6, <3>2
  <2> QED
    BY <2>4, <2>5, <2>6
<1>8. s + f = EndAt + Shift(n) + Shift(m)
  BY <1>2, <1>3, <1>5
<1> QED
  BY <1>2, <1>6, <1>7, <1>8

\* How many elements a small set has.
LEMMA OneMore ==
  ASSUME NEW S, IsFiniteSet(S), NEW c \in Nat, Cardinality(S) = c, NEW x, x \notin S
  PROVE  IsFiniteSet(S \cup {x}) /\ Cardinality(S \cup {x}) = c + 1
BY FS_AddElement

\* Two.
LEMMA TwoElements == ASSUME NEW x, NEW y, x # y PROVE IsFiniteSet({x, y}) /\ Cardinality({x, y}) = 2
<1>1. {x, y} = {x} \cup {y} /\ y \notin {x}
  OBVIOUS
<1>2. IsFiniteSet({x}) /\ Cardinality({x}) = 1 /\ 1 \in Nat
  BY FS_Singleton
<1>3. IsFiniteSet({x} \cup {y}) /\ Cardinality({x} \cup {y}) = 1 + 1
  BY <1>1, <1>2, OneMore, Zenon
<1>4. 1 + 1 = 2
  OBVIOUS
<1> QED
  BY <1>1, <1>3, <1>4, Zenon

\* Three.
LEMMA ThreeElements ==
  ASSUME NEW x, NEW y, NEW z, x # y, x # z, y # z
  PROVE  IsFiniteSet({x, y, z}) /\ Cardinality({x, y, z}) = 3
<1>1. {x, y, z} = {x, y} \cup {z} /\ z \notin {x, y}
  OBVIOUS
<1>2. IsFiniteSet({x, y}) /\ Cardinality({x, y}) = 2 /\ 2 \in Nat
  BY TwoElements
<1>3. IsFiniteSet({x, y} \cup {z}) /\ Cardinality({x, y} \cup {z}) = 2 + 1
  BY <1>1, <1>2, OneMore, Zenon
<1>4. 2 + 1 = 3
  OBVIOUS
<1> QED
  BY <1>1, <1>3, <1>4, Zenon

\* Four.
LEMMA FourElements ==
  ASSUME NEW x, NEW y, NEW z, NEW w, x # y, x # z, y # z, w \notin {x, y, z}
  PROVE  IsFiniteSet({x, y, z, w}) /\ Cardinality({x, y, z, w}) = 4
<1>1. {x, y, z, w} = {x, y, z} \cup {w} /\ w \notin {x, y, z}
  OBVIOUS
<1>2. IsFiniteSet({x, y, z}) /\ Cardinality({x, y, z}) = 3 /\ 3 \in Nat
  BY ThreeElements
<1>3. IsFiniteSet({x, y, z} \cup {w}) /\ Cardinality({x, y, z} \cup {w}) = 3 + 1
  BY <1>1, <1>2, OneMore, Zenon
<1>4. 3 + 1 = 4
  OBVIOUS
<1> QED
  BY <1>1, <1>3, <1>4, Zenon

\* Which separators are the first three.
ThreeMarks(b, i, j, u1, u2, u3) ==
  /\ i \in Int /\ j \in Int /\ u1 \in Int /\ u2 \in Int /\ u3 \in Int
  /\ i <= u1 /\ u1 < u2 /\ u2 < u3
  /\ \A x \in i..j : x <= u3 => (Kind(b[x]) = "us" <=> x \in {u1, u2, u3})

\* NthSeparator finds them.
LEMMA FirstThree ==
  ASSUME NEW b, NEW i, NEW j, NEW u1, NEW u2, NEW u3, ThreeMarks(b, i, j, u1, u2, u3)
  PROVE  /\ u3 <= j => /\ NthSeparator(b, i, j, 1) = {u1}
                       /\ NthSeparator(b, i, j, 2) = {u2}
                       /\ NthSeparator(b, i, j, 3) = {u3}
         /\ j < u3 => NthSeparator(b, i, j, 3) = {}
<1>1. /\ i \in Int /\ j \in Int /\ u1 \in Int /\ u2 \in Int /\ u3 \in Int
      /\ i <= u1 /\ u1 < u2 /\ u2 < u3
      /\ \A x \in i..j : x <= u3 => (Kind(b[x]) = "us" <=> x \in {u1, u2, u3})
  BY DEF ThreeMarks
<1> DEFINE S(k) == Separators(b, i, k)
<1>2. \A k : S(k) = {x \in i..k : Kind(b[x]) = "us"}
  BY DEF Separators
<1>3. \A n : NthSeparator(b, i, j, n) = {k \in S(j) : Cardinality(S(k)) = n}
  BY DEF NthSeparator
<1> HIDE DEF S
<1>4. \A k \in S(j) : k \in Int /\ i <= k /\ k <= j
  BY <1>1, <1>2
<1>5. ASSUME NEW k \in S(j), k <= u3 PROVE k \in {u1, u2, u3}
  BY <1>1, <1>2, <1>5
<1>6. ASSUME u1 <= j PROVE u1 \in S(j) /\ Cardinality(S(u1)) = 1
  <2>1. S(u1) = {u1}
    BY <1>1, <1>2, <1>6
  <2>2. u1 \in S(j)
    BY <1>1, <1>2, <1>6
  <2> QED
    BY <2>1, <2>2, FS_Singleton
<1>7. ASSUME u2 <= j PROVE u2 \in S(j) /\ Cardinality(S(u2)) = 2
  <2>1. S(u2) = {u1, u2}
    BY <1>1, <1>2, <1>7
  <2>2. u2 \in S(j) /\ u1 # u2
    BY <1>1, <1>2, <1>7
  <2> QED
    BY <2>1, <2>2, TwoElements, Zenon
<1>8. ASSUME u3 <= j PROVE u3 \in S(j) /\ Cardinality(S(u3)) = 3
  <2>1. S(u3) = {u1, u2, u3}
    BY <1>1, <1>2, <1>8
  <2>2. u3 \in S(j) /\ u1 # u2 /\ u1 # u3 /\ u2 # u3
    BY <1>1, <1>2, <1>8
  <2>3. Cardinality({u1, u2, u3}) = 3
    BY <2>2, ThreeElements
  <2> QED
    BY <2>1, <2>2, <2>3
<1>9. ASSUME NEW k \in S(j), u3 < k PROVE Cardinality(S(k)) \in Nat /\ Cardinality(S(k)) >= 4
  <2>1. {u1, u2, u3, k} \subseteq S(k)
    BY <1>1, <1>2, <1>4, <1>9
  <2>2. u1 # u2 /\ u1 # u3 /\ u2 # u3 /\ k \notin {u1, u2, u3}
    BY <1>1, <1>4, <1>9
  <2>3. IsFiniteSet({u1, u2, u3, k}) /\ Cardinality({u1, u2, u3, k}) = 4
    BY <2>2, FourElements, Zenon
  <2>4. IsFiniteSet(S(k))
    <3>1. k \in Int
      BY <1>4
    <3>2. IsFiniteSet(i..k)
      BY <1>1, <3>1, FS_Interval
    <3>3. S(k) \subseteq i..k
      BY <1>2
    <3> QED
      BY <3>2, <3>3, FS_Subset
  <2> QED
    BY <2>1, <2>3, <2>4, FS_Subset, FS_CardinalityType
<1>10. ASSUME u3 <= j, NEW k \in S(j)
       PROVE  /\ Cardinality(S(k)) = 1 <=> k = u1
              /\ Cardinality(S(k)) = 2 <=> k = u2
              /\ Cardinality(S(k)) = 3 <=> k = u3
  <2>0. u1 <= j /\ u2 <= j /\ u1 # u2 /\ u1 # u3 /\ u2 # u3
    BY <1>1, <1>10
  <2>1. CASE k <= u3
    BY <1>5, <1>6, <1>7, <1>8, <1>10, <2>0, <2>1
  <2>2. CASE ~(k <= u3)
    <3>1. u3 < k
      BY <1>1, <1>4, <2>2
    <3>2. Cardinality(S(k)) \in Nat /\ Cardinality(S(k)) >= 4
      BY <1>9, <3>1
    <3> QED
      BY <1>1, <3>1, <3>2
  <2> QED
    BY <2>1, <2>2
<1>11. ASSUME u3 <= j
       PROVE  /\ NthSeparator(b, i, j, 1) = {u1}
              /\ NthSeparator(b, i, j, 2) = {u2}
              /\ NthSeparator(b, i, j, 3) = {u3}
  <2>1. u1 \in S(j) /\ u2 \in S(j) /\ u3 \in S(j)
    <3>1. u1 <= j /\ u2 <= j
      BY <1>1, <1>11
    <3> QED
      BY <1>6, <1>7, <1>8, <1>11, <3>1
  <2> QED
    BY <1>3, <1>10, <1>11, <2>1
<1>12. ASSUME j < u3 PROVE NthSeparator(b, i, j, 3) = {}
  <2> SUFFICES ASSUME NEW k \in S(j), Cardinality(S(k)) = 3 PROVE FALSE
    BY <1>3
  <2>1. k <= u3 /\ k # u3
    BY <1>1, <1>4, <1>12
  <2>2. k \in {u1, u2} /\ k <= j
    BY <1>4, <1>5, <2>1
  <2> QED
    BY <1>6, <1>7, <2>2
<1> QED
  BY <1>11, <1>12

\* What a byte of the header is.
LEMMA HeaderSeen ==
  ASSUME StreamInv, NEW b, NEW t, NEW u, NEW n, NEW m, NEW k, Mapped(b, t, u, n, m, k),
         NEW q \in Nat, StartAt + 2 <= q, q < ErrAt, q <= t
  PROVE  /\ q + Shift(n) \in 1..Len(b)
         /\ Kind(b[q + Shift(n)]) =
              IF q \in {StartAt + 2, CwdAt - 1, ErrAt - 1} THEN "us"
              ELSE IF q < CwdAt THEN "digit" ELSE "x"
<1>1. StartAt - 1 <= q /\ q \in (StartAt + 2)..(ErrAt - 1) /\ q \in 1..Len(stream)
  BY Places
<1>2. stream[q] = IF q \in {StartAt + 2, CwdAt - 1, ErrAt - 1} THEN "us"
                  ELSE IF q < CwdAt THEN "digit" ELSE "x"
  BY <1>1 DEF StreamInv
<1>3. q + Shift(n) \in 1..Len(b) /\ Kind(b[q + Shift(n)]) = stream[q]
  BY <1>1, HeaderByte
<1> QED
  BY <1>2, <1>3

\* A byte of the trailer's header for which the buffer is long enough has arrived.
LEMMA Arrived ==
  ASSUME StreamInv, NEW b, NEW t, NEW u, NEW n, NEW m, NEW k, Mapped(b, t, u, n, m, k),
         NEW q \in Int, q < ErrAt, q + Shift(n) <= Len(b)
  PROVE  q <= t
<1>1. PICK h, p, r, s, c, e, d, l \in Nat : Num(b, t, u, n, m, k, h, p, r, s, c, e, d, l)
  BY Numbers
<1>2. Bounds(t, u, n, m, k, h, p, r, s, c, e, d, l) /\ Names(b, n, m, h, p, r, s, c, e, d, l)
  BY <1>1, Zenon DEF Num
<1>3. e = ErrAt /\ l = Len(b) /\ Shift(n) = p - n
  BY <1>2, Zenon DEF Names
<1>4. q < e /\ q + (p - n) <= l
  BY <1>3, Zenon
<1> QED
  BY <1>2, <1>4 DEF Bounds

\* The separators of the header are the first behind the start marker.
LEMMA HeaderMarks ==
  ASSUME StreamInv, NEW b, NEW t, NEW u, NEW n, NEW m, NEW k, Mapped(b, t, u, n, m, k),
         NEW j \in Int, j <= Len(b)
  PROVE  ThreeMarks(b, StartAt + Shift(n) + 2, j, StartAt + Shift(n) + 2, CwdAt - 1 + Shift(n), ErrAt - 1 + Shift(n))
<1>1. PICK s \in Nat, c \in Nat, e \in Nat :
        s = StartAt /\ c = CwdAt /\ e = ErrAt /\ s + 5 <= c /\ c + 2 <= e
  BY Places
<1>2. n \in Nat /\ Len(b) \in Nat
  BY DEF Mapped, Buffer
<1>3. PICK f \in Int : f = Shift(n)
  BY <1>2, SepLenNat DEF Shift
<1>4. ASSUME NEW x \in (s + f + 2)..j, x <= e - 1 + f
      PROVE  Kind(b[x]) = "us" <=> x \in {s + f + 2, c - 1 + f, e - 1 + f}
  <2>1. PICK q \in Nat : q = x - f /\ s + 2 <= q /\ q < e /\ q + f = x
    BY <1>4
  <2>2. q + Shift(n) <= Len(b) /\ q < ErrAt /\ q \in Int
    BY <1>1, <1>2, <1>3, <2>1
  <2>3. q <= t
    BY <2>2, Arrived
  <2>4. StartAt + 2 <= q /\ q < ErrAt /\ q \in Nat
    BY <1>1, <2>1
  <2>5. Kind(b[q + Shift(n)]) =
          IF q \in {StartAt + 2, CwdAt - 1, ErrAt - 1} THEN "us" ELSE IF q < CwdAt THEN "digit" ELSE "x"
    BY <2>3, <2>4, HeaderSeen
  <2>6. Kind(b[x]) = IF q \in {s + 2, c - 1, e - 1} THEN "us" ELSE IF q < c THEN "digit" ELSE "x"
    BY <1>1, <1>3, <2>1, <2>5, Zenon
  <2>7. q \in {s + 2, c - 1, e - 1} <=> x \in {s + f + 2, c - 1 + f, e - 1 + f}
    BY <2>1
  <2> QED
    BY <2>6, <2>7
<1>5. s + f + 2 < c - 1 + f /\ c - 1 + f < e - 1 + f
  BY <1>1
<1>6. ThreeMarks(b, s + f + 2, j, s + f + 2, c - 1 + f, e - 1 + f)
  BY <1>4, <1>5 DEF ThreeMarks
<1> QED
  BY <1>1, <1>3, <1>6, Zenon

\* The header is recognized when the separator behind the exit code has arrived.
LEMMA HeaderValid ==
  ASSUME StreamInv, NEW b, NEW t, NEW u, NEW n, NEW m, NEW k, Mapped(b, t, u, n, m, k)
  PROVE  ValidHeader(b, StartAt + Shift(n) + 2) <=> CwdAt - 1 <= t
<1>1. PICK s \in Nat, c \in Nat, e \in Nat :
        /\ s = StartAt /\ c = CwdAt /\ e = ErrAt /\ c \in (s + 5)..(s + 6) /\ c + 2 <= e
  BY Places
<1>2. n \in Nat /\ Len(b) \in Nat /\ t \in Nat
  BY DEF Mapped, Buffer
<1>3. PICK f \in Int : f = Shift(n)
  BY <1>2, SepLenNat DEF Shift
<1>4. ASSUME NEW q \in (s + 2)..(c - 1), q <= t
      PROVE  /\ q + f \in 1..Len(b)
             /\ Kind(b[q + f]) = IF q \in {s + 2, c - 1} THEN "us" ELSE "digit"
  <2>1. q \in Nat /\ StartAt + 2 <= q /\ q < ErrAt /\ q < CwdAt /\ q # ErrAt - 1
    BY <1>1
  <2>2. /\ q + Shift(n) \in 1..Len(b)
        /\ Kind(b[q + Shift(n)]) =
              IF q \in {StartAt + 2, CwdAt - 1, ErrAt - 1} THEN "us"
              ELSE IF q < CwdAt THEN "digit" ELSE "x"
    BY <1>4, <2>1, HeaderSeen
  <2> QED
    BY <1>1, <1>3, <2>1, <2>2, Zenon
<1>5. ASSUME NEW q \in Int, q < e, q + f <= Len(b) PROVE q <= t
  <2>1. q < ErrAt /\ q + Shift(n) <= Len(b)
    BY <1>1, <1>3, <1>5
  <2> QED
    BY <2>1, Arrived
<1>6. ValidHeader(b, s + f + 2) <=>
        \E y \in 1..2 :
          /\ s + f + 2 + y + 1 <= Len(b)
          /\ Kind(b[s + f + 2]) = "us" /\ Kind(b[s + f + 2 + y + 1]) = "us"
          /\ \A j \in 1..y : Kind(b[s + f + 2 + j]) = "digit"
  BY DEF ValidHeader, MaxDigits
<1>7. ASSUME c - 1 <= t PROVE ValidHeader(b, s + f + 2)
  <2>1. PICK y \in 1..2 : y = c - s - 4
    BY <1>1
  <2>2. /\ s + 2 \in (s + 2)..(c - 1) /\ s + 2 <= t /\ s + 2 + f = s + f + 2
        /\ c - 1 \in (s + 2)..(c - 1) /\ c - 1 + f = s + f + 2 + y + 1
    BY <1>1, <1>2, <1>7, <2>1
  <2>3. s + f + 2 + y + 1 <= Len(b) /\ Kind(b[s + f + 2]) = "us" /\ Kind(b[s + f + 2 + y + 1]) = "us"
    <3>1. /\ Kind(b[s + 2 + f]) = IF s + 2 \in {s + 2, c - 1} THEN "us" ELSE "digit"
          /\ c - 1 + f \in 1..Len(b)
          /\ Kind(b[c - 1 + f]) = IF c - 1 \in {s + 2, c - 1} THEN "us" ELSE "digit"
      BY <1>4, <1>7, <2>2
    <3>2. Kind(b[s + 2 + f]) = "us" /\ Kind(b[c - 1 + f]) = "us"
      BY <3>1
    <3>3. c - 1 + f <= Len(b)
      BY <1>2, <3>1
    <3> QED
      BY <2>2, <3>2, <3>3, Zenon
  <2>4. ASSUME NEW j \in 1..y PROVE Kind(b[s + f + 2 + j]) = "digit"
    <3>1. PICK q \in (s + 2)..(c - 1) : q = s + 2 + j /\ q \notin {s + 2, c - 1} /\ q + f = s + f + 2 + j /\ q <= t
      BY <1>1, <1>2, <1>7, <2>1, <2>4
    <3> QED
      BY <1>4, <3>1
  <2> QED
    BY <1>6, <2>3, <2>4
<1>8. ASSUME ~(c - 1 <= t), ValidHeader(b, s + f + 2) PROVE FALSE
  <2>1. PICK y \in 1..2 : /\ s + f + 2 + y + 1 <= Len(b)
                          /\ Kind(b[s + f + 2 + y + 1]) = "us"
    BY <1>6, <1>8
  <2>2. s + 3 + y <= t
    BY <1>1, <1>5, <2>1
  <2>3. s + 3 + y \in (s + 2)..(c - 1) /\ s + 3 + y \notin {s + 2, c - 1} /\ s + 3 + y + f = s + f + 2 + y + 1
    BY <1>1, <1>2, <1>8, <2>1, <2>2
  <2> QED
    BY <1>4, <2>1, <2>2, <2>3
<1> QED
  BY <1>1, <1>3, <1>7, <1>8, Zenon

\* What has been tracked of the trailer after t bytes.
Tracks(t, n, m) ==
  /\ scanned = t + Shift(n) + Shift(m)
  /\ start = IF t < CwdAt - 1 THEN 0 ELSE StartAt + Shift(n)
  /\ stderrAt = IF t < ErrAt - 1 THEN 0 ELSE ErrAt + Shift(n)

\* track_start: the start marker is found with the byte that completes its header.
LEMMA StartTracked ==
  ASSUME StreamInv, NEW b, NEW t, NEW u, NEW n, NEW m, NEW k, Mapped(b, t, u, n, m, k),
         Tracks(u, n, m)
  PROVE  TrackStart(b) = IF t < CwdAt - 1 THEN 0 ELSE StartAt + Shift(n)
<1>1. PICK h, p, r, s, c, e, d, l \in Nat : Num(b, t, u, n, m, k, h, p, r, s, c, e, d, l)
  BY Numbers
<1>2. Bounds(t, u, n, m, k, h, p, r, s, c, e, d, l) /\ Names(b, n, m, h, p, r, s, c, e, d, l)
  BY <1>1, Zenon DEF Num
<1>3. /\ e = ErrAt /\ l = Len(b) /\ s = StartAt /\ c = CwdAt
      /\ Shift(n) = p - n /\ Shift(m) = r - m
  BY <1>2, Zenon DEF Names
<1>4. t \in Nat /\ u \in Nat /\ n \in Nat /\ m \in Nat /\ u <= t /\ s + 5 <= c /\ c <= s + 6 /\ c + 2 <= e
  BY <1>2 DEF Bounds
<1>5. PICK f \in Int : f = p - n /\ f = Shift(n)
  BY <1>3, <1>4
<1>6. start = IF u < c - 1 THEN 0 ELSE s + f
  BY <1>3, <1>5, Zenon DEF Tracks
<1> DEFINE new == {i \in Occurrences(b, StartMarker) :
                     /\ i > scanned - (Len(StartMarker) - 1 + HDR)
                     /\ ValidHeader(b, i + Len(StartMarker))}
           first == {i \in new : \A j \in new : i <= j}
<1>7. TrackStart(b) = IF start # 0 \/ first = {} THEN start ELSE CHOOSE i \in first : TRUE
  BY DEF TrackStart
<1>8. Len(StartMarker) - 1 + HDR = 5 /\ Len(StartMarker) = 2
  BY Room DEF StartMarker
<1>9. CASE c - 1 <= u
  <2>1. s - 1 <= s /\ s < e /\ s <= t
    BY <1>4, <1>9
  <2>2. s + f \in 1..Len(b)
    BY <1>3, <1>5, <2>1, HeaderStands
  <2>3. start = s + f /\ start # 0
    BY <1>4, <1>6, <1>9, <2>2
  <2>4. ~(t < c - 1)
    BY <1>4, <1>9
  <2> QED
    BY <1>3, <1>5, <1>7, <2>3, <2>4, Zenon
<1>10. CASE ~(c - 1 <= u)
  <2>1. start = 0
    BY <1>4, <1>6, <1>10
  <2>2. m = 0
    BY <1>2, <1>10 DEF Bounds
  <2>3. scanned = u + f
    <3>1. Shift(m) = 0
      BY <2>2, SepLenZero
    <3> QED
      BY <1>4, <1>5, <3>1 DEF Tracks
  <2>4. \A i \in new : i = s + f /\ c - 1 <= t
    <3> SUFFICES ASSUME NEW i \in new PROVE i = s + f /\ c - 1 <= t
      OBVIOUS
    <3>1. i \in Occurrences(b, StartMarker) /\ ValidHeader(b, i + 2)
      BY <1>8
    <3>2. i = s + f \/ (i = 1 /\ sizes.echo # 0)
      BY <1>3, <1>5, <3>1, StartSeen
    <3>3. CASE i = s + f
      <4>1. ValidHeader(b, StartAt + Shift(n) + 2)
        BY <1>3, <1>5, <3>1, <3>3, Zenon
      <4> QED
        BY <1>3, <3>3, <4>1, HeaderValid
    <3>4. CASE i = 1 /\ sizes.echo # 0
      <4>1. Kind(b[3]) = "us" /\ 3 <= Len(b)
        <5>1. PICK y \in 1..MaxDigits : 3 + y + 1 <= Len(b) /\ Kind(b[3]) = "us"
          BY <3>1, <3>4 DEF ValidHeader
        <5> QED
          BY <1>3, <5>1 DEF MaxDigits
      <4>2. 3 \in 1..Len(b) /\ 1 \in 1..6
        BY <1>3, <4>1
      <4>3. b[3] = 3
        BY <3>4, <4>2, EchoStands
      <4>4. Kind(b[3]) = "x"
        BY <3>4, <4>3 DEF Kind, StreamInv
      <4> QED
        BY <4>1, <4>4
    <3> QED
      BY <3>2, <3>3, <3>4
  <2>5. c - 1 <= t => s + f \in new
    <3> SUFFICES ASSUME c - 1 <= t PROVE s + f \in new
      OBVIOUS
    <3>1. StartAt + 1 <= t /\ CwdAt - 1 <= t
      BY <1>3, <1>4
    <3>2. StartAt + Shift(n) \in Occurrences(b, StartMarker) /\ ValidHeader(b, StartAt + Shift(n) + 2)
      BY <3>1, StartSeen, HeaderValid
    <3>3. s + f > scanned - 5
      BY <1>4, <1>10, <2>3
    <3> QED
      BY <1>3, <1>5, <1>8, <3>2, <3>3
  <2> HIDE DEF new
  <2>6. CASE c - 1 <= t
    <3>1. new = {s + f}
      BY <2>4, <2>5, <2>6
    <3>2. first = {s + f}
      BY <3>1
    <3> HIDE DEF first
    <3>3. TrackStart(b) = s + f
      BY <1>7, <2>1, <3>2
    <3> QED
      BY <1>3, <1>4, <1>5, <2>6, <3>3
  <2>7. CASE ~(c - 1 <= t)
    <3>1. first = {}
      BY <2>4, <2>7
    <3> HIDE DEF first
    <3>2. TrackStart(b) = 0
      BY <1>7, <2>1, <3>1
    <3> QED
      BY <1>3, <1>4, <2>7, <3>2
  <2> QED
    BY <2>6, <2>7
<1> QED
  BY <1>9, <1>10

\* track_start: and stderr with the byte before it.
LEMMA StderrTracked ==
  ASSUME StreamInv, NEW b, NEW t, NEW u, NEW n, NEW m, NEW k, Mapped(b, t, u, n, m, k),
         Tracks(u, n, m), NEW s0, s0 = TrackStart(b)
  PROVE  TrackStderr(b, s0) = IF t < ErrAt - 1 THEN 0 ELSE ErrAt + Shift(n)
<1>1. PICK h, p, r, s, c, e, d, l \in Nat : Num(b, t, u, n, m, k, h, p, r, s, c, e, d, l)
  BY Numbers
<1>2. Bounds(t, u, n, m, k, h, p, r, s, c, e, d, l) /\ Names(b, n, m, h, p, r, s, c, e, d, l)
  BY <1>1, Zenon DEF Num
<1>3. /\ e = ErrAt /\ l = Len(b) /\ s = StartAt /\ c = CwdAt
      /\ Shift(n) = p - n /\ Shift(m) = r - m
  BY <1>2, Zenon DEF Names
<1>4. t \in Nat /\ u \in Nat /\ n \in Nat /\ m \in Nat /\ u <= t /\ s + 5 <= c /\ c <= s + 6 /\ c + 2 <= e
  BY <1>2 DEF Bounds
<1>5. PICK f \in Int : f = p - n /\ f = Shift(n)
  BY <1>3, <1>4
<1>6. stderrAt = IF u < e - 1 THEN 0 ELSE e + f
  BY <1>3, <1>5, Zenon DEF Tracks
<1>7. s0 = IF t < c - 1 THEN 0 ELSE s + f
  <2>1. TrackStart(b) = IF t < CwdAt - 1 THEN 0 ELSE StartAt + Shift(n)
    BY StartTracked
  <2> QED
    BY <1>3, <1>5, <2>1, Zenon
<1> DEFINE third == NthSeparator(b, s0 + Len(StartMarker), Len(b), 3)
<1>8. TrackStderr(b, s0) =
        IF stderrAt # 0 \/ s0 = 0 \/ third = {} THEN stderrAt ELSE (CHOOSE x \in third : TRUE) + 1
  BY DEF TrackStderr
<1>9. Len(StartMarker) = 2
  BY DEF StartMarker
<1>10. e - 1 <= t <=> e - 1 + f <= l
  BY <1>2, <1>5 DEF Bounds
<1>11. CASE e - 1 <= u
  <2>1. PICK q \in Nat : q = e - 1
    BY <1>4
  <2>2. StartAt - 1 <= q /\ q < ErrAt /\ q <= t
    BY <1>3, <1>4, <1>11, <2>1
  <2>3. q + Shift(n) \in 1..Len(b)
    BY <2>2, HeaderStands
  <2>4. stderrAt = e + f /\ stderrAt # 0
    BY <1>3, <1>4, <1>5, <1>6, <1>11, <2>1, <2>3
  <2>5. ~(t < e - 1)
    BY <1>4, <1>11
  <2> QED
    BY <1>3, <1>5, <1>8, <2>4, <2>5, Zenon
<1>12. CASE ~(e - 1 <= u)
  <2>1. stderrAt = 0
    BY <1>4, <1>6, <1>12
  <2>2. CASE t < c - 1
    <3>1. s0 = 0 /\ t < e - 1
      BY <1>4, <1>7, <2>2
    <3> QED
      BY <1>3, <1>8, <2>1, <3>1, Zenon
  <2>3. CASE ~(t < c - 1)
    <3>1. s0 = s + f
      BY <1>7, <2>3
    <3>2. third = NthSeparator(b, s + f + 2, l, 3)
      BY <1>3, <1>9, <3>1, Zenon
    <3>3. ThreeMarks(b, s + f + 2, l, s + f + 2, c - 1 + f, e - 1 + f)
      <4>1. l \in Int /\ l <= Len(b)
        BY <1>3
      <4>2. ThreeMarks(b, StartAt + Shift(n) + 2, l, StartAt + Shift(n) + 2, CwdAt - 1 + Shift(n), ErrAt - 1 + Shift(n))
        BY <4>1, HeaderMarks
      <4> QED
        BY <1>3, <1>5, <4>2, Zenon
    <3>4. s0 # 0
      <4>1. s - 1 <= s /\ s < e /\ s <= t
        BY <1>4, <2>3
      <4>2. s + f \in 1..Len(b)
        BY <1>3, <1>5, <4>1, HeaderStands
      <4> QED
        BY <1>3, <3>1, <4>2
    <3> HIDE DEF third
    <3>5. CASE e - 1 <= t
      <4>1. third = {e - 1 + f}
        BY <1>10, <3>2, <3>3, <3>5, FirstThree
      <4>2. TrackStderr(b, s0) = e - 1 + f + 1
        BY <1>8, <2>1, <3>4, <4>1
      <4>3. e - 1 + f + 1 = e + f /\ ~(t < e - 1)
        BY <1>4, <3>5
      <4> QED
        BY <1>3, <1>5, <4>2, <4>3, Zenon
    <3>6. CASE ~(e - 1 <= t)
      <4>1. l < e - 1 + f /\ t < e - 1
        BY <1>4, <1>10, <3>6
      <4>2. third = {}
        BY <3>2, <3>3, <4>1, FirstThree
      <4> QED
        BY <1>3, <1>8, <2>1, <4>1, <4>2, Zenon
    <3> QED
      BY <3>5, <3>6
  <2> QED
    BY <2>2, <2>3
<1> QED
  BY <1>11, <1>12
-----------------------------------------------------------------------------
(* compact. *)

\* The larger of two numbers.
LEMMA MaxPair ==
  ASSUME NEW x \in Int, NEW y \in Int
  PROVE  Max({x, y}) \in {x, y} /\ x <= Max({x, y}) /\ y <= Max({x, y})
<1>1. \E z \in {x, y} : \A w \in {x, y} : z >= w
  OBVIOUS
<1>2. Max({x, y}) \in {x, y} /\ \A w \in {x, y} : Max({x, y}) >= w
  BY <1>1 DEF Max
<1> QED
  BY <1>2

\* The share k of stderr after t bytes, n bytes of stdout being elided.
ShareOf(k, n, t) ==
  k # NoKeep =>
    /\ ErrAt - 1 <= t /\ k >= Cap \div 4
    /\ StartAt - 1 + Shift(n) - 2 * Half <= SepLen(n)
    /\ k = Cap \div 4 \/ Before(n) + 2 * k <= Cap

\* What a compacted buffer may hold.
Limit == Cap + Cap \div 2 + 2 * SepLen(Len(stream)) + ErrAt - StartAt + 1

\* What a compaction leaves after t bytes.
Compact(c, t) ==
  /\ Mapped(c.buf, t, t, c.elided, c.errElided, c.errKeep)
  /\ c.start = IF t < CwdAt - 1 THEN 0 ELSE StartAt + Shift(c.elided)
  /\ c.stderrAt = IF t < ErrAt - 1 THEN 0 ELSE ErrAt + Shift(c.elided)
  /\ ShareOf(c.errKeep, c.elided, t)
  /\ Len(c.buf) <= Limit

\* The numbers of a buffer that was just compacted are within the bound.
LEMMA Limited ==
  ASSUME StreamInv, NEW b, NEW t, NEW n, NEW m, NEW k, Mapped(b, t, t, n, m, k)
  PROVE  /\ SepLen(n) \in Nat /\ SepLen(n) <= SepLen(Len(stream))
         /\ SepLen(m) \in Nat /\ SepLen(m) <= SepLen(Len(stream))
         /\ SepLen(Len(stream)) \in Nat
<1>1. PICK h, p, r, s, c, e, d, l \in Nat : Num(b, t, t, n, m, k, h, p, r, s, c, e, d, l)
  BY Numbers
<1>2. Bounds(t, t, n, m, k, h, p, r, s, c, e, d, l) /\ Len(stream) = d + 2
  BY <1>1, Zenon DEF Num, Names
<1>3. n \in Nat /\ m \in Nat /\ n <= d + 2 /\ m <= d + 2
  BY <1>2 DEF Bounds
<1>4. PICK x \in Nat : x = Len(stream) /\ n <= x /\ m <= x
  BY <1>2, <1>3
<1>5. SepLen(n) <= SepLen(x) /\ SepLen(m) <= SepLen(x)
  BY <1>3, <1>4, SepLenGrows
<1>6. SepLen(n) \in Nat /\ SepLen(m) \in Nat /\ SepLen(x) \in Nat
  BY <1>3, SepLenNat
<1> QED
  BY <1>4, <1>5, <1>6, Zenon

\* compact, before stderr is known: one zone, or stdout before the trailer.
LEMMA CompactedEarly ==
  ASSUME StreamInv, NEW b, NEW t, Mapped(b, t, t, elided, errElided, errKeep),
         ShareOf(errKeep, elided, t), t < ErrAt - 1,
         NEW s0, s0 = IF t < CwdAt - 1 THEN 0 ELSE StartAt + Shift(elided)
  PROVE  Compact(Compacted(b, s0, 0), t)
<1> DEFINE c0 == Compacted(b, s0, 0)
<1>1. PICK n \in Nat, m \in Nat, k \in Int : n = elided /\ m = errElided /\ k = errKeep
  BY DEF Mapped, NoKeep
<1>2. Mapped(b, t, t, n, m, k) /\ ShareOf(k, n, t)
  BY <1>1, Zenon
<1>3. PICK h, p, r, s, c, e, d, l \in Nat : Num(b, t, t, n, m, k, h, p, r, s, c, e, d, l)
  BY <1>2, Numbers
<1>4. Bounds(t, t, n, m, k, h, p, r, s, c, e, d, l) /\ Names(b, n, m, h, p, r, s, c, e, d, l)
  BY <1>3, Zenon DEF Num
<1>5. /\ e = ErrAt /\ l = Len(b) /\ s = StartAt /\ c = CwdAt /\ h = Half
      /\ Shift(n) = p - n /\ Shift(m) = r - m
  BY <1>4, Zenon DEF Names
<1>6. t < e - 1
  BY <1>5, Zenon
<1>7. m = 0 /\ t \in Nat
  BY <1>4, <1>6 DEF Bounds
<1>8. PICK last \in Nat :
        /\ last = IF t < c - 1 THEN t ELSE s - 1
        /\ last <= t /\ last <= s + 4
  BY <1>4 DEF Bounds
<1>9. OutZone(last, t, m)
  <2>1. (last = t /\ m = 0) \/ last = s - 1
    BY <1>7, <1>8
  <2> QED
    BY <1>5, <1>8, <2>1, Zenon DEF OutZone
<1>10. PICK f \in Int : f = Shift(n) /\ f = p - n
  BY <1>5
<1>11. s0 = IF t < c - 1 THEN 0 ELSE s + f
  BY <1>1, <1>5, <1>10, Zenon
<1>12. (IF s0 = 0 THEN Len(b) ELSE s0 - 1) = last + Shift(n)
  <2>1. CASE t < c - 1
    <3>1. l = t + f
      BY <1>4, <1>7, <1>10 DEF Bounds
    <3> QED
      BY <1>5, <1>8, <1>10, <1>11, <2>1, <3>1
  <2>2. CASE ~(t < c - 1)
    <3>1. s + f # 0
      BY <1>4, <1>10, <2>2 DEF Bounds
    <3>2. s + f - 1 = s - 1 + f
      OBVIOUS
    <3>3. s0 = s + f /\ last = s - 1
      BY <1>8, <1>11, <2>2, Zenon
    <3>4. (IF s0 = 0 THEN Len(b) ELSE s0 - 1) = s + f - 1
      <4>1. \A y : y # 0 => (IF y = 0 THEN Len(b) ELSE y - 1) = y - 1
        OBVIOUS
      <4>2. (IF s + f = 0 THEN Len(b) ELSE s + f - 1) = s + f - 1
        BY <3>1, <4>1, Zenon
      <4> QED
        BY <3>3, <4>2
    <3> QED
      BY <1>10, <3>2, <3>3, <3>4, Zenon
  <2> QED
    BY <2>1, <2>2
<1> DEFINE o == CompactRange(b, 0, last + Shift(n), Half, n)
<1>13. c0 = [buf |-> o.buf, elided |-> o.elided, start |-> IF s0 = 0 THEN 0 ELSE o.to + 1,
             stderrAt |-> 0, errElided |-> m, errKeep |-> k]
  <2>1. o = CompactRange(b, 0, IF s0 = 0 THEN Len(b) ELSE s0 - 1, Cap \div 2, elided)
    BY <1>1, <1>12, Zenon DEF Half
  <2> QED
    BY <1>1, <2>1, Zenon DEF Compacted
<1>14. OutKept(o, b, t, n, m, k, last)
  BY <1>2, <1>9, OutCompacted
<1> HIDE DEF o, c0
<1>15. /\ c0.buf = o.buf /\ c0.elided = o.elided /\ c0.start = (IF s0 = 0 THEN 0 ELSE o.to + 1)
       /\ c0.stderrAt = 0 /\ c0.errElided = m /\ c0.errKeep = k
  BY <1>13
<1>16. /\ Mapped(o.buf, t, t, o.elided, m, k)
       /\ o.to = last + Shift(o.elided)
       /\ o.to <= 2 * Half + SepLen(o.elided)
  BY <1>14, Zenon DEF OutKept
<1>17. PICK n1 \in Nat, p1 \in Nat, g \in Int : n1 = o.elided /\ p1 = SepLen(n1) /\ g = Shift(n1) /\ g = p1 - n1
  <2>1. o.elided \in Nat
    BY <1>16 DEF Mapped
  <2> QED
    BY <2>1, SepLenNat DEF Shift
<1>18. last + g <= 2 * h + p1
  BY <1>5, <1>16, <1>17, Zenon
<1>19. Mapped(c0.buf, t, t, c0.elided, c0.errElided, c0.errKeep)
  BY <1>15, <1>16, Zenon
<1>20. c0.start = IF t < CwdAt - 1 THEN 0 ELSE StartAt + Shift(c0.elided)
  <2>1. CASE t < c - 1
    BY <1>5, <1>11, <1>15, <2>1, Zenon
  <2>2. CASE ~(t < c - 1)
    <3>1. s + f # 0
      BY <1>4, <1>10, <2>2 DEF Bounds
    <3>2. s - 1 + g + 1 = s + g
      OBVIOUS
    <3>3. c0.start = o.to + 1
      BY <1>11, <1>15, <2>2, <3>1, Zenon
    <3>4. o.to = s - 1 + g
      BY <1>8, <1>16, <1>17, <2>2, Zenon
    <3> QED
      BY <1>5, <1>15, <1>17, <2>2, <3>2, <3>3, <3>4, Zenon
  <2> QED
    BY <2>1, <2>2
<1>21. c0.stderrAt = IF t < ErrAt - 1 THEN 0 ELSE ErrAt + Shift(c0.elided)
  BY <1>15, Zenon
<1>22. ShareOf(c0.errKeep, c0.elided, t)
  <2>1. k = NoKeep
    <3>1. ~(e - 1 <= t)
      BY <1>6, <1>7
    <3> QED
      BY <1>2, <1>5, <3>1, Zenon DEF ShareOf
  <2> QED
    BY <1>15, <2>1, Zenon DEF ShareOf
<1>23. Len(c0.buf) <= Limit
  <2>1. Len(o.buf) = t + g
    <3>1. Layout(o.buf, t, n1, m, k)
      BY <1>16, <1>17 DEF Mapped
    <3>2. Len(o.buf) = t + Shift(n1) + Shift(0)
      BY <1>7, <3>1, Zenon DEF Layout
    <3>3. Shift(n1) = g /\ Shift(0) = 0
      BY <1>17, SepLenZero
    <3>4. Len(o.buf) = t + g + 0
      BY <3>2, <3>3, Zenon
    <3>5. t + g + 0 = t + g
      BY <1>7
    <3> QED
      BY <3>4, <3>5, Zenon
  <2>2. PICK w \in Nat : w = SepLen(Len(stream)) /\ p1 <= w
    BY <1>16, <1>17, Limited
  <2>3. PICK cap \in Nat, half \in Nat : cap = Cap /\ half = Cap \div 2 /\ 2 * h <= cap
    BY <1>5, Room
  <2>4. t + g <= cap + half + 2 * w + e - s + 1
    <3>1. t - last <= e - s /\ s <= e
      BY <1>4, <1>6, <1>7, <1>8 DEF Bounds
    <3> QED
      BY <1>7, <1>18, <2>2, <2>3, <3>1
  <2> QED
    BY <1>5, <1>15, <2>1, <2>2, <2>3, <2>4, Zenon DEF Limit
<1> QED
  BY <1>19, <1>20, <1>21, <1>22, <1>23, Zenon DEF Compact, c0

\* compact, once stderr is known: its share is fixed the first time.
LEMMA CompactedLate ==
  ASSUME StreamInv, NEW b, NEW t, Mapped(b, t, t, elided, errElided, errKeep),
         ShareOf(errKeep, elided, t), ErrAt - 1 <= t
  PROVE  Compact(Compacted(b, StartAt + Shift(elided), ErrAt + Shift(elided)), t)
<1>a. PICK s0, e0 : s0 = StartAt + Shift(elided) /\ e0 = ErrAt + Shift(elided)
  OBVIOUS
<1> DEFINE c0 == Compacted(b, s0, e0)
<1>1. PICK n \in Nat, m \in Nat, k \in Int : n = elided /\ m = errElided /\ k = errKeep
  BY DEF Mapped, NoKeep
<1>2. Mapped(b, t, t, n, m, k) /\ ShareOf(k, n, t)
  BY <1>1, Zenon
<1>3. PICK h, p, r, s, c, e, d, l \in Nat : Num(b, t, t, n, m, k, h, p, r, s, c, e, d, l)
  BY <1>2, Numbers
<1>4. Bounds(t, t, n, m, k, h, p, r, s, c, e, d, l) /\ Names(b, n, m, h, p, r, s, c, e, d, l)
  BY <1>3, Zenon DEF Num
<1>5. /\ e = ErrAt /\ l = Len(b) /\ s = StartAt /\ c = CwdAt /\ h = Half
      /\ Shift(n) = p - n /\ Shift(m) = r - m /\ p = SepLen(n)
  BY <1>4, Zenon DEF Names
<1>6. e - 1 <= t
  BY <1>5, Zenon
<1>7. t \in Nat /\ s + 5 <= c /\ c + 2 <= e
  BY <1>4 DEF Bounds
<1>8. PICK f \in Int : f = Shift(n) /\ f = p - n
  BY <1>5
<1>9. s0 = s + f /\ e0 = e + f
  BY <1>a, <1>1, <1>5, <1>8, Zenon
<1>10. s + f # 0 /\ e + f # 0
  BY <1>4, <1>8 DEF Bounds
<1>11. PICK last \in Nat : last = s - 1 /\ last <= t /\ last <= s + 4
  BY <1>4, <1>6, <1>7 DEF Bounds
<1>12. OutZone(last, t, m)
  BY <1>5, <1>11, Zenon DEF OutZone
<1> DEFINE o == CompactRange(b, 0, last + Shift(n), Half, n)
<1>13. OutKept(o, b, t, n, m, k, last)
  BY <1>2, <1>12, OutCompacted
<1>14. o = CompactRange(b, 0, IF s0 = 0 THEN Len(b) ELSE s0 - 1, Cap \div 2, elided)
  <2>2. s0 # 0
    BY <1>9, <1>10, Zenon
  <2>3. (IF s0 = 0 THEN Len(b) ELSE s0 - 1) = s0 - 1
    BY <2>2, Zenon
  <2>4. s0 - 1 = last + Shift(n)
    <3>1. s0 - 1 = last + f
      BY <1>9, <1>11
    <3> QED
      BY <1>8, <3>1, Zenon
  <2> QED
    BY <1>1, <2>3, <2>4, Zenon DEF Half
<1> HIDE DEF o
<1>15. /\ Mapped(o.buf, t, t, o.elided, m, k)
       /\ o.to = last + Shift(o.elided)
       /\ o.to <= 2 * Half + SepLen(o.elided)
       /\ last + Shift(n) - 2 * Half <= SepLen(n) => o.elided = n
  BY <1>13, Zenon DEF OutKept
<1>16. PICK n1 \in Nat, p1 \in Nat, g \in Int : n1 = o.elided /\ p1 = SepLen(n1) /\ g = Shift(n1) /\ g = p1 - n1
  <2>1. o.elided \in Nat
    BY <1>15 DEF Mapped
  <2> QED
    BY <2>1, SepLenNat DEF Shift
<1>17. last + g <= 2 * h + p1 /\ o.to = last + g
  BY <1>5, <1>15, <1>16, Zenon
<1>18. PICK at \in Nat : at = e - 1 + g /\ at = e0 - s0 + o.to /\ at = Before(n1)
  <2>1. e - 1 + g \in Nat
    <3>1. PICK h1, p2, r1, s1, c1, e1, d1, l1 \in Nat : Num(o.buf, t, t, n1, m, k, h1, p2, r1, s1, c1, e1, d1, l1)
      BY <1>15, <1>16, Numbers
    <3>2. Bounds(t, t, n1, m, k, h1, p2, r1, s1, c1, e1, d1, l1) /\ Names(o.buf, n1, m, h1, p2, r1, s1, c1, e1, d1, l1)
      BY <3>1, Zenon DEF Num
    <3>3. e1 = e /\ p2 = p1
      BY <1>5, <1>16, <3>2, Zenon DEF Names
    <3>4. 0 <= e1 - 1 - n1 + p2
      BY <3>2 DEF Bounds
    <3>5. 0 <= e - 1 - n1 + p1
      BY <3>3, <3>4, Zenon
    <3> QED
      BY <1>16, <3>5
  <2>2. e - 1 + g = (e + f) - (s + f) + (last + g)
    BY <1>11
  <2>3. Before(n1) = e - 1 + g
    BY <1>5, <1>16, Zenon DEF Before
  <2> QED
    BY <1>9, <1>17, <2>1, <2>2, <2>3, Zenon
<1> DEFINE room == IF Cap > at THEN (Cap - at) \div 2 ELSE 0
           keep == IF k # NoKeep THEN k ELSE Max({room, Cap \div 4})
           x == CompactRange(o.buf, Before(n1), Len(o.buf), keep, m)
<1>19. c0 = [buf |-> x.buf, elided |-> n1, start |-> o.to + 1,
             stderrAt |-> at + 1, errElided |-> x.elided, errKeep |-> keep]
  <2>1. e0 # 0
    BY <1>9, <1>10, Zenon
  <2> DEFINE at2 == e0 - s0 + o.to
             room2 == IF Cap > at2 THEN (Cap - at2) \div 2 ELSE 0
             keep2 == IF errKeep # NoKeep THEN errKeep ELSE Max({room2, Cap \div 4})
             x2 == CompactRange(o.buf, at2, Len(o.buf), keep2, errElided)
  <2>2. c0 = [buf |-> x2.buf, elided |-> o.elided, start |-> o.to + 1,
              stderrAt |-> at2 + 1, errElided |-> x2.elided, errKeep |-> keep2]
    <3> QED
      BY <1>14, <2>1, Zenon DEF Compacted
  <2>3. at2 = at
    BY <1>18, Zenon
  <2>4. keep2 = keep
    BY <1>1, <2>3, Zenon
  <2>5. x2 = x
    BY <1>1, <1>18, <2>3, <2>4, Zenon
  <2> HIDE DEF x, x2, keep, keep2, at2, c0
  <2> QED
    BY <1>16, <2>2, <2>3, <2>4, <2>5, Zenon
<1>20. PICK cap \in Nat, half \in Nat, q \in Nat :
         /\ cap = Cap /\ half = Cap \div 2 /\ q = Cap \div 4
         /\ 2 * h <= cap /\ 1 <= q /\ 2 * q <= half
  BY <1>5, Room
<1>21. keep \in Nat /\ q <= keep /\ (keep = q \/ at + 2 * keep <= cap)
  <2>1. CASE k # NoKeep
    <3>1. keep = k
      BY <2>1
    <3>2. k >= q /\ last + Shift(n) - 2 * Half <= SepLen(n) /\ (k = q \/ Before(n) + 2 * k <= cap)
      BY <1>2, <1>5, <1>11, <1>20, <2>1, Zenon DEF ShareOf
    <3>3. n1 = n
      BY <1>15, <1>16, <3>2, Zenon
    <3>4. k = q \/ at + 2 * k <= cap
      BY <1>18, <3>2, <3>3, Zenon
    <3> HIDE DEF keep
    <3> QED
      BY <3>1, <3>2, <3>4
  <2>2. CASE k = NoKeep
    <3>1. PICK y \in Int : y = room /\ (y = 0 \/ at + 2 * y <= cap)
      <4>1. PICK z \in Int : z = IF cap > at THEN (cap - at) \div 2 ELSE 0
        OBVIOUS
      <4>2. z = room
        BY <1>20, <4>1, Zenon
      <4>3. z = 0 \/ at + 2 * z <= cap
        BY <4>1
      <4> QED
        BY <4>2, <4>3
    <3>2. keep = Max({y, q})
      BY <1>20, <2>2, <3>1, Zenon
    <3>3. Max({y, q}) \in {y, q} /\ q <= Max({y, q})
      BY MaxPair
    <3> HIDE DEF keep
    <3> QED
      BY <1>20, <3>1, <3>2, <3>3
  <2> QED
    BY <2>1, <2>2
<1>22. m > 0 => keep = k
  <2>1. m > 0 => k # NoKeep
    BY <1>4 DEF Bounds, NoKeep
  <2> QED
    BY <2>1, Zenon
<1> HIDE DEF room, keep
<1>23. Mapped(o.buf, t, t, n1, m, keep)
  <2>1. Mapped(o.buf, t, t, n1, m, k)
    BY <1>15, <1>16, Zenon
  <2>2. CASE m = 0
    BY <1>21, <2>1, <2>2, AnyShare
  <2>3. CASE m > 0
    BY <1>22, <2>1, <2>3, Zenon
  <2> QED
    BY <2>2, <2>3
<1>24. ErrKept(x, t, n1, keep)
  BY <1>20, <1>21, <1>23, ErrCompacted
<1> HIDE DEF x, c0
<1>25. /\ Mapped(x.buf, t, t, n1, x.elided, keep)
       /\ Len(x.buf) <= at + 2 * keep + SepLen(x.elided)
  BY <1>18, <1>24, Zenon DEF ErrKept
<1>26. /\ c0.buf = x.buf /\ c0.elided = n1 /\ c0.start = o.to + 1
       /\ c0.stderrAt = at + 1 /\ c0.errElided = x.elided /\ c0.errKeep = keep
  BY <1>19
<1>27. Mapped(c0.buf, t, t, c0.elided, c0.errElided, c0.errKeep)
  BY <1>25, <1>26, Zenon
<1>28. /\ c0.start = IF t < CwdAt - 1 THEN 0 ELSE StartAt + Shift(c0.elided)
       /\ c0.stderrAt = IF t < ErrAt - 1 THEN 0 ELSE ErrAt + Shift(c0.elided)
  <2>1. last + g + 1 = s + g /\ at + 1 = e + g /\ ~(t < c - 1) /\ ~(t < e - 1)
    BY <1>6, <1>7, <1>11, <1>18
  <2> QED
    BY <1>5, <1>16, <1>17, <1>26, <2>1, Zenon
<1>29. ShareOf(c0.errKeep, c0.elided, t)
  <2>1. last + g - 2 * h <= p1
    BY <1>11, <1>17
  <2> QED
    BY <1>5, <1>6, <1>11, <1>16, <1>18, <1>20, <1>21, <1>26, <2>1, Zenon DEF ShareOf
<1>30. Len(c0.buf) <= Limit
  <2>1. PICK w \in Nat, v \in Nat : w = SepLen(Len(stream)) /\ v = SepLen(x.elided) /\ p1 <= w /\ v <= w
    BY <1>16, <1>25, Limited
  <2>2. PICK z \in Nat : z = Len(x.buf)
    BY <1>25 DEF Mapped, Buffer
  <2>3. z <= at + 2 * keep + v
    BY <1>25, <2>1, <2>2, Zenon
  <2>4. at <= 2 * h + p1 + e - s
    BY <1>11, <1>17, <1>18
  <2>a. PICK y \in Nat : y = keep
    BY <1>21, Zenon
  <2>b. z <= at + 2 * y + v /\ q <= y /\ (y = q \/ at + 2 * y <= cap)
    BY <1>21, <2>3, <2>a, Zenon
  <2>5. z <= cap + half + 2 * w + e - s + 1
    <3>1. 2 * h <= cap /\ 2 * q <= half /\ p1 <= w /\ v <= w /\ s <= e
      BY <1>7, <1>20, <2>1
    <3>2. CASE y = q
      BY <2>4, <2>b, <3>1, <3>2
    <3>3. CASE at + 2 * y <= cap
      BY <2>b, <3>1, <3>3
    <3> QED
      BY <2>b, <3>2, <3>3
  <2> QED
    BY <1>5, <1>20, <1>26, <2>1, <2>2, <2>5, Zenon DEF Limit
<1> QED
  BY <1>a, <1>27, <1>28, <1>29, <1>30, Zenon DEF Compact, c0
-----------------------------------------------------------------------------
(* The stream of a command. *)

\* A part of n bytes, and one that z starts with.
Part(a, n) == a \in Seq(Kinds) /\ n \in Nat /\ Len(a) = n
Starts(a, n, z) == Part(a, n) /\ n <= Len(z) /\ \A i \in 1..n : z[i] = a[i]

\* Two parts one behind the other.
LEMMA Glued ==
  ASSUME NEW a, NEW n, Part(a, n), NEW b, NEW m, Part(b, m), NEW y, y = a \o b, NEW l, l = n + m
  PROVE  Part(y, l)
<1>1. a \in Seq(Kinds) /\ b \in Seq(Kinds) /\ n \in Nat /\ m \in Nat /\ n = Len(a) /\ m = Len(b)
  BY DEF Part
<1>2. a \o b \in Seq(Kinds) /\ Len(a \o b) = n + m
  BY <1>1
<1>3. n + m \in Nat
  BY <1>1
<1> QED
  BY <1>2, <1>3, Zenon DEF Part

\* The l bytes of y, which z starts with, are the n of a and the m of b.
Joins(y, l, a, n, b, m, z) ==
  /\ Part(a, n) /\ Part(b, m) /\ y = a \o b /\ l = n + m
  /\ z \in Seq(Kinds) /\ Starts(y, l, z)

\* After n bytes z goes on with b, up to l bytes.
Follows(b, n, l, z) == \A p \in (n + 1)..l : z[p] = b[p - n]

\* A stream that starts with two parts starts with the first, and the second follows.
LEMMA Joined ==
  ASSUME NEW a, NEW n, NEW b, NEW m, NEW y, NEW l, NEW z, Joins(y, l, a, n, b, m, z)
  PROVE  Starts(a, n, z) /\ Follows(b, n, l, z)
<1>0. Part(a, n) /\ Part(b, m) /\ y = a \o b /\ l = n + m /\ z \in Seq(Kinds) /\ Starts(y, l, z)
  BY DEF Joins
<1>1. a \in Seq(Kinds) /\ b \in Seq(Kinds) /\ n \in Nat /\ m \in Nat /\ n = Len(a) /\ m = Len(b)
  BY <1>0 DEF Part
<1>2. \A i \in 1..(n + m) : (a \o b)[i] = IF i <= n THEN a[i] ELSE b[i - n]
  BY <1>1
<1>3. \A i \in 1..l : z[i] = IF i <= n THEN a[i] ELSE b[i - n]
  BY <1>0, <1>2 DEF Starts
<1>4. n <= l /\ l <= Len(z) /\ Len(z) \in Nat /\ l \in Nat
  BY <1>0, <1>1 DEF Starts
<1>5. n <= Len(z) /\ \A i \in 1..n : z[i] = a[i]
  BY <1>1, <1>3, <1>4
<1>6. ASSUME NEW p \in (n + 1)..l PROVE z[p] = b[p - n]
  BY <1>1, <1>3, <1>4, <1>6
<1> QED
  BY <1>0, <1>5, <1>6 DEF Starts, Follows

\* A part starts itself.
LEMMA StartsItself ==
  ASSUME NEW a, NEW n, Part(a, n)
  PROVE  Starts(a, n, a) /\ a \in Seq(Kinds)
BY DEF Part, Starts

\* A part that repeats one byte.
LEMMA Repeated ==
  ASSUME NEW n \in Nat, NEW kind \in Kinds
  PROVE  /\ Copies(n, kind) \in Seq(Kinds) /\ Len(Copies(n, kind)) = n
         /\ \A i \in 1..n : Copies(n, kind)[i] = kind
BY DEF Copies

\* The stream is the output between an echo and the trailer.
LEMMA StreamStands == Init => StreamInv
<1> SUFFICES ASSUME Init PROVE StreamInv
  OBVIOUS
<1>0. /\ {"x", "us", "digit", "nl"} \subseteq Kinds
      /\ StartMarker \in Seq(Kinds) /\ Len(StartMarker) = 2
      /\ StartMarker[1] = "start" /\ StartMarker[2] = "start2"
      /\ EndMarker \in Seq(Kinds) /\ Len(EndMarker) = 2
      /\ EndMarker[1] = "end" /\ EndMarker[2] = "end2"
  BY DEF Kinds, StartMarker, EndMarker
<1>1. /\ Echo \in Seq(Kinds) /\ Len(Echo) = 5
      /\ Echo[1] = "start" /\ Echo[2] = "start2" /\ Echo[3] = "x"
      /\ Echo[4] = "end" /\ Echo[5] = "end2"
  <2> DEFINE w == StartMarker \o <<"x">>
  <2>1. <<"x">> \in Seq(Kinds) /\ Len(<<"x">>) = 1 /\ <<"x">>[1] = "x"
    BY <1>0
  <2>2. Part(StartMarker, 2) /\ Part(EndMarker, 2) /\ Part(<<"x">>, 1)
    BY <1>0, <2>1 DEF Part
  <2>3. Echo = w \o EndMarker /\ 3 = 2 + 1 /\ 5 = 3 + 2
    BY DEF Echo
  <2>4. w = StartMarker \o <<"x">>
    OBVIOUS
  <2> HIDE DEF w
  <2>5. Part(w, 3)
    BY <2>2, <2>3, <2>4, Glued, Zenon
  <2>6. Part(Echo, 5)
    BY <2>2, <2>3, <2>5, Glued, Zenon
  <2>7. Joins(w, 3, StartMarker, 2, <<"x">>, 1, w)
    BY <2>2, <2>3, <2>4, <2>5, StartsItself, Zenon DEF Joins
  <2>8. Starts(StartMarker, 2, w) /\ Follows(<<"x">>, 2, 3, w)
    BY <2>7, Joined, Zenon
  <2>9. Joins(Echo, 5, w, 3, EndMarker, 2, Echo)
    BY <2>2, <2>3, <2>5, <2>6, StartsItself, Zenon DEF Joins
  <2>10. Starts(w, 3, Echo) /\ Follows(EndMarker, 3, 5, Echo)
    BY <2>9, Joined, Zenon
  <2>11. Echo[1] = "start" /\ Echo[2] = "start2" /\ Echo[3] = "x"
    BY <1>0, <2>1, <2>8, <2>10 DEF Starts, Follows
  <2>12. Echo[4] = "end" /\ Echo[5] = "end2"
    BY <1>0, <2>10 DEF Follows
  <2> QED
    BY <2>6, <2>11, <2>12 DEF Part
<1>2. PICK echo \in {<<>>, Echo}, out \in OutSizes, err \in ErrSizes,
           rc \in 1..MaxDigits, cwd \in 1..2, fill \in {"x", "us"} :
        /\ stream = Output(echo, out, rc, cwd, err, fill)
        /\ sizes = [echo |-> Len(echo), out |-> Len(echo) + out, rc |-> rc, cwd |-> cwd, err |-> err]
  BY DEF Init
<1>3. echo \in Seq(Kinds) /\ Len(echo) \in {0, 5} /\ fill \in Kinds
  <2>1. CASE echo = <<>>
    BY <1>0, <2>1
  <2>2. CASE echo = Echo
    BY <1>0, <1>1, <2>2
  <2> QED
    BY <2>1, <2>2
<1>4. out \in Nat /\ err \in Nat /\ rc \in 1..2 /\ rc \in Nat /\ cwd \in Nat
  BY CapAssumption DEF MaxDigits
<1>5. \A kind \in Kinds : <<kind>> \in Seq(Kinds) /\ Len(<<kind>>) = 1 /\ <<kind>>[1] = kind
  OBVIOUS
<1> DEFINE
     a1 == echo \o Copies(out, fill)
     a2 == a1 \o <<"nl">>
     a3 == a2 \o StartMarker
     a4 == a3 \o <<"us">>
     a5 == a4 \o Copies(rc, "digit")
     a6 == a5 \o <<"us">>
     a7 == a6 \o Copies(cwd, "x")
     a8 == a7 \o <<"us">>
     a9 == a8 \o Copies(err, fill)
     a10 == a9 \o EndMarker
     a11 == a10 \o <<"nl">>
<1>6. stream = a11
  BY <1>2 DEF Output
<1>7. PICK l \in {0, 5} : l = Len(echo)
  BY <1>3
<1>8. PICK s \in Nat, c \in Nat, e \in Nat, d \in Nat :
        s = l + out + 2 /\ c = s + 4 + rc /\ e = c + cwd + 1 /\ d = e + err
  <2>1. PICK s \in Nat : s = l + out + 2
    BY <1>4
  <2>2. PICK c \in Nat : c = s + 4 + rc
    BY <1>4
  <2>3. PICK e \in Nat : e = c + cwd + 1
    BY <1>4
  <2>4. e + err \in Nat
    BY <1>4
  <2> QED
    BY <2>1, <2>2, <2>3, <2>4
<1>9. /\ Part(Copies(out, fill), out) /\ Part(Copies(rc, "digit"), rc)
      /\ Part(Copies(cwd, "x"), cwd) /\ Part(Copies(err, fill), err)
  BY <1>0, <1>3, <1>4, Repeated DEF Part
<1>10. /\ Part(<<"nl">>, 1) /\ Part(<<"us">>, 1) /\ Part(StartMarker, 2) /\ Part(EndMarker, 2)
       /\ Part(echo, l)
  BY <1>0, <1>3, <1>5, <1>7 DEF Part
<1>a. /\ a1 = echo \o Copies(out, fill)
      /\ a2 = a1 \o <<"nl">>
      /\ a3 = a2 \o StartMarker
      /\ a4 = a3 \o <<"us">>
      /\ a5 = a4 \o Copies(rc, "digit")
      /\ a6 = a5 \o <<"us">>
      /\ a7 = a6 \o Copies(cwd, "x")
      /\ a8 = a7 \o <<"us">>
      /\ a9 = a8 \o Copies(err, fill)
      /\ a10 = a9 \o EndMarker
      /\ a11 = a10 \o <<"nl">>
  OBVIOUS
<1> HIDE DEF a1, a2, a3, a4, a5, a6, a7, a8, a9, a10, a11
<1>b. /\ s - 2 = l + out
      /\ s - 1 = s - 2 + 1
      /\ s + 1 = s - 1 + 2
      /\ s + 2 = s + 1 + 1
      /\ c - 2 = s + 2 + rc
      /\ c - 1 = c - 2 + 1
      /\ e - 2 = c - 1 + cwd
      /\ e - 1 = e - 2 + 1
      /\ d - 1 = e - 1 + err
      /\ d + 1 = d - 1 + 2
      /\ d + 2 = d + 1 + 1
  BY <1>4, <1>8
<1>11. /\ Part(a1, s - 2)
       /\ Part(a2, s - 1)
       /\ Part(a3, s + 1)
       /\ Part(a4, s + 2)
       /\ Part(a5, c - 2)
       /\ Part(a6, c - 1)
       /\ Part(a7, e - 2)
       /\ Part(a8, e - 1)
       /\ Part(a9, d - 1)
       /\ Part(a10, d + 1)
       /\ Part(a11, d + 2)
  <2>1. Part(a1, s - 2)
    BY <1>9, <1>10, <1>a, <1>b, Glued, Zenon
  <2>2. Part(a2, s - 1)
    BY <1>9, <1>10, <1>a, <1>b, <2>1, Glued, Zenon
  <2>3. Part(a3, s + 1)
    BY <1>9, <1>10, <1>a, <1>b, <2>2, Glued, Zenon
  <2>4. Part(a4, s + 2)
    BY <1>9, <1>10, <1>a, <1>b, <2>3, Glued, Zenon
  <2>5. Part(a5, c - 2)
    BY <1>9, <1>10, <1>a, <1>b, <2>4, Glued, Zenon
  <2>6. Part(a6, c - 1)
    BY <1>9, <1>10, <1>a, <1>b, <2>5, Glued, Zenon
  <2>7. Part(a7, e - 2)
    BY <1>9, <1>10, <1>a, <1>b, <2>6, Glued, Zenon
  <2>8. Part(a8, e - 1)
    BY <1>9, <1>10, <1>a, <1>b, <2>7, Glued, Zenon
  <2>9. Part(a9, d - 1)
    BY <1>9, <1>10, <1>a, <1>b, <2>8, Glued, Zenon
  <2>10. Part(a10, d + 1)
    BY <1>9, <1>10, <1>a, <1>b, <2>9, Glued, Zenon
  <2>11. Part(a11, d + 2)
    BY <1>9, <1>10, <1>a, <1>b, <2>10, Glued, Zenon
  <2> QED
    BY <2>1, <2>2, <2>3, <2>4, <2>5, <2>6, <2>7, <2>8, <2>9, <2>10, <2>11, Zenon
<1>12. stream \in Seq(Kinds) /\ Len(stream) = d + 2 /\ Starts(a11, d + 2, stream)
  BY <1>6, <1>11 DEF Starts, Part
<1>13. Starts(a10, d + 1, stream) /\ Follows(<<"nl">>, d + 1, d + 2, stream)
  <2>1. Joins(a11, d + 2, a10, d + 1, <<"nl">>, 1, stream)
    BY <1>9, <1>10, <1>11, <1>12, <1>a, <1>b, <1>12, Zenon DEF Joins
  <2> QED
    BY <2>1, Joined, Zenon
<1>14. Starts(a9, d - 1, stream) /\ Follows(EndMarker, d - 1, d + 1, stream)
  <2>1. Joins(a10, d + 1, a9, d - 1, EndMarker, 2, stream)
    BY <1>9, <1>10, <1>11, <1>12, <1>a, <1>b, <1>13, Zenon DEF Joins
  <2> QED
    BY <2>1, Joined, Zenon
<1>15. Starts(a8, e - 1, stream) /\ Follows(Copies(err, fill), e - 1, d - 1, stream)
  <2>1. Joins(a9, d - 1, a8, e - 1, Copies(err, fill), err, stream)
    BY <1>9, <1>10, <1>11, <1>12, <1>a, <1>b, <1>14, Zenon DEF Joins
  <2> QED
    BY <2>1, Joined, Zenon
<1>16. Starts(a7, e - 2, stream) /\ Follows(<<"us">>, e - 2, e - 1, stream)
  <2>1. Joins(a8, e - 1, a7, e - 2, <<"us">>, 1, stream)
    BY <1>9, <1>10, <1>11, <1>12, <1>a, <1>b, <1>15, Zenon DEF Joins
  <2> QED
    BY <2>1, Joined, Zenon
<1>17. Starts(a6, c - 1, stream) /\ Follows(Copies(cwd, "x"), c - 1, e - 2, stream)
  <2>1. Joins(a7, e - 2, a6, c - 1, Copies(cwd, "x"), cwd, stream)
    BY <1>9, <1>10, <1>11, <1>12, <1>a, <1>b, <1>16, Zenon DEF Joins
  <2> QED
    BY <2>1, Joined, Zenon
<1>18. Starts(a5, c - 2, stream) /\ Follows(<<"us">>, c - 2, c - 1, stream)
  <2>1. Joins(a6, c - 1, a5, c - 2, <<"us">>, 1, stream)
    BY <1>9, <1>10, <1>11, <1>12, <1>a, <1>b, <1>17, Zenon DEF Joins
  <2> QED
    BY <2>1, Joined, Zenon
<1>19. Starts(a4, s + 2, stream) /\ Follows(Copies(rc, "digit"), s + 2, c - 2, stream)
  <2>1. Joins(a5, c - 2, a4, s + 2, Copies(rc, "digit"), rc, stream)
    BY <1>9, <1>10, <1>11, <1>12, <1>a, <1>b, <1>18, Zenon DEF Joins
  <2> QED
    BY <2>1, Joined, Zenon
<1>20. Starts(a3, s + 1, stream) /\ Follows(<<"us">>, s + 1, s + 2, stream)
  <2>1. Joins(a4, s + 2, a3, s + 1, <<"us">>, 1, stream)
    BY <1>9, <1>10, <1>11, <1>12, <1>a, <1>b, <1>19, Zenon DEF Joins
  <2> QED
    BY <2>1, Joined, Zenon
<1>21. Starts(a2, s - 1, stream) /\ Follows(StartMarker, s - 1, s + 1, stream)
  <2>1. Joins(a3, s + 1, a2, s - 1, StartMarker, 2, stream)
    BY <1>9, <1>10, <1>11, <1>12, <1>a, <1>b, <1>20, Zenon DEF Joins
  <2> QED
    BY <2>1, Joined, Zenon
<1>22. Starts(a1, s - 2, stream) /\ Follows(<<"nl">>, s - 2, s - 1, stream)
  <2>1. Joins(a2, s - 1, a1, s - 2, <<"nl">>, 1, stream)
    BY <1>9, <1>10, <1>11, <1>12, <1>a, <1>b, <1>21, Zenon DEF Joins
  <2> QED
    BY <2>1, Joined, Zenon
<1>23. Starts(echo, l, stream) /\ Follows(Copies(out, fill), l, s - 2, stream)
  <2>1. Joins(a1, s - 2, echo, l, Copies(out, fill), out, stream)
    BY <1>9, <1>10, <1>11, <1>12, <1>a, <1>b, <1>22, Zenon DEF Joins
  <2> QED
    BY <2>1, Joined, Zenon
<1>24. /\ stream[s - 1] = "nl" /\ stream[s] = "start" /\ stream[s + 1] = "start2"
       /\ stream[s + 2] = "us" /\ stream[c - 1] = "us" /\ stream[e - 1] = "us"
       /\ stream[d] = "end" /\ stream[d + 1] = "end2" /\ stream[d + 2] = "nl"
  <2>1. stream[s - 1] = "nl"
    <3>1. s - 1 \in (s - 2 + 1)..(s - 1) /\ s - 1 - (s - 2) = 1
      BY <1>4, <1>8
    <3> QED
      BY <1>0, <1>5, <1>22, <3>1 DEF Follows
  <2>2. stream[s] = "start"
    <3>1. s \in (s - 1 + 1)..(s + 1) /\ s - (s - 1) = 1
      BY <1>4, <1>8
    <3> QED
      BY <1>0, <1>5, <1>21, <3>1 DEF Follows
  <2>3. stream[s + 1] = "start2"
    <3>1. s + 1 \in (s - 1 + 1)..(s + 1) /\ s + 1 - (s - 1) = 2
      BY <1>4, <1>8
    <3> QED
      BY <1>0, <1>5, <1>21, <3>1 DEF Follows
  <2>4. stream[s + 2] = "us"
    <3>1. s + 2 \in (s + 1 + 1)..(s + 2) /\ s + 2 - (s + 1) = 1
      BY <1>4, <1>8
    <3> QED
      BY <1>0, <1>5, <1>20, <3>1 DEF Follows
  <2>5. stream[c - 1] = "us"
    <3>1. c - 1 \in (c - 2 + 1)..(c - 1) /\ c - 1 - (c - 2) = 1
      BY <1>4, <1>8
    <3> QED
      BY <1>0, <1>5, <1>18, <3>1 DEF Follows
  <2>6. stream[e - 1] = "us"
    <3>1. e - 1 \in (e - 2 + 1)..(e - 1) /\ e - 1 - (e - 2) = 1
      OBVIOUS
    <3> QED
      BY <1>0, <1>5, <1>16, <3>1 DEF Follows
  <2>7. stream[d] = "end"
    <3>1. d \in (d - 1 + 1)..(d + 1) /\ d - (d - 1) = 1
      BY <1>4, <1>8
    <3> QED
      BY <1>0, <1>5, <1>14, <3>1 DEF Follows
  <2>8. stream[d + 1] = "end2"
    <3>1. d + 1 \in (d - 1 + 1)..(d + 1) /\ d + 1 - (d - 1) = 2
      BY <1>4, <1>8
    <3> QED
      BY <1>0, <1>5, <1>14, <3>1 DEF Follows
  <2>9. stream[d + 2] = "nl"
    <3>1. d + 2 \in (d + 1 + 1)..(d + 2) /\ d + 2 - (d + 1) = 1
      BY <1>4, <1>8
    <3> QED
      BY <1>0, <1>5, <1>13, <3>1 DEF Follows
  <2> QED
    BY <2>1, <2>2, <2>3, <2>4, <2>5, <2>6, <2>7, <2>8, <2>9, Zenon
<1>25. /\ \A p \in (l + 1)..(s - 2) : stream[p] = fill
       /\ \A p \in (s + 3)..(c - 2) : stream[p] = "digit"
       /\ \A p \in c..(e - 2) : stream[p] = "x"
       /\ \A p \in e..(d - 1) : stream[p] = fill
  <2>1. ASSUME NEW p \in (l + 1)..(s - 2) PROVE stream[p] = fill
    <3>1. p \in (l + 1)..(s - 2) /\ p - (l) \in 1..out
      BY <1>4, <1>8
    <3>2. stream[p] = Copies(out, fill)[p - (l)]
      BY <1>23, <3>1 DEF Follows
    <3> QED
      BY <1>0, <1>3, <1>4, <3>1, <3>2, Repeated
  <2>2. ASSUME NEW p \in (s + 3)..(c - 2) PROVE stream[p] = "digit"
    <3>1. p \in (s + 2 + 1)..(c - 2) /\ p - (s + 2) \in 1..rc
      BY <1>4, <1>8
    <3>2. stream[p] = Copies(rc, "digit")[p - (s + 2)]
      BY <1>19, <3>1 DEF Follows
    <3> QED
      BY <1>0, <1>3, <1>4, <3>1, <3>2, Repeated
  <2>3. ASSUME NEW p \in c..(e - 2) PROVE stream[p] = "x"
    <3>1. p \in (c - 1 + 1)..(e - 2) /\ p - (c - 1) \in 1..cwd
      BY <1>4, <1>8
    <3>2. stream[p] = Copies(cwd, "x")[p - (c - 1)]
      BY <1>17, <3>1 DEF Follows
    <3> QED
      BY <1>0, <1>3, <1>4, <3>1, <3>2, Repeated
  <2>4. ASSUME NEW p \in e..(d - 1) PROVE stream[p] = fill
    <3>1. p \in (e - 1 + 1)..(d - 1) /\ p - (e - 1) \in 1..err
      BY <1>4, <1>8
    <3>2. stream[p] = Copies(err, fill)[p - (e - 1)]
      BY <1>15, <3>1 DEF Follows
    <3> QED
      BY <1>0, <1>3, <1>4, <3>1, <3>2, Repeated
  <2> QED
    BY <2>1, <2>2, <2>3, <2>4
<1>26. l # 0 => /\ l = 5 /\ stream[1] = "start" /\ stream[2] = "start2" /\ stream[3] = "x"
                /\ stream[4] = "end" /\ stream[5] = "end2"
  <2> SUFFICES ASSUME l # 0
               PROVE  /\ l = 5 /\ stream[1] = "start" /\ stream[2] = "start2" /\ stream[3] = "x"
                      /\ stream[4] = "end" /\ stream[5] = "end2"
    OBVIOUS
  <2>1. l = 5 /\ echo = Echo
    BY <1>7
  <2>2. \A i \in 1..5 : stream[i] = Echo[i]
    BY <1>1, <1>23, <2>1 DEF Starts
  <2> QED
    BY <1>1, <2>1, <2>2
<1>27. sizes.echo = l /\ sizes.out = l + out /\ sizes.rc = rc /\ sizes.cwd = cwd /\ sizes.err = err
  BY <1>2, <1>7
<1>28. s = StartAt /\ c = CwdAt /\ e = ErrAt /\ d = EndAt
  <2>1. s = StartAt
    BY <1>8, <1>27 DEF StartAt
  <2>2. c = CwdAt
    <3>1. CwdAt = s + 2 + rc + 2
      BY <1>0, <1>27, <2>1 DEF CwdAt
    <3> QED
      BY <1>4, <1>8, <3>1
  <2>3. e = ErrAt
    BY <1>8, <1>27, <2>2 DEF ErrAt
  <2> QED
    BY <1>8, <1>27, <2>1, <2>2, <2>3 DEF EndAt
<1>29. ASSUME NEW p \in 1..(d + 2)
       PROVE  /\ stream[p] = "start" => p = s \/ (l # 0 /\ p = 1)
              /\ stream[p] = "end" => p = d \/ (l # 0 /\ p = 4)
              /\ p \in (s + 2)..(e - 1) =>
                   stream[p] = IF p \in {s + 2, c - 1, e - 1} THEN "us"
                               ELSE IF p < c THEN "digit" ELSE "x"
  <2>1. p \in Nat /\ s + 5 <= c /\ c + 2 <= e /\ e <= d
    BY <1>4, <1>8
  <2>2. fill # "start" /\ fill # "end"
    OBVIOUS
  <2>3. p \in 1..l \/ p \in (l + 1)..(s - 2) \/ p \in {s - 1, s, s + 1} \/ p \in (s + 2)..(e - 1)
          \/ p \in e..(d - 1) \/ p \in {d, d + 1, d + 2}
    BY <2>1
  <2>4. CASE p \in 1..l
    <3>1. l = 5 /\ p \in {1, 2, 3, 4, 5} /\ p < s
      BY <1>4, <1>8, <2>4
    <3>2. (stream[p] = "start" => p = 1) /\ (stream[p] = "end" => p = 4)
      BY <1>26, <3>1
    <3> QED
      BY <3>1, <3>2
  <2>5. CASE p \in (l + 1)..(s - 2)
    <3>1. stream[p] = fill /\ ~(p \in (s + 2)..(e - 1))
      BY <1>25, <2>5
    <3> QED
      BY <2>2, <3>1
  <2>6. CASE p \in {s - 1, s, s + 1}
    BY <1>24, <2>6
  <2>7. CASE p \in (s + 2)..(e - 1)
    <3>1. p = s + 2 \/ p \in (s + 3)..(c - 2) \/ p = c - 1 \/ p \in c..(e - 2) \/ p = e - 1
      BY <2>1, <2>7
    <3>2. CASE p = s + 2
      BY <1>24, <3>2
    <3>3. CASE p \in (s + 3)..(c - 2)
      <4>1. stream[p] = "digit" /\ p < c /\ p # s + 2 /\ p # c - 1 /\ p # e - 1
        BY <1>25, <2>1, <3>3
      <4> QED
        BY <4>1
    <3>4. CASE p = c - 1
      BY <1>24, <3>4
    <3>5. CASE p \in c..(e - 2)
      <4>1. stream[p] = "x" /\ ~(p < c) /\ p # s + 2 /\ p # c - 1 /\ p # e - 1
        BY <1>25, <2>1, <3>5
      <4> QED
        BY <4>1
    <3>6. CASE p = e - 1
      BY <1>24, <3>6
    <3> QED
      BY <3>1, <3>2, <3>3, <3>4, <3>5, <3>6
  <2>8. CASE p \in e..(d - 1)
    <3>1. stream[p] = fill /\ ~(p \in (s + 2)..(e - 1))
      BY <1>25, <2>8
    <3> QED
      BY <2>2, <3>1
  <2>9. CASE p \in {d, d + 1, d + 2}
    <3>1. ~(p \in (s + 2)..(e - 1))
      BY <2>1, <2>9
    <3> QED
      BY <1>24, <2>9, <3>1
  <2> QED
    BY <2>3, <2>4, <2>5, <2>6, <2>7, <2>8, <2>9
<1>30. /\ sizes.echo \in {0, Len(Echo)} /\ sizes.out \in Nat /\ sizes.echo <= sizes.out
       /\ sizes.rc \in 1..MaxDigits /\ sizes.cwd \in 1..2 /\ sizes.err \in Nat
  BY <1>1, <1>4, <1>27
<1>31. \A p \in 1..Len(stream) :
         /\ stream[p] = "start" => p = StartAt \/ (sizes.echo # 0 /\ p = 1)
         /\ stream[p] = "end" => p = EndAt \/ (sizes.echo # 0 /\ p = 4)
         /\ p \in (StartAt + 2)..(ErrAt - 1) =>
              stream[p] = IF p \in {StartAt + 2, CwdAt - 1, ErrAt - 1} THEN "us"
                          ELSE IF p < CwdAt THEN "digit" ELSE "x"
  <2> SUFFICES ASSUME NEW p \in 1..(d + 2)
               PROVE  /\ stream[p] = "start" => p = s \/ (l # 0 /\ p = 1)
                      /\ stream[p] = "end" => p = d \/ (l # 0 /\ p = 4)
                      /\ p \in (s + 2)..(e - 1) =>
                           stream[p] = IF p \in {s + 2, c - 1, e - 1} THEN "us"
                                       ELSE IF p < c THEN "digit" ELSE "x"
    BY <1>12, <1>27, <1>28, Zenon
  <2> QED
    BY <1>29
<1>32. /\ stream[StartAt - 1] = "nl"
       /\ stream[StartAt] = "start" /\ stream[StartAt + 1] = "start2"
       /\ stream[EndAt] = "end" /\ stream[EndAt + 1] = "end2"
       /\ sizes.echo # 0 => stream[3] = "x"
  BY <1>24, <1>26, <1>27, <1>28, Zenon
<1> QED
  BY <1>12, <1>28, <1>30, <1>31, <1>32, Zenon DEF StreamInv

\* Nothing has been pushed yet.
LEMMA ContentInit == Init => ContentInv
<1> SUFFICES ASSUME Init PROVE ContentInv
  OBVIOUS
<1>1. StreamInv
  BY StreamStands
<1>2. /\ taken = 0 /\ buf = <<>> /\ scanned = 0 /\ elided = 0 /\ start = 0 /\ stderrAt = 0
      /\ errElided = 0 /\ errKeep = NoKeep /\ ~result.done
  BY DEF Init, NoResult
<1>3. PICK s \in Nat, c \in Nat, e \in Nat, d \in Nat :
        /\ s = StartAt /\ c = CwdAt /\ e = ErrAt /\ d = EndAt
        /\ 2 <= s /\ c \in (s + 5)..(s + 6) /\ c + 2 <= e /\ e <= d
  BY <1>1, Places, Zenon
<1>4. Layout(buf, taken, elided, errElided, errKeep)
  BY <1>2, SepLenZero DEF Layout
<1>5. Gaps(taken, elided, errElided, errKeep)
  BY <1>2 DEF Gaps
<1>6. TrailerInv
  <2>1. 0 <= d /\ 0 < c - 1 /\ 0 < e - 1
    BY <1>3
  <2>2. Len(buf) = 0
    BY <1>2
  <2> QED
    BY <1>2, <1>3, <2>1, <2>2 DEF TrailerInv
<1>7. ShareInv
  BY <1>2 DEF ShareInv
<1>8. Bounded
  <2>1. PICK w \in Nat : w = SepLen(Len(stream))
    BY <1>1, SepLenNat DEF StreamInv
  <2>2. PICK cap \in Nat, half \in Nat : cap = Cap /\ half = Cap \div 2
    BY Room
  <2>a. PICK y \in Int, z \in Int : y = 2 * cap /\ 0 <= y /\ z = cap + half + 2 * w + e - s + 1
    OBVIOUS
  <2>3. Max({y, z}) \in {y, z} /\ y <= Max({y, z})
    BY MaxPair
  <2>4. 0 <= Max({y, z})
    BY <2>a, <2>3
  <2>5. 0 <= Max({2 * cap, cap + half + 2 * w + e - s + 1})
    BY <2>a, <2>4, Zenon
  <2>6. Len(buf) = 0
    BY <1>2
  <2> QED
    BY <1>3, <2>1, <2>2, <2>5, <2>6, Zenon DEF Bounded
<1>9. ResultExact
  BY <1>2 DEF ResultExact
<1> QED
  BY <1>1, <1>4, <1>5, <1>6, <1>7, <1>8, <1>9 DEF ContentInv
-----------------------------------------------------------------------------
(* The block of the trailer. *)

\* The places of the trailer in a buffer from which n and m bytes were elided.
TrailerAt(s, c, e, d, f, g, n, m) ==
  /\ s = StartAt /\ c = CwdAt /\ e = ErrAt /\ d = EndAt /\ f = Shift(n) /\ g = Shift(m)
  /\ 2 <= s + f /\ s + 5 <= c /\ c + 2 <= e /\ e <= d /\ e <= d + g
  /\ sizes.echo # 0 => 6 <= s + f

\* There are such places.
LEMMA Trailer ==
  ASSUME StreamInv, NEW b, NEW t, NEW u, NEW n, NEW m, NEW k, Mapped(b, t, u, n, m, k)
  PROVE  \E s, c, e, d \in Nat, f, g \in Int : TrailerAt(s, c, e, d, f, g, n, m)
<1>1. PICK h, p, r, s, c, e, d, l \in Nat : Num(b, t, u, n, m, k, h, p, r, s, c, e, d, l)
  BY Numbers
<1>2. /\ Bounds(t, u, n, m, k, h, p, r, s, c, e, d, l) /\ (sizes.echo # 0 => 7 <= s)
      /\ s = StartAt /\ c = CwdAt /\ e = ErrAt /\ d = EndAt
      /\ Shift(n) = p - n /\ Shift(m) = r - m
  BY <1>1, Zenon DEF Num, Names
<1>3. PICK f \in Int, g \in Int : f = p - n /\ g = r - m
  BY <1>2 DEF Bounds
<1>4. /\ 2 <= s + f /\ s + 5 <= c /\ c + 2 <= e /\ e <= d /\ e <= d + g
      /\ 7 <= s => 6 <= s + f
  BY <1>2, <1>3 DEF Bounds
<1> QED
  BY <1>2, <1>3, <1>4, Zenon DEF TrailerAt

\* The block of the trailer is the only one that validates, from its end marker on.
BlockAt(b, x, n) ==
  /\ StartBefore(b, x) # {} /\ StartOf(b, x) = StartAt + Shift(n)
  /\ HeaderEnd(b, x, 1) = {StartAt + Shift(n) + 2}
  /\ HeaderEnd(b, x, 2) = {CwdAt - 1 + Shift(n)}
  /\ HeaderEnd(b, x, 3) = {ErrAt - 1 + Shift(n)}

\* That is where parse_framed finds it.
LEMMA BlockFound ==
  ASSUME StreamInv, NEW b, NEW t, NEW u, NEW n, NEW m, NEW k, Mapped(b, t, u, n, m, k),
         EndAt + 1 <= t
  PROVE  BlockAt(b, EndAt + Shift(n) + Shift(m), n)
<1>1. PICK s, c, e, d \in Nat, f, g \in Int : TrailerAt(s, c, e, d, f, g, n, m)
  BY Trailer
<1>2. /\ s = StartAt /\ c = CwdAt /\ e = ErrAt /\ d = EndAt /\ f = Shift(n) /\ g = Shift(m)
      /\ 2 <= s + f /\ s + 5 <= c /\ c + 2 <= e /\ e <= d /\ e <= d + g
  BY <1>1, Zenon DEF TrailerAt
<1>3. PICK x \in Int : x = d + f + g /\ x = EndAt + Shift(n) + Shift(m)
  BY <1>2
<1>4. StartAt + 1 <= t
  <2>1. t \in Nat
    BY DEF Mapped
  <2> QED
    BY <1>2, <2>1
<1>5. Len(StartMarker) = 2 /\ Len(b) \in Nat
  BY DEF StartMarker, Mapped, Buffer
<1>6. StartBefore(b, x) = {y \in Occurrences(b, StartMarker) : y + 2 <= x}
  BY <1>5 DEF StartBefore
<1>7. s + f \in Occurrences(b, StartMarker)
  BY <1>2, <1>4, StartSeen, Zenon
<1>8. s + f + 2 <= x
  BY <1>2, <1>3
<1>9. s + f \in StartBefore(b, x)
  BY <1>6, <1>7, <1>8
<1>10. ASSUME NEW y \in StartBefore(b, x) PROVE y \in Int /\ y <= s + f
  <2>1. y \in Occurrences(b, StartMarker)
    BY <1>6
  <2>2. y = s + f \/ y = 1
    BY <1>2, <2>1, StartSeen, Zenon
  <2> QED
    BY <1>2, <2>2
<1>11. StartOf(b, x) = s + f
  <2> DEFINE S == StartBefore(b, x)
  <2>1. s + f \in S /\ \A y \in S : s + f >= y
    BY <1>9, <1>10
  <2>2. Max(S) \in S /\ \A y \in S : Max(S) >= y
    BY <2>1 DEF Max
  <2>3. Max(S) \in Int /\ Max(S) <= s + f /\ Max(S) >= s + f
    BY <1>10, <2>1, <2>2
  <2>4. Max(S) = s + f
    BY <2>3
  <2> QED
    BY <2>4 DEF StartOf
<1>12. x - 1 \in Int /\ x - 1 <= Len(b) /\ e - 1 + f <= x - 1
  <2>1. EndAt + Shift(n) + Shift(m) \in Occurrences(b, EndMarker)
    BY EndSeen
  <2>2. x \in 1..(Len(b) - 1)
    BY <1>3, <1>5, <2>1, MarkerAt
  <2>3. x - 1 <= Len(b)
    BY <1>5, <2>2
  <2>4. e <= d + g /\ x = d + f + g
    BY <1>2, <1>3, Zenon
  <2>5. e - 1 + f <= x - 1
    BY <2>4
  <2> QED
    BY <2>3, <2>5
<1>13. ThreeMarks(b, s + f + 2, x - 1, s + f + 2, c - 1 + f, e - 1 + f)
  BY <1>2, <1>12, HeaderMarks, Zenon
<1>14. /\ NthSeparator(b, s + f + 2, x - 1, 1) = {s + f + 2}
       /\ NthSeparator(b, s + f + 2, x - 1, 2) = {c - 1 + f}
       /\ NthSeparator(b, s + f + 2, x - 1, 3) = {e - 1 + f}
  BY <1>12, <1>13, FirstThree
<1>15. \A i : HeaderEnd(b, x, i) = NthSeparator(b, s + f + 2, x - 1, i)
  BY <1>5, <1>11 DEF HeaderEnd
<1>16. StartBefore(b, x) # {}
  BY <1>9
<1>17. /\ HeaderEnd(b, x, 1) = {s + f + 2} /\ HeaderEnd(b, x, 2) = {c - 1 + f}
       /\ HeaderEnd(b, x, 3) = {e - 1 + f}
  BY <1>14, <1>15, Zenon
<1> QED
  BY <1>2, <1>3, <1>11, <1>16, <1>17, Zenon DEF BlockAt

\* The end marker of an echo ends no block.
LEMMA EchoInvalid ==
  ASSUME StreamInv, NEW b, NEW t, NEW u, NEW n, NEW m, NEW k, Mapped(b, t, u, n, m, k),
         sizes.echo # 0
  PROVE  4 \notin ValidEnds(b)
<1> SUFFICES ASSUME 4 \in ValidEnds(b) PROVE FALSE
  OBVIOUS
<1>1. PICK s, c, e, d \in Nat, f, g \in Int : TrailerAt(s, c, e, d, f, g, n, m)
  BY Trailer
<1>2. s = StartAt /\ f = Shift(n) /\ 6 <= s + f
  BY <1>1, Zenon DEF TrailerAt
<1>3. Len(StartMarker) = 2 /\ Len(b) \in Nat
  BY DEF StartMarker, Mapped, Buffer
<1>4. 4 \in Occurrences(b, EndMarker) /\ StartBefore(b, 4) # {} /\ HeaderEnd(b, 4, 3) # {}
  BY DEF ValidEnds
<1>5. ASSUME NEW y \in StartBefore(b, 4) PROVE y = 1
  <2>1. y \in Occurrences(b, StartMarker) /\ y + 2 <= 4
    BY <1>3 DEF StartBefore
  <2>2. y = s + f \/ y = 1
    BY <1>2, <2>1, StartSeen, Zenon
  <2> QED
    BY <1>2, <2>1, <2>2
<1>6. StartOf(b, 4) = 1
  <2> DEFINE S == StartBefore(b, 4)
  <2>1. 1 \in S /\ \A y \in S : 1 >= y
    BY <1>4, <1>5
  <2>2. Max(S) \in S
    BY <2>1 DEF Max
  <2> QED
    BY <1>5, <2>2 DEF StartOf
<1>7. PICK x : x \in Separators(b, 1 + 2, 4 - 1)
  BY <1>3, <1>4, <1>6 DEF HeaderEnd, NthSeparator
<1>8. x = 3 /\ Kind(b[3]) = "us"
  <2>1. x \in (1 + 2)..(4 - 1) /\ Kind(b[x]) = "us"
    BY <1>7 DEF Separators
  <2> QED
    BY <2>1
<1>9. 3 \in 1..Len(b) /\ 3 \in 1..6
  <2>1. 4 \in 1..(Len(b) - 1)
    BY <1>3, <1>4, MarkerAt
  <2> QED
    BY <1>3, <2>1
<1>10. b[3] = 3
  BY <1>9, EchoStands
<1> QED
  BY <1>8, <1>10 DEF Kind, StreamInv

\* Once the end marker is there, its block is the only valid one.
LEMMA BlockValid ==
  ASSUME StreamInv, NEW b, NEW t, NEW u, NEW n, NEW m, NEW k, Mapped(b, t, u, n, m, k)
  PROVE  ValidEnds(b) = IF EndAt + 1 <= t THEN {EndAt + Shift(n) + Shift(m)} ELSE {}
<1> DEFINE x == EndAt + Shift(n) + Shift(m)
<1>1. ASSUME NEW y \in ValidEnds(b) PROVE y = x /\ EndAt + 1 <= t
  <2>1. y \in Occurrences(b, EndMarker)
    BY DEF ValidEnds
  <2>2. y = 4 /\ sizes.echo # 0 => FALSE
    BY EchoInvalid
  <2> QED
    BY <2>1, <2>2, EndSeen, Zenon
<1>2. ASSUME EndAt + 1 <= t PROVE x \in ValidEnds(b)
  <2>1. x \in Occurrences(b, EndMarker)
    BY <1>2, EndSeen
  <2>2. BlockAt(b, x, n)
    BY <1>2, BlockFound
  <2> HIDE DEF x
  <2> QED
    BY <2>1, <2>2 DEF ValidEnds, BlockAt
<1> HIDE DEF x
<1>3. CASE EndAt + 1 <= t
  BY <1>1, <1>2, <1>3 DEF x
<1>4. CASE ~(EndAt + 1 <= t)
  BY <1>1, <1>4
<1> QED
  BY <1>3, <1>4

\* The command is done with the byte behind its end marker's first.
LEMMA CompleteAt ==
  ASSUME StreamInv, NEW b, NEW t, NEW u, NEW n, NEW m, NEW k, Mapped(b, t, u, n, m, k),
         Tracks(u, n, m)
  PROVE  Complete(b) <=> EndAt + 1 <= t
<1>1. Complete(b) => EndAt + 1 <= t
  BY BlockValid DEF Complete
<1>2. ASSUME EndAt + 1 <= t PROVE Complete(b)
  <2>1. ValidEnds(b) # {}
    BY <1>2, BlockValid
  <2>2. EndAt + Shift(n) + Shift(m) \in Occurrences(b, EndMarker)
    BY <1>2, EndSeen
  <2>3. PICK s, c, e, d \in Nat, f, g \in Int : TrailerAt(s, c, e, d, f, g, n, m)
    BY Trailer
  <2>4. d = EndAt /\ f = Shift(n) /\ g = Shift(m)
    BY <2>3, Zenon DEF TrailerAt
  <2>5. PICK v \in Nat : v = u /\ v <= d
    BY <2>4 DEF Mapped
  <2>6. scanned = v + f + g
    BY <2>4, <2>5, Zenon DEF Tracks
  <2>7. d + f + g > v + f + g - (2 - 1)
    BY <2>5
  <2>8. Len(EndMarker) = 2
    BY DEF EndMarker
  <2>9. EndAt + Shift(n) + Shift(m) > scanned - (Len(EndMarker) - 1)
    <3>1. EndAt + Shift(n) + Shift(m) = d + f + g
      BY <2>4, Zenon
    <3>2. scanned - (Len(EndMarker) - 1) = v + f + g - (2 - 1)
      BY <2>6, <2>8
    <3> QED
      BY <2>7, <3>1, <3>2
  <2> QED
    BY <2>1, <2>2, <2>9 DEF Complete
<1> QED
  BY <1>1, <1>2
-----------------------------------------------------------------------------
(* Results: slices of the buffer. *)

\* Consecutive positions.
LEMMA Consecutive ==
  ASSUME NEW x \in Nat, NEW a \in Nat
  PROVE  /\ Positions(x, x + a - 1) \in Seq(Nat) /\ Len(Positions(x, x + a - 1)) = a
         /\ \A i \in 1..a : Positions(x, x + a - 1)[i] = x + i - 1
<1>1. x + a - 1 - x + 1 = a /\ \A i \in 1..a : x + i - 1 \in Nat
  OBVIOUS
<1>2. Positions(x, x + a - 1) = [i \in 1..a |-> x + i - 1]
  BY <1>1 DEF Positions
<1> QED
  BY <1>1, <1>2

\* A sequence of positions, a separator and positions again.
Spaced(z, x, a, p, v, c) ==
  /\ z \in Seq(Nat) /\ x \in Nat /\ a \in Nat /\ p \in Nat /\ v \in Nat /\ c \in Nat
  /\ Len(z) = a + p + c
  /\ \A i \in 1..(a + p + c) :
       z[i] = IF i <= a THEN x + i - 1 ELSE IF i <= a + p THEN 0 ELSE v + (i - a - p) - 1

\* It is the concatenation of the three.
Piecewise(z, x, a, p, v, c) ==
  z = Positions(x, x + a - 1) \o Copies(p, 0) \o Positions(v, v + c - 1)

\* A sequence so spaced is that concatenation.
LEMMA Pieces ==
  ASSUME NEW z, NEW x, NEW a, NEW p, NEW v, NEW c, Spaced(z, x, a, p, v, c)
  PROVE  Piecewise(z, x, a, p, v, c)
<1>0. /\ z \in Seq(Nat) /\ x \in Nat /\ a \in Nat /\ p \in Nat /\ v \in Nat /\ c \in Nat
      /\ Len(z) = a + p + c
      /\ \A i \in 1..(a + p + c) :
           z[i] = IF i <= a THEN x + i - 1 ELSE IF i <= a + p THEN 0 ELSE v + (i - a - p) - 1
  BY DEF Spaced
<1> DEFINE head == Positions(x, x + a - 1)
           sep == Copies(p, 0)
           tail == Positions(v, v + c - 1)
<1>1. head \in Seq(Nat) /\ Len(head) = a /\ \A i \in 1..a : head[i] = x + i - 1
  BY <1>0, Consecutive
<1>2. tail \in Seq(Nat) /\ Len(tail) = c /\ \A i \in 1..c : tail[i] = v + i - 1
  BY <1>0, Consecutive
<1>3. sep \in Seq(Nat) /\ Len(sep) = p /\ \A i \in 1..p : sep[i] = 0
  <2>1. \A i \in 1..p : sep[i] = 0
    BY <1>0 DEF Copies
  <2> QED
    BY <1>0, <2>1, 0 \in Nat, CopiesLen
<1> HIDE DEF head, sep, tail
<1> DEFINE front == head \o sep
<1>4. /\ front \in Seq(Nat) /\ Len(front) = a + p
      /\ \A i \in 1..(a + p) : front[i] = IF i <= a THEN head[i] ELSE sep[i - a]
  <2>1. /\ front \in Seq(Nat) /\ Len(front) = Len(head) + Len(sep)
        /\ \A i \in 1..(Len(head) + Len(sep)) :
             front[i] = IF i <= Len(head) THEN head[i] ELSE sep[i - Len(head)]
    BY <1>1, <1>3, ConcatProperties
  <2> QED
    BY <1>1, <1>3, <2>1, Zenon
<1> HIDE DEF front
<1>5. /\ front \o tail \in Seq(Nat) /\ Len(front \o tail) = a + p + c
      /\ \A i \in 1..(a + p + c) :
           (front \o tail)[i] = IF i <= a + p THEN front[i] ELSE tail[i - (a + p)]
  <2>1. /\ front \o tail \in Seq(Nat) /\ Len(front \o tail) = Len(front) + Len(tail)
        /\ \A i \in 1..(Len(front) + Len(tail)) :
             (front \o tail)[i] = IF i <= Len(front) THEN front[i] ELSE tail[i - Len(front)]
    BY <1>2, <1>4, ConcatProperties
  <2> QED
    BY <1>2, <1>4, <2>1, Zenon
<1>6. ASSUME NEW i \in 1..(a + p + c) PROVE z[i] = (front \o tail)[i]
  <2>1. CASE i <= a
    <3>1. i \in 1..a /\ i \in 1..(a + p) /\ i <= a + p
      BY <1>0, <2>1
    <3> QED
      BY <1>0, <1>1, <1>4, <1>5, <2>1, <3>1
  <2>2. CASE ~(i <= a) /\ i <= a + p
    <3>1. i \in 1..(a + p) /\ i - a \in 1..p
      BY <1>0, <2>2
    <3> QED
      BY <1>0, <1>3, <1>4, <1>5, <2>2, <3>1
  <2>3. CASE ~(i <= a + p)
    <3>1. i - (a + p) \in 1..c /\ ~(i <= a) /\ v + (i - (a + p)) - 1 = v + (i - a - p) - 1
      BY <1>0, <2>3
    <3>2. z[i] = v + (i - a - p) - 1
      BY <1>0, <2>3, <3>1
    <3>3. (front \o tail)[i] = tail[i - (a + p)]
      BY <1>5, <2>3
    <3>4. tail[i - (a + p)] = v + (i - (a + p)) - 1
      BY <1>2, <3>1
    <3> QED
      BY <3>1, <3>2, <3>3, <3>4
  <2> QED
    BY <2>1, <2>2, <2>3
<1>7. Len(z) = Len(front \o tail) /\ \A i \in 1..Len(z) : z[i] = (front \o tail)[i]
  BY <1>0, <1>5, <1>6
<1>8. z = front \o tail
  BY <1>0, <1>5, <1>7, SeqEqual
<1> QED
  BY <1>8, Zenon DEF front, head, sep, tail, Piecewise

\* A slice of the buffer.
LEMMA Sliced ==
  ASSUME NEW b \in Seq(Nat), NEW x \in Nat, NEW y \in Nat, 1 <= x, y <= Len(b), x <= y + 1
  PROVE  /\ SubSeq(b, x, y) \in Seq(Nat) /\ Len(SubSeq(b, x, y)) = y - x + 1
         /\ \A i \in 1..(y - x + 1) : SubSeq(b, x, y)[i] = b[x + i - 1]
<1>1. \A i \in x..y : b[i] \in Nat
  BY LenProperties, ElementOfSeq
<1>2. /\ SubSeq(b, x, y) \in Seq(Nat)
      /\ Len(SubSeq(b, x, y)) = IF x <= y THEN y - x + 1 ELSE 0
      /\ \A i \in 1..(y - x + 1) : SubSeq(b, x, y)[i] = b[x + i - 1]
  BY <1>1, SubSeqProperties
<1> QED
  BY <1>2

\* The buffer up to a position before the trailer's header is the output, shortened.
LEMMA Prefix ==
  ASSUME StreamInv, NEW b, NEW t, NEW u, NEW n, NEW m, NEW k, Mapped(b, t, u, n, m, k),
         NEW q \in Nat, q <= StartAt, q <= t, n > 0 => 2 * Half + n <= q + 5
  PROVE  /\ q + Shift(n) \in Nat /\ q + Shift(n) <= Len(b)
         /\ Shortened(SubSeq(b, 1, q + Shift(n)), 1, q, n, Half, 5)
<1>1. PICK h, p, r, s, c, e, d, l \in Nat : Num(b, t, u, n, m, k, h, p, r, s, c, e, d, l)
  BY Numbers
<1>2. /\ Bounds(t, u, n, m, k, h, p, r, s, c, e, d, l)
      /\ \A i \in 1..l : ByteIs(b[i], i, n, m, k, h, p, r, e)
      /\ h = Half /\ p = SepLen(n) /\ s = StartAt /\ e = ErrAt /\ l = Len(b) /\ Shift(n) = p - n
  BY <1>1, Zenon DEF Num, Names
<1>3. q <= s /\ q <= t /\ (n > 0 => 2 * h + n <= q + 5)
  BY <1>2, Zenon
<1>b. Bounds(t, u, n, m, k, h, p, r, s, c, e, d, l)
  BY <1>2
<1>4. n \in Nat /\ (n = 0 => p = 0) /\ 6 <= h
  BY <1>2 DEF Bounds
<1>5. PICK j \in Int : j = q + Shift(n) /\ j = q + (p - n)
  BY <1>2, <1>4
<1>6. j \in Nat /\ j <= l /\ (n > 0 => h + p <= j)
  <2>1. PICK f \in Int : f = p - n
    BY <1>4
  <2>2. j = q + f
    BY <1>5, <2>1
  <2>3. (n > 0 => h + p <= q + f) /\ 0 <= q + f
    BY <1>3, <1>4, <2>1
  <2>4. q + f <= l
    BY <1>3, <1>b, <2>1 DEF Bounds
  <2> QED
    BY <2>2, <2>3, <2>4
<1>7. ASSUME NEW i \in 1..j
      PROVE  b[i] = IF i <= h THEN i ELSE IF i <= h + p THEN 0 ELSE i + n - p
  <2>1. ByteIs(b[i], i, n, m, k, h, p, r, e)
    BY <1>2, <1>6
  <2>2. i <= e - 1 - n + p + k
    <3>1. i <= q + p - n
      BY <1>4, <1>5
    <3> QED
      BY <1>3, <1>b, <3>1 DEF Bounds
  <2> QED
    BY <2>1, <2>2, Zenon DEF ByteIs
<1>8. b \in Seq(Nat)
  <2>1. b \in Seq(0..t) /\ t \in Nat
    BY DEF Mapped, Buffer
  <2> QED
    BY <2>1
<1> DEFINE z == SubSeq(b, 1, j)
<1>9. z \in Seq(Nat) /\ Len(z) = j /\ \A i \in 1..j : z[i] = b[i]
  <2>1. 1 \in Nat /\ 1 <= 1 /\ j <= Len(b) /\ 1 <= j + 1
    BY <1>2, <1>6
  <2>2. /\ SubSeq(b, 1, j) \in Seq(Nat) /\ Len(SubSeq(b, 1, j)) = j - 1 + 1
        /\ \A i \in 1..(j - 1 + 1) : SubSeq(b, 1, j)[i] = b[1 + i - 1]
    BY <1>6, <1>8, <2>1, Sliced
  <2> QED
    BY <1>6, <2>2
<1> HIDE DEF z
<1>10. CASE n = 0
  <2>1. j = q /\ \A i \in 1..q : z[i] = i
    BY <1>4, <1>5, <1>7, <1>9, <1>10
  <2>2. Positions(1, 1 + q - 1) \in Seq(Nat) /\ Len(Positions(1, 1 + q - 1)) = q
        /\ \A i \in 1..q : Positions(1, 1 + q - 1)[i] = 1 + i - 1
    BY 1 \in Nat, Consecutive
  <2>3. 1 + q - 1 = q
    OBVIOUS
  <2>4. Positions(1, q) \in Seq(Nat) /\ Len(Positions(1, q)) = q /\ \A i \in 1..q : Positions(1, q)[i] = i
    BY <2>2, <2>3
  <2>5. Len(z) = Len(Positions(1, q)) /\ \A i \in 1..Len(z) : z[i] = Positions(1, q)[i]
    BY <1>9, <2>1, <2>4
  <2>6. z = Positions(1, q)
    BY <1>9, <2>4, <2>5, SeqEqual
  <2>7. Shortened(z, 1, q, n, Half, 5)
    BY <1>10, <2>6 DEF Shortened
  <2> QED
    BY <1>2, <1>5, <1>6, <2>7 DEF z
<1>11. CASE n > 0
  <2>1. PICK y \in Nat : y = q - h - n
    BY <1>3, <1>4, <1>11
  <2>2. PICK v \in Nat : v = h + n + 1
    BY <1>4
  <2>3. j = h + p + y
    BY <1>4, <1>5, <2>1
  <2>4. ASSUME NEW i \in 1..(h + p + y)
        PROVE  z[i] = IF i <= h THEN 1 + i - 1 ELSE IF i <= h + p THEN 0 ELSE v + (i - h - p) - 1
    <3>1. z[i] = IF i <= h THEN i ELSE IF i <= h + p THEN 0 ELSE i + n - p
      BY <1>7, <1>9, <2>3, <2>4
    <3>2. 1 + i - 1 = i /\ v + (i - h - p) - 1 = i + n - p
      BY <1>4, <2>2
    <3> QED
      BY <3>1, <3>2
  <2>a. Len(z) = h + p + y /\ z \in Seq(Nat) /\ 1 \in Nat
    BY <1>9, <2>3
  <2>5. z = Positions(1, h) \o Copies(p, 0) \o Positions(v, v + y - 1)
    <3>1. PICK x \in Nat : x = 1
      BY <2>a
    <3>2. Spaced(z, x, h, p, v, y)
      BY <2>4, <2>a, <3>1 DEF Spaced
    <3>3. z = Positions(x, x + h - 1) \o Copies(p, 0) \o Positions(v, v + y - 1)
      <4>1. Piecewise(z, x, h, p, v, y)
        BY <3>2, Pieces, Zenon
      <4> QED
        BY <4>1, Zenon DEF Piecewise
    <3>4. x + h - 1 = h /\ 1 + h - 1 = h
      BY <1>4, <3>1
    <3>5. z = Positions(x, h) \o Copies(p, 0) \o Positions(v, v + y - 1)
      BY <3>3, <3>4, Zenon
    <3> QED
      BY <3>1, <3>5, Zenon
  <2>6. v + y - 1 = q /\ v = h + n + 1 /\ h + n + h - 5 <= q
    BY <1>3, <1>4, <1>11, <2>1, <2>2
  <2>7. z = Positions(1, h) \o Copies(p, 0) \o Positions(h + n + 1, q)
    BY <2>5, <2>6, Zenon
  <2>8. n # 0
    BY <1>11
  <2>9. Shortened(z, 1, q, n, h, 5)
    <3>1. 1 + h - 1 = h
      BY <1>4
    <3> QED
      BY <1>2, <2>6, <2>7, <2>8, <3>1 DEF Shortened
  <2> QED
    BY <1>2, <1>5, <1>6, <2>9 DEF z
<1> QED
  BY <1>4, <1>10, <1>11

\* A part of the trailer's header is in the buffer as it was printed.
LEMMA HeaderPart ==
  ASSUME StreamInv, NEW b, NEW t, NEW u, NEW n, NEW m, NEW k, Mapped(b, t, u, n, m, k),
         NEW x \in Nat, NEW y \in Nat, StartAt <= x, x <= y, y < ErrAt, y <= t
  PROVE  SubSeq(b, x + Shift(n), y + Shift(n)) = Positions(x, y)
<1>1. PICK s, c, e, d \in Nat, f, g \in Int : TrailerAt(s, c, e, d, f, g, n, m)
  BY Trailer
<1>2. s = StartAt /\ e = ErrAt /\ f = Shift(n) /\ 2 <= s + f
  BY <1>1, Zenon DEF TrailerAt
<1>3. s <= x /\ y < e /\ y <= t /\ t \in Nat
  BY <1>2, Zenon DEF Mapped
<1>4. PICK lo \in Int, hi \in Int, a \in Nat : lo = x + f /\ hi = y + f /\ a = y - x + 1
  OBVIOUS
<1>5. lo \in Nat /\ hi \in Nat /\ 1 <= lo /\ lo <= hi + 1 /\ hi - lo + 1 = a
  BY <1>2, <1>3, <1>4
<1>6. ASSUME NEW q \in Nat, x <= q, q <= y PROVE q + f \in 1..Len(b) /\ b[q + f] = q
  <2>1. StartAt - 1 <= q /\ q < ErrAt /\ q <= t
    BY <1>2, <1>3, <1>6
  <2>2. q + Shift(n) \in 1..Len(b) /\ b[q + Shift(n)] = q
    BY <2>1, HeaderStands
  <2> QED
    BY <1>2, <2>2, Zenon
<1>7. b \in Seq(Nat)
  <2>1. b \in Seq(0..t)
    BY DEF Mapped, Buffer
  <2> QED
    BY <1>3, <2>1
<1>8. hi <= Len(b)
  <2>1. y + f \in 1..Len(b)
    BY <1>6
  <2> QED
    BY <1>4, <1>7, <2>1
<1> DEFINE w == SubSeq(b, lo, hi)
<1>9. w \in Seq(Nat) /\ Len(w) = hi - lo + 1 /\ \A i \in 1..(hi - lo + 1) : w[i] = b[lo + i - 1]
  BY <1>5, <1>7, <1>8, Sliced
<1> HIDE DEF w
<1>10. ASSUME NEW i \in 1..a PROVE w[i] = x + i - 1
  <2>1. PICK q \in Nat : q = x + i - 1 /\ x <= q /\ q <= y /\ q + f = lo + i - 1
    BY <1>4
  <2>2. b[q + f] = q
    BY <1>6, <2>1
  <2>3. w[i] = b[q + f]
    BY <1>5, <1>9, <2>1
  <2> QED
    BY <2>1, <2>2, <2>3
<1>11. /\ Positions(x, x + a - 1) \in Seq(Nat) /\ Len(Positions(x, x + a - 1)) = a
       /\ \A i \in 1..a : Positions(x, x + a - 1)[i] = x + i - 1
  BY Consecutive
<1>12. w = Positions(x, x + a - 1)
  <2>1. Len(w) = Len(Positions(x, x + a - 1)) /\ \A i \in 1..Len(w) : w[i] = Positions(x, x + a - 1)[i]
    BY <1>5, <1>9, <1>10, <1>11
  <2> QED
    BY <1>9, <1>11, <2>1, SeqEqual
<1>13. x + a - 1 = y
  BY <1>4
<1> QED
  BY <1>2, <1>4, <1>12, <1>13, Zenon DEF w

\* The bytes between the header and the end marker are stderr, shortened.
LEMMA ErrPart ==
  ASSUME StreamInv, NEW b, NEW t, NEW u, NEW n, NEW m, NEW k, Mapped(b, t, u, n, m, k),
         EndAt + 1 <= t
  PROVE  Shortened(SubSeq(b, ErrAt + Shift(n), EndAt - 1 + Shift(n) + Shift(m)), ErrAt, EndAt - 1, m, k, 1)
<1>1. PICK h, p, r, s, c, e, d, l \in Nat : Num(b, t, u, n, m, k, h, p, r, s, c, e, d, l)
  BY Numbers
<1>2. /\ \A i \in 1..l : ByteIs(b[i], i, n, m, k, h, p, r, e)
      /\ d = EndAt /\ r = SepLen(m) /\ e = ErrAt /\ l = Len(b)
      /\ Shift(n) = p - n /\ Shift(m) = r - m
  BY <1>1, Zenon DEF Num, Names
<1>3. Bounds(t, u, n, m, k, h, p, r, s, c, e, d, l)
  BY <1>1, Zenon DEF Num
<1>4. n \in Nat /\ m \in Nat /\ k \in Int /\ t \in Nat /\ (m = 0 => r = 0) /\ (n = 0 => p = 0) /\ e <= d
  BY <1>3 DEF Bounds
<1>5. d + 1 <= t
  BY <1>2, Zenon
<1>6. PICK f \in Int, g \in Int : f = p - n /\ g = r - m /\ f = Shift(n) /\ g = Shift(m)
  BY <1>2, <1>4
<1>7. PICK lo \in Int, hi \in Int : lo = e + f /\ hi = d - 1 + f + g
  OBVIOUS
<1>8. /\ lo \in Nat /\ hi \in Nat /\ 1 <= lo /\ hi <= l /\ lo <= hi + 1
      /\ n > 0 => h + p < lo
  <2>1. /\ n > 0 => h + p < e + (p - n)
        /\ 1 <= e + (p - n) /\ e <= d + (r - m)
        /\ d + (p - n) + (r - m) <= l
    BY <1>3, <1>5 DEF Bounds
  <2>2. e + (p - n) = e + f /\ d + (r - m) = d + g /\ d + (p - n) + (r - m) = d + f + g
    BY <1>6, Zenon
  <2>3. lo = e + f /\ (n > 0 => h + p < lo) /\ 1 <= lo
    BY <1>7, <2>1, <2>2, Zenon
  <2>4. e <= d + g /\ d + f + g <= l
    BY <2>1, <2>2, Zenon
  <2>5. hi \in Nat /\ hi <= l /\ lo <= hi + 1
    BY <1>7, <2>3, <2>4
  <2> QED
    BY <2>3, <2>5
<1>9. b \in Seq(Nat)
  <2>1. b \in Seq(0..t) /\ t \in Nat
    BY DEF Mapped, Buffer
  <2> QED
    BY <2>1
<1> DEFINE w == SubSeq(b, lo, hi)
<1>10. w \in Seq(Nat) /\ Len(w) = hi - lo + 1 /\ \A i \in 1..(hi - lo + 1) : w[i] = b[lo + i - 1]
  BY <1>2, <1>8, <1>9, Sliced
<1> HIDE DEF w
<1>11. ASSUME NEW i \in 1..(hi - lo + 1)
       PROVE  w[i] = IF i <= k THEN e + i - 1 ELSE IF i <= k + r THEN 0 ELSE e + i - 1 + m - r
  <2>1. PICK j \in 1..l : j = lo + i - 1
    BY <1>8
  <2>2. w[i] = b[j] /\ ByteIs(b[j], j, n, m, k, h, p, r, e)
    BY <1>2, <1>10, <2>1
  <2>3. /\ j = e - n + p + i - 1 /\ (n > 0 => j > h + p)
        /\ j + n - p = e + i - 1 /\ j + n - p + m - r = e + i - 1 + m - r
    <3>1. j = e + (p - n) + i - 1
      BY <1>6, <1>7, <2>1
    <3>2. n > 0 => j > h + p
      BY <1>8, <2>1
    <3>3. /\ j = e - n + p + i - 1
          /\ j + n - p = e + i - 1 /\ j + n - p + m - r = e + i - 1 + m - r
      BY <1>4, <3>1
    <3> QED
      BY <3>2, <3>3
  <2>4. /\ j <= e - 1 - n + p + k <=> i <= k
        /\ j <= e - 1 - n + p + k + r <=> i <= k + r
    BY <1>4, <2>3
  <2>5. n = 0 => j = j + n - p
    BY <1>4, <2>1
  <2>6. n > 0 => ~(j <= h) /\ ~(j <= h + p)
    BY <1>4, <2>3
  <2>7. (IF j <= h THEN j ELSE IF j <= h + p THEN 0 ELSE j + n - p) = e + i - 1
    <3>1. CASE n = 0
      <4>1. h + p = h
        BY <1>4, <3>1
      <4> QED
        BY <2>3, <2>5, <3>1, <4>1
    <3>2. CASE n > 0
      BY <2>3, <2>6, <3>2
    <3> QED
      BY <1>4, <3>1, <3>2
  <2>8. w[i] = IF j <= e - 1 - n + p + k
               THEN IF j <= h THEN j ELSE IF j <= h + p THEN 0 ELSE j + n - p
               ELSE IF j <= e - 1 - n + p + k + r THEN 0 ELSE j + n - p + m - r
    BY <2>2, Zenon DEF ByteIs
  <2> QED
    BY <2>3, <2>4, <2>7, <2>8, Zenon
<1>12. SubSeq(b, ErrAt + Shift(n), EndAt - 1 + Shift(n) + Shift(m)) = w
  BY <1>2, <1>6, <1>7, Zenon DEF w
<1>13. CASE m = 0
  <2>1. PICK a \in Nat : a = d - e /\ hi - lo + 1 = a /\ r = 0 /\ e + a - 1 = d - 1
    BY <1>4, <1>6, <1>7, <1>13
  <2>2. ASSUME NEW i \in 1..a PROVE w[i] = e + i - 1
    <3>1. k + r = k /\ e + i - 1 + m - r = e + i - 1 /\ i \in 1..(hi - lo + 1)
      BY <1>4, <1>13, <2>1, <2>2
    <3> QED
      BY <1>11, <3>1, Zenon
  <2>3. /\ Positions(e, e + a - 1) \in Seq(Nat) /\ Len(Positions(e, e + a - 1)) = a
        /\ \A i \in 1..a : Positions(e, e + a - 1)[i] = e + i - 1
    BY Consecutive
  <2>4. Len(w) = a
    BY <1>10, <2>1
  <2>5. w = Positions(e, e + a - 1)
    <3>1. Len(w) = Len(Positions(e, e + a - 1)) /\ \A i \in 1..Len(w) : w[i] = Positions(e, e + a - 1)[i]
      BY <2>2, <2>3, <2>4
    <3> QED
      BY <1>10, <2>3, <3>1, SeqEqual
  <2>6. w = Positions(e, d - 1)
    BY <2>1, <2>5, Zenon
  <2>7. Shortened(w, e, d - 1, m, k, 1)
    BY <1>13, <2>6 DEF Shortened
  <2> QED
    BY <1>2, <1>12, <2>7, Zenon
<1>14. CASE m > 0
  <2>1. k \in Nat /\ e - 1 + 2 * k + m <= d
    BY <1>3, <1>14 DEF Bounds
  <2>2. PICK v \in Nat : v = e + k + m
    BY <1>4, <2>1
  <2>3. PICK a \in Nat : a = d - e - k - m
    <3>1. 1 <= k
      BY <1>3, <1>14 DEF Bounds
    <3> QED
      BY <1>4, <2>1, <3>1
  <2>4. hi - lo + 1 = k + r + a
    BY <1>4, <1>6, <1>7, <2>1, <2>3
  <2>5. ASSUME NEW i \in 1..(k + r + a)
        PROVE  w[i] = IF i <= k THEN e + i - 1 ELSE IF i <= k + r THEN 0 ELSE v + (i - k - r) - 1
    <3>1. v + (i - k - r) - 1 = e + i - 1 + m - r
      BY <1>4, <2>1, <2>2
    <3> QED
      BY <1>11, <2>4, <2>5, <3>1, Zenon
  <2>6. Spaced(w, e, k, r, v, a)
    BY <1>10, <2>1, <2>4, <2>5 DEF Spaced
  <2>7. Piecewise(w, e, k, r, v, a)
    BY <2>6, Pieces, Zenon
  <2>8. w = Positions(e, e + k - 1) \o Copies(r, 0) \o Positions(v, v + a - 1)
    BY <2>7, Zenon DEF Piecewise
  <2>9. v = e + k - 1 + m + 1 /\ v + a - 1 = d - 1 /\ e + k - 1 + m + k - 1 <= d - 1 /\ m # 0
    BY <1>4, <1>14, <2>1, <2>2, <2>3
  <2>10. w = Positions(e, e + k - 1) \o Copies(r, 0) \o Positions(e + k - 1 + m + 1, d - 1)
    BY <2>8, <2>9, Zenon
  <2>11. Shortened(w, e, d - 1, m, k, 1)
    BY <1>2, <2>9, <2>10 DEF Shortened
  <2> QED
    BY <1>2, <1>12, <2>11, Zenon
<1> QED
  BY <1>4, <1>13, <1>14

\* What a result says of its command, n and m bytes being elided.
Exact(r, n, m, k) ==
  /\ r.exitCode = Positions(CwdAt - sizes.rc - 1, CwdAt - 2)
  /\ r.cwd = Positions(CwdAt, ErrAt - 2)
  /\ Shortened(Append(r.stdout, StartAt - 1), 1, StartAt - 1, n, Half, 5)
  /\ Shortened(r.stderr, ErrAt, EndAt - 1, m, k, 1)
  /\ m > 0 => k >= Cap \div 4

\* The newline before the trailer is all that StripNewline takes from stdout.
LEMMA Stripped ==
  ASSUME NEW z \in Seq(Nat), NEW l \in Nat, Len(z) = l, 0 < l, NEW x \in Nat, x = z[l],
         Kind(z[l]) = "nl"
  PROVE  Append(StripNewline(z), x) = z
<1>1. z # <<>>
  OBVIOUS
<1>2. StripNewline(z) = SubSeq(z, 1, l - 1)
  BY <1>1 DEF StripNewline
<1>3. SubSeq(z, 1, l) = SubSeq(z, 1, l - 1) \o << z[l] >>
  <2>1. 1 \in 1..Len(z) /\ l \in 1..Len(z)
    OBVIOUS
  <2> QED
    BY <2>1, SubSeqRecursiveSecond
<1>4. SubSeq(z, 1, l) = z
  BY SubSeqFull
<1>5. SubSeq(z, 1, l - 1) \in Seq(Nat)
  <2>1. l - 1 \in Nat /\ 1 \in Nat /\ 1 <= 1 /\ l - 1 <= Len(z) /\ 1 <= l - 1 + 1
    OBVIOUS
  <2> QED
    BY <2>1, Sliced
<1>6. Append(SubSeq(z, 1, l - 1), x) = SubSeq(z, 1, l - 1) \o << x >>
  BY <1>5, AppendIsConcat
<1> QED
  BY <1>2, <1>3, <1>4, <1>6, Zenon

\* parse_framed returns what the command printed.
LEMMA ParsedExact ==
  ASSUME StreamInv, NEW b, NEW t, NEW u, NEW n, NEW m, NEW k, Mapped(b, t, u, n, m, k),
         EndAt + 1 <= t
  PROVE  Exact(Parse(b), n, m, k) /\ Parse(b).done
<1>1. PICK s, c, e, d \in Nat, f, g \in Int : TrailerAt(s, c, e, d, f, g, n, m)
  BY Trailer
<1>2. /\ s = StartAt /\ c = CwdAt /\ e = ErrAt /\ d = EndAt /\ f = Shift(n) /\ g = Shift(m)
      /\ 2 <= s + f /\ s + 5 <= c /\ c + 2 <= e /\ e <= d /\ e <= d + g
  BY <1>1, Zenon DEF TrailerAt
<1>3. d + 1 <= t /\ t \in Nat
  BY <1>2, Zenon DEF Mapped
<1>4. PICK x \in Int : x = d + f + g /\ x = EndAt + Shift(n) + Shift(m)
  BY <1>2
<1>5. Min(ValidEnds(b)) = x
  <2>1. ValidEnds(b) = {x}
    BY <1>4, BlockValid, Zenon
  <2>2. x \in {x} /\ \A y \in {x} : x <= y
    BY <1>4
  <2>3. Min({x}) = x
    BY <2>2 DEF Min
  <2> QED
    BY <2>1, <2>3
<1>6. /\ StartOf(b, x) = s + f /\ HeaderEnd(b, x, 1) = {s + f + 2}
      /\ HeaderEnd(b, x, 2) = {c - 1 + f} /\ HeaderEnd(b, x, 3) = {e - 1 + f}
  <2>1. BlockAt(b, x, n)
    BY <1>4, BlockFound, Zenon
  <2> QED
    BY <1>2, <2>1, Zenon DEF BlockAt
<1> DEFINE r == Parse(b)
           min == Min(ValidEnds(b))
           v == [j \in 1..3 |-> CHOOSE y \in HeaderEnd(b, min, j) : TRUE]
<1>7. PICK u1 \in Int, u2 \in Int, u3 \in Int :
        /\ u1 = s + f + 2 /\ u2 = c - 1 + f /\ u3 = e - 1 + f
        /\ u1 = v[1] /\ u2 = v[2] /\ u3 = v[3]
  <2>1. \A S, y : S = {y} => (CHOOSE z \in S : TRUE) = y
    OBVIOUS
  <2>2. /\ v[1] = CHOOSE y \in HeaderEnd(b, min, 1) : TRUE
        /\ v[2] = CHOOSE y \in HeaderEnd(b, min, 2) : TRUE
        /\ v[3] = CHOOSE y \in HeaderEnd(b, min, 3) : TRUE
    OBVIOUS
  <2>3. /\ HeaderEnd(b, min, 1) = {s + f + 2} /\ HeaderEnd(b, min, 2) = {c - 1 + f}
        /\ HeaderEnd(b, min, 3) = {e - 1 + f}
    BY <1>5, <1>6, Zenon
  <2> HIDE DEF v, min
  <2>4. v[1] = s + f + 2 /\ v[2] = c - 1 + f /\ v[3] = e - 1 + f
    BY <2>1, <2>2, <2>3, Zenon
  <2>5. s + f + 2 \in Int /\ c - 1 + f \in Int /\ e - 1 + f \in Int
    OBVIOUS
  <2> QED
    BY <2>4, <2>5, Zenon
<1>8. r = [done |-> TRUE,
           stdout |-> StripNewline(SubSeq(b, 1, StartOf(b, x) - 1)),
           exitCode |-> SubSeq(b, u1 + 1, u2 - 1),
           cwd |-> SubSeq(b, u2 + 1, u3 - 1),
           stderr |-> SubSeq(b, u3 + 1, x - 1)]
  <2>1. r = [done |-> TRUE,
             stdout |-> StripNewline(SubSeq(b, 1, StartOf(b, min) - 1)),
             exitCode |-> SubSeq(b, v[1] + 1, v[2] - 1),
             cwd |-> SubSeq(b, v[2] + 1, v[3] - 1),
             stderr |-> SubSeq(b, v[3] + 1, min - 1)]
    BY DEF Parse
  <2>2. min = x
    BY <1>5
  <2> HIDE DEF r, v, min
  <2> QED
    BY <1>7, <2>1, <2>2, Zenon
<1> HIDE DEF v, min
<1> HIDE DEF r
<1>9. /\ r.done /\ r.stdout = StripNewline(SubSeq(b, 1, StartOf(b, x) - 1))
      /\ r.exitCode = SubSeq(b, u1 + 1, u2 - 1)
      /\ r.cwd = SubSeq(b, u2 + 1, u3 - 1)
      /\ r.stderr = SubSeq(b, u3 + 1, x - 1)
  BY <1>8
<1>10. r.exitCode = Positions(CwdAt - sizes.rc - 1, CwdAt - 2)
  <2>1. PICK y \in Nat, z \in Nat : y = s + 3 /\ z = c - 2
    BY <1>2
  <2>2. s <= y /\ y <= z /\ z < e /\ z <= t
    BY <1>2, <1>3, <2>1
  <2>3. StartAt <= y /\ z < ErrAt
    BY <1>2, <2>2, Zenon
  <2>4. SubSeq(b, y + Shift(n), z + Shift(n)) = Positions(y, z)
    BY <2>2, <2>3, HeaderPart
  <2>5. u1 + 1 = y + f /\ u2 - 1 = z + f
    BY <1>7, <2>1
  <2>6. CwdAt - sizes.rc - 1 = y /\ CwdAt - 2 = z
    <3>1. PICK a \in Nat : a = sizes.rc
      <4>1. sizes.rc \in 1..2
        BY DEF StreamInv, MaxDigits
      <4> QED
        BY <4>1
    <3>a. c = s + 4 + a
      BY <1>2, <3>1, Places, Zenon
    <3>b. c - a - 1 = y
      BY <2>1, <3>a
    <3>2. c - sizes.rc - 1 = y
      BY <3>1, <3>b, Zenon
    <3> QED
      BY <1>2, <2>1, <3>2, Zenon
  <2> QED
    BY <1>2, <1>9, <2>4, <2>5, <2>6, Zenon
<1>11. r.cwd = Positions(CwdAt, ErrAt - 2)
  <2>1. PICK z \in Nat : z = e - 2
    BY <1>2
  <2>2. s <= c /\ c <= z /\ z < e /\ z <= t
    BY <1>2, <1>3, <2>1
  <2>3. StartAt <= c /\ z < ErrAt
    BY <1>2, <2>2, Zenon
  <2>4. SubSeq(b, c + Shift(n), z + Shift(n)) = Positions(c, z)
    BY <2>2, <2>3, HeaderPart
  <2>5. u2 + 1 = c + f /\ u3 - 1 = z + f
    BY <1>7, <2>1
  <2> QED
    BY <1>2, <1>9, <2>1, <2>4, <2>5, Zenon
<1>12. Shortened(r.stderr, ErrAt, EndAt - 1, m, k, 1)
  <2>1. Shortened(SubSeq(b, ErrAt + Shift(n), EndAt - 1 + Shift(n) + Shift(m)), ErrAt, EndAt - 1, m, k, 1)
    BY ErrPart
  <2>2. u3 + 1 = e + f /\ x - 1 = d - 1 + f + g
    BY <1>4, <1>7
  <2>3. r.stderr = SubSeq(b, ErrAt + Shift(n), EndAt - 1 + Shift(n) + Shift(m))
    BY <1>2, <1>9, <2>2, Zenon
  <2> QED
    BY <2>1, <2>3, Zenon
<1>13. Shortened(Append(r.stdout, StartAt - 1), 1, StartAt - 1, n, Half, 5)
  <2>1. PICK q \in Nat, j \in Nat : q = s - 1 /\ j = s + f - 1 /\ j = q + f /\ 1 <= q /\ 0 < j
    <3>1. 2 <= s
      BY <1>2, Places, Zenon
    <3>2. PICK q \in Nat : q = s - 1 /\ 1 <= q
      BY <3>1
    <3>3. PICK j \in Nat : j = s + f - 1 /\ j = q + f /\ 0 < j
      BY <1>2, <3>2
    <3> QED
      BY <3>2, <3>3, Zenon
  <2>2. /\ q + Shift(n) \in Nat /\ q + Shift(n) <= Len(b)
        /\ Shortened(SubSeq(b, 1, q + Shift(n)), 1, q, n, Half, 5)
    <3>1. q <= StartAt /\ q <= t
      BY <1>2, <1>3, <2>1
    <3>2. n > 0 => 2 * Half + n <= q + 5
      <4>1. n > 0 => 2 * Half + n <= StartAt + 4
        BY Room DEF Mapped, Gaps
      <4>2. s + 4 = q + 5
        BY <2>1
      <4> QED
        BY <1>2, <4>1, <4>2, Zenon
    <3> QED
      BY <3>1, <3>2, Prefix
  <2> DEFINE z == SubSeq(b, 1, j)
  <2>3. b[j] = q
    <3>1. StartAt - 1 <= q /\ q < ErrAt /\ q <= t
      BY <1>2, <1>3, <2>1
    <3>2. b[q + Shift(n)] = q
      BY <3>1, HeaderStands
    <3> QED
      BY <1>2, <2>1, <3>2, Zenon
  <2>4. z \in Seq(Nat) /\ Len(z) = j /\ z[j] = q
    <3>1. b \in Seq(Nat)
      <4>1. b \in Seq(0..t)
        BY DEF Mapped, Buffer
      <4> QED
        BY <1>3, <4>1
    <3>2. 1 \in Nat /\ 1 <= 1 /\ j <= Len(b) /\ 1 <= j + 1
      <4>1. j <= Len(b)
        BY <1>2, <2>1, <2>2, Zenon
      <4> QED
        BY <4>1
    <3>3. /\ z \in Seq(Nat) /\ Len(z) = j - 1 + 1
          /\ \A i \in 1..(j - 1 + 1) : z[i] = b[1 + i - 1]
      BY <3>1, <3>2, Sliced
    <3>4. j \in 1..(j - 1 + 1) /\ 1 + j - 1 = j /\ j - 1 + 1 = j
      BY <2>1
    <3> HIDE DEF z
    <3>5. z[j] = b[1 + j - 1]
      BY <3>3, <3>4
    <3> QED
      BY <2>3, <3>3, <3>4, <3>5, Zenon
  <2> HIDE DEF z
  <2>5. Kind(z[j]) = "nl"
    <3>1. q # 0 /\ stream[q] = "nl"
      BY <1>2, <2>1 DEF StreamInv
    <3> QED
      BY <2>4, <3>1, Zenon DEF Kind
  <2>6. Append(StripNewline(z), q) = z
    BY <2>1, <2>4, <2>5, Stripped
  <2>7. r.stdout = StripNewline(z)
    <3>a. StartOf(b, x) - 1 = j
      BY <1>6, <2>1
    <3>1. SubSeq(b, 1, StartOf(b, x) - 1) = z
      BY <3>a, Zenon DEF z
    <3> QED
      BY <1>9, <3>1, Zenon
  <2>8. Append(r.stdout, StartAt - 1) = z
    BY <1>2, <2>1, <2>6, <2>7, Zenon
  <2>9. Shortened(z, 1, StartAt - 1, n, Half, 5)
    BY <1>2, <2>1, <2>2, Zenon DEF z
  <2> QED
    BY <2>8, <2>9, Zenon
<1>14. m > 0 => k >= Cap \div 4
  BY DEF Mapped, Gaps
<1> QED
  BY <1>9, <1>10, <1>11, <1>12, <1>13, <1>14, Zenon DEF Exact, r
-----------------------------------------------------------------------------
(* The inductive invariant and what follows from it. *)

\* The state of a command that is not done, in rigid numbers.
Content(b, t, n, m, k, s, e) ==
  /\ Mapped(b, t, t, n, m, k) /\ t <= EndAt
  /\ s = IF t < CwdAt - 1 THEN 0 ELSE StartAt + Shift(n)
  /\ e = IF t < ErrAt - 1 THEN 0 ELSE ErrAt + Shift(n)
  /\ ShareOf(k, n, t)
  /\ Len(b) <= Max({2 * Cap, Limit})

\* The lengths of the markers, the first byte of each not counted.
LEMMA MarkerLens == Len(StartMarker) - 1 + HDR = 5 /\ Len(EndMarker) - 1 = 1 /\ HDR = 4
BY DEF StartMarker, EndMarker, HDR, MaxDigits

\* The invariant gives those numbers.
LEMMA ContentNow ==
  ASSUME AccInv, ContentInv, ~result.done
  PROVE  /\ Content(buf, taken, elided, errElided, errKeep, start, stderrAt)
         /\ Tracks(taken, elided, errElided)
<1>1. /\ StreamInv /\ Layout(buf, taken, elided, errElided, errKeep)
      /\ Gaps(taken, elided, errElided, errKeep) /\ TrailerInv /\ ShareInv /\ Bounded
  BY DEF ContentInv
<1>2. /\ Buffer(buf, taken) /\ elided \in Nat /\ errElided \in Nat /\ errKeep \in {NoKeep} \cup Nat
      /\ taken \in Nat
  <2>1. stream \in Seq(Kinds) /\ taken \in 0..Len(stream)
    BY DEF AccInv
  <2>2. taken \in Nat
    BY <2>1
  <2> QED
    BY <2>2 DEF AccInv, Held
<1>3. /\ taken <= EndAt /\ scanned = Len(buf)
      /\ start = IF taken < CwdAt - 1 THEN 0 ELSE StartAt + Shift(elided)
      /\ stderrAt = IF taken < ErrAt - 1 THEN 0 ELSE ErrAt + Shift(elided)
  BY <1>1 DEF TrailerInv
<1>4. EndAt \in Nat /\ ErrAt \in Nat
  BY <1>1, Places
<1>5. taken <= EndAt + 2 /\ taken <= taken
  BY <1>2, <1>3, <1>4
<1>6. Mapped(buf, taken, taken, elided, errElided, errKeep)
  BY <1>1, <1>2, <1>3, <1>5, Zenon DEF Mapped
<1>7. ShareOf(errKeep, elided, taken)
  <2> SUFFICES ASSUME errKeep # NoKeep
               PROVE  /\ ErrAt - 1 <= taken /\ errKeep >= Cap \div 4
                      /\ StartAt - 1 + Shift(elided) - 2 * Half <= SepLen(elided)
                      /\ errKeep = Cap \div 4 \/ Before(elided) + 2 * errKeep <= Cap
    BY Zenon DEF ShareOf
  <2>1. ErrAt - 1 <= taken
    <3>1. stderrAt # 0
      BY <1>1 DEF ShareInv
    <3>2. ~(taken < ErrAt - 1)
      BY <1>3, <3>1, Zenon
    <3> QED
      BY <1>2, <1>4, <3>2
  <2> QED
    BY <1>1, <2>1, Zenon DEF ShareInv
<1>8. Len(buf) <= Max({2 * Cap, Limit})
  BY <1>1, Zenon DEF Bounded, Limit
<1>9. Tracks(taken, elided, errElided)
  <2>1. Len(buf) = taken + Shift(elided) + Shift(errElided)
    BY <1>1, Zenon DEF Layout
  <2> QED
    BY <1>3, <2>1, Zenon DEF Tracks
<1> QED
  BY <1>3, <1>6, <1>7, <1>8, <1>9, Zenon DEF Content

\* The places in the stream do not move.
LEMMA Unmoved ==
  ASSUME sizes' = sizes
  PROVE  StartAt' = StartAt /\ CwdAt' = CwdAt /\ ErrAt' = ErrAt /\ EndAt' = EndAt
BY DEF StartAt, CwdAt, ErrAt, EndAt

\* Nor does what it looks like.
LEMMA StreamUnmoved ==
  ASSUME StreamInv, sizes' = sizes, stream' = stream
  PROVE  StreamInv'
<1>1. StartAt' = StartAt /\ CwdAt' = CwdAt /\ ErrAt' = ErrAt /\ EndAt' = EndAt
  BY Unmoved
<1> QED
  BY <1>1 DEF StreamInv

\* A step to such a state keeps the invariant.
LEMMA StillHeld ==
  ASSUME StreamInv, sizes' = sizes, stream' = stream, ~result'.done,
         NEW b, NEW t, NEW n, NEW m, NEW k, NEW s, NEW e, Content(b, t, n, m, k, s, e),
         buf' = b, taken' = t, elided' = n, errElided' = m, errKeep' = k,
         start' = s, stderrAt' = e, scanned' = Len(b)
  PROVE  ContentInv'
<1>1. StartAt' = StartAt /\ CwdAt' = CwdAt /\ ErrAt' = ErrAt /\ EndAt' = EndAt
  BY Unmoved
<1>2. StreamInv'
  BY StreamUnmoved
<1>3. /\ Mapped(b, t, t, n, m, k) /\ t <= EndAt
      /\ s = IF t < CwdAt - 1 THEN 0 ELSE StartAt + Shift(n)
      /\ e = IF t < ErrAt - 1 THEN 0 ELSE ErrAt + Shift(n)
      /\ ShareOf(k, n, t) /\ Len(b) <= Max({2 * Cap, Limit})
  BY DEF Content
<1>4. /\ Layout(b, t, n, m, k) /\ Gaps(t, n, m, k) /\ t \in Nat /\ n \in Nat
  BY <1>3 DEF Mapped
<1>5. \A x : Before(x)' = Before(x)
  BY <1>1 DEF Before, Shift
<1>6. Layout(buf, taken, elided, errElided, errKeep)'
  <2>1. Len(b) = t + Shift(n) + Shift(m) /\ \A i \in 1..Len(b) : b[i] = Byte(i, n, m, Before(n) + k)
    BY <1>4 DEF Layout
  <2> QED
    BY <1>1, <2>1 DEF Layout, Before
<1>7. Gaps(taken, elided, errElided, errKeep)'
  BY <1>1, <1>4 DEF Gaps, Before
<1>8. TrailerInv'
  BY <1>1, <1>3 DEF TrailerInv
<1>9. ShareInv'
  <2>1. EndAt \in Nat /\ ErrAt \in Nat /\ StartAt \in Nat /\ 8 <= ErrAt
    BY Places
  <2>2. k # NoKeep => stderrAt' # 0
    <3> SUFFICES ASSUME k # NoKeep PROVE e # 0
      OBVIOUS
    <3>1. ErrAt - 1 <= t
      BY <1>3, Zenon DEF ShareOf
    <3>2. e = ErrAt + Shift(n)
      BY <1>3, <1>4, <2>1, <3>1
    <3>3. PICK s0, c0, e0, d0 \in Nat, f, g \in Int : TrailerAt(s0, c0, e0, d0, f, g, n, m)
      BY <1>3, Trailer
    <3>4. e0 = ErrAt /\ f = Shift(n) /\ e0 + f # 0
      <4>1. /\ e0 = ErrAt /\ f = Shift(n) /\ 2 <= s0 + f /\ s0 + 5 <= c0 /\ c0 + 2 <= e0
        BY <3>3, Zenon DEF TrailerAt
      <4>2. e0 + f # 0
        BY <4>1
      <4> QED
        BY <4>1, <4>2
    <3> QED
      BY <3>2, <3>4, Zenon
  <2>3. k # NoKeep => /\ k >= Cap \div 4
                      /\ StartAt - 1 + Shift(n) - 2 * Half <= SepLen(n)
                      /\ k = Cap \div 4 \/ Before(n) + 2 * k <= Cap
    BY <1>3 DEF ShareOf
  <2> QED
    BY <1>1, <2>2, <2>3 DEF ShareInv, Before
<1>10. Bounded'
  BY <1>1, <1>3 DEF Bounded, Limit
<1>11. ResultExact'
  BY DEF ResultExact
<1> QED
  BY <1>2, <1>6, <1>7, <1>8, <1>9, <1>10, <1>11, Zenon DEF ContentInv

\* A step to an exact result keeps the invariant.
LEMMA StillExact ==
  ASSUME StreamInv, sizes' = sizes, stream' = stream, result'.done,
         NEW r, NEW n, NEW m, NEW k, Exact(r, n, m, k),
         result' = r, elided' = n, errElided' = m, errKeep' = k
  PROVE  ContentInv'
<1>1. StartAt' = StartAt /\ CwdAt' = CwdAt /\ ErrAt' = ErrAt /\ EndAt' = EndAt
  BY Unmoved
<1>2. StreamInv'
  BY StreamUnmoved
<1>3. /\ r.exitCode = Positions(CwdAt - sizes.rc - 1, CwdAt - 2)
      /\ r.cwd = Positions(CwdAt, ErrAt - 2)
      /\ Shortened(Append(r.stdout, StartAt - 1), 1, StartAt - 1, n, Half, 5)
      /\ Shortened(r.stderr, ErrAt, EndAt - 1, m, k, 1)
      /\ m > 0 => k >= Cap \div 4
  BY DEF Exact
<1>4. ResultExact'
  <2>1. StdoutShortened(Append(r.stdout, StartAt - 1), StartAt - 1)'
    BY <1>1, <1>3, MarkerLens, Zenon DEF StdoutShortened, Half
  <2>2. Shortened(result.stderr, ErrAt, EndAt - 1, errElided, errKeep, Len(EndMarker) - 1)'
    BY <1>1, <1>3, MarkerLens, Zenon
  <2> QED
    BY <1>1, <1>3, <2>1, <2>2, Zenon DEF ResultExact
<1> QED
  BY <1>2, <1>4, Zenon DEF ContentInv

\* A chunk that does not complete the trailer leaves such a state.
LEMMA Pushed ==
  ASSUME StreamInv, Content(buf, taken, elided, errElided, errKeep, start, stderrAt),
         Tracks(taken, elided, errElided), NEW b, NEW t, t <= EndAt, taken <= t,
         Mapped(b, t, taken, elided, errElided, errKeep),
         NEW s, s = TrackStart(b), NEW e, e = TrackStderr(b, s),
         NEW c, c = IF Len(b) > 2 * Cap THEN Compacted(b, s, e)
                    ELSE [buf |-> b, elided |-> elided, start |-> s,
                          stderrAt |-> e, errElided |-> errElided, errKeep |-> errKeep]
  PROVE  Content(c.buf, t, c.elided, c.errElided, c.errKeep, c.start, c.stderrAt)
<1>1. s = IF t < CwdAt - 1 THEN 0 ELSE StartAt + Shift(elided)
  BY StartTracked
<1>2. e = IF t < ErrAt - 1 THEN 0 ELSE ErrAt + Shift(elided)
  BY StderrTracked
<1>3. Mapped(b, t, t, elided, errElided, errKeep)
  BY MappedLater
<1>4. t \in Nat /\ taken \in Nat /\ ErrAt \in Nat /\ CwdAt \in Nat /\ CwdAt + 2 <= ErrAt
  BY <1>3, Places DEF Mapped, Content
<1>5. ShareOf(errKeep, elided, t)
  <2> SUFFICES ASSUME errKeep # NoKeep PROVE ErrAt - 1 <= t
    BY Zenon DEF ShareOf, Content
  <2>1. ErrAt - 1 <= taken
    BY Zenon DEF ShareOf, Content
  <2> QED
    BY <1>4, <2>1
<1>6. 2 * Cap <= Max({2 * Cap, Limit}) /\ Limit <= Max({2 * Cap, Limit}) /\ Max({2 * Cap, Limit}) \in Int /\ Limit \in Int
  <2>1. 2 * Cap \in Int
    BY Room
  <2>2. Limit \in Int
    <3>1. PICK cap \in Nat, half \in Int : cap = Cap /\ half = Cap \div 2
      BY Room
    <3>2. PICK w \in Nat, x \in Nat, y \in Nat : w = SepLen(Len(stream)) /\ x = ErrAt /\ y = StartAt
      BY <1>3, Places, Limited
    <3>3. cap + half + 2 * w + x - y + 1 \in Int
      OBVIOUS
    <3> QED
      BY <3>1, <3>2, <3>3, Zenon DEF Limit
  <2>3. \A x, y \in Int : Max({x, y}) \in {x, y} /\ x <= Max({x, y}) /\ y <= Max({x, y})
    BY MaxPair
  <2>4. PICK x \in Int, y \in Int : x = 2 * Cap /\ y = Limit
    BY <2>1, <2>2
  <2>5. x <= Max({x, y}) /\ y <= Max({x, y}) /\ Max({x, y}) \in Int
    BY <2>3
  <2> QED
    BY <2>4, <2>5, Zenon
<1>7. Len(b) \in Nat
  BY DEF Mapped, Buffer
<1>8. CASE Len(b) > 2 * Cap
  <2>1. c = Compacted(b, s, e)
    BY <1>8, Zenon
  <2>2. Compact(c, t)
    <3>1. CASE t < ErrAt - 1
      <4>1. e = 0
        BY <1>2, <3>1, Zenon
      <4>2. Compact(Compacted(b, s, 0), t)
        BY <1>1, <1>3, <1>5, <3>1, CompactedEarly
      <4> QED
        BY <2>1, <4>1, <4>2, Zenon
    <3>2. CASE ~(t < ErrAt - 1)
      <4>1. ErrAt - 1 <= t /\ ~(t < CwdAt - 1)
        BY <1>4, <3>2
      <4>2. s = StartAt + Shift(elided) /\ e = ErrAt + Shift(elided)
        BY <1>1, <1>2, <3>2, <4>1, Zenon
      <4>3. Compact(Compacted(b, StartAt + Shift(elided), ErrAt + Shift(elided)), t)
        BY <1>3, <1>5, <4>1, CompactedLate
      <4> QED
        BY <2>1, <4>2, <4>3, Zenon
    <3> QED
      BY <3>1, <3>2
  <2>3. Len(c.buf) <= Max({2 * Cap, Limit})
    <3>1. PICK x \in Nat : x = Len(c.buf)
      BY <2>2 DEF Compact, Mapped, Buffer
    <3>2. x <= Limit
      BY <2>2, <3>1, Zenon DEF Compact
    <3> QED
      BY <1>6, <3>1, <3>2
  <2> QED
    BY <2>2, <2>3, Zenon DEF Compact, Content
<1>9. CASE ~(Len(b) > 2 * Cap)
  <2>1. /\ c.buf = b /\ c.elided = elided /\ c.start = s
        /\ c.stderrAt = e /\ c.errElided = errElided /\ c.errKeep = errKeep
    BY <1>9
  <2>2. Len(b) <= Max({2 * Cap, Limit})
    <3>1. Len(b) <= 2 * Cap
      BY <1>7, <1>9, Room
    <3> QED
      BY <1>6, <1>7, <3>1, Room
  <2> QED
    BY <1>1, <1>2, <1>3, <1>5, <2>1, <2>2, Zenon DEF Content
<1> QED
  BY <1>8, <1>9

\* Every push keeps the contents in place.
LEMMA NextContent == AccInv /\ ContentInv /\ [Next]_vars => ContentInv'
<1> SUFFICES ASSUME AccInv, ContentInv, [Next]_vars PROVE ContentInv'
  OBVIOUS
<1>1. StreamInv
  BY DEF ContentInv
<1>2. CASE UNCHANGED vars
  <2>1. /\ stream' = stream /\ sizes' = sizes /\ taken' = taken /\ buf' = buf /\ scanned' = scanned
        /\ elided' = elided /\ start' = start /\ stderrAt' = stderrAt /\ errElided' = errElided
        /\ errKeep' = errKeep /\ result' = result
    BY <1>2 DEF vars, acc
  <2>2. CASE ~result.done
    <3>1. Content(buf, taken, elided, errElided, errKeep, start, stderrAt)
      BY <2>2, ContentNow
    <3>2. scanned = Len(buf)
      BY <2>2 DEF ContentInv, TrailerInv
    <3>3. ~result'.done /\ scanned' = Len(buf)
      BY <2>1, <2>2, <3>2
    <3> QED
      BY <1>1, <2>1, <3>1, <3>3, StillHeld
  <2>3. CASE result.done
    <3>1. ResultExact
      BY DEF ContentInv
    <3>2. Exact(result, elided, errElided, errKeep)
      <4>1. Shortened(Append(result.stdout, StartAt - 1), 1, StartAt - 1, elided, Half, 5)
        BY <2>3, <3>1, MarkerLens, Zenon DEF ResultExact, StdoutShortened, Half
      <4>2. Shortened(result.stderr, ErrAt, EndAt - 1, errElided, errKeep, 1)
        BY <2>3, <3>1, MarkerLens, Zenon DEF ResultExact
      <4> QED
        BY <2>3, <3>1, <4>1, <4>2, Zenon DEF ResultExact, Exact
    <3>3. result'.done
      BY <2>1, <2>3
    <3> QED
      BY <1>1, <2>1, <3>2, <3>3, StillExact
  <2> QED
    BY <2>2, <2>3
<1>3. CASE Next
  <2>1. PICK x \in 1..MaxChunk : taken + x <= Len(stream) /\ Push(x)
    BY <1>3 DEF Next
  <2> DEFINE b == buf \o [i \in 1..x |-> taken + i]
  <2>2. ~result.done /\ taken' = taken + x /\ (PushLast(b) \/ PushMore(b)) /\ stream' = stream /\ sizes' = sizes
    BY <2>1 DEF Push
  <2> HIDE DEF b
  <2>3. /\ Content(buf, taken, elided, errElided, errKeep, start, stderrAt)
        /\ Tracks(taken, elided, errElided)
    BY <2>2, ContentNow
  <2>4. x \in Nat /\ taken \in Nat /\ EndAt \in Nat
    BY <1>1, <2>1, <2>3, CapAssumption, Places DEF Content, Mapped
  <2>5. PICK t \in Nat : t = taken + x /\ taken <= t
    BY <2>4
  <2>6. Mapped(b, t, taken, elided, errElided, errKeep)
    <3>1. Mapped(buf, taken, taken, elided, errElided, errKeep)
      BY <2>3 DEF Content
    <3>2. Mapped(buf \o [i \in 1..x |-> taken + i], taken + x, taken, elided, errElided, errKeep)
      BY <1>1, <2>1, <2>4, <3>1, Appended
    <3> QED
      BY <2>5, <3>2, Zenon DEF b
  <2>7. Complete(b) <=> EndAt + 1 <= t
    BY <1>1, <2>3, <2>6, CompleteAt
  <2>8. CASE PushLast(b)
    <3>1. /\ Complete(b) /\ result' = Parse(b) /\ elided' = elided /\ errElided' = errElided
          /\ errKeep' = errKeep
      BY <2>8 DEF PushLast
    <3>2. Exact(Parse(b), elided, errElided, errKeep) /\ Parse(b).done
      BY <1>1, <2>6, <2>7, <3>1, ParsedExact
    <3>3. result'.done
      BY <3>1, <3>2
    <3> QED
      BY <1>1, <2>2, <3>1, <3>2, <3>3, StillExact
  <2>9. CASE PushMore(b)
    <3> DEFINE s == TrackStart(b)
               e == TrackStderr(b, s)
               c == IF Len(b) > 2 * Cap THEN Compacted(b, s, e)
                    ELSE [buf |-> b, elided |-> elided, start |-> s,
                          stderrAt |-> e, errElided |-> errElided, errKeep |-> errKeep]
    <3>1. /\ ~Complete(b)
          /\ buf' = c.buf /\ elided' = c.elided
          /\ start' = c.start /\ stderrAt' = c.stderrAt
          /\ errElided' = c.errElided /\ errKeep' = c.errKeep
          /\ scanned' = Len(c.buf) /\ result' = result
      BY <2>9 DEF PushMore
    <3>2. t <= EndAt
      BY <2>4, <2>7, <3>1
    <3>3. Content(c.buf, t, c.elided, c.errElided, c.errKeep, c.start, c.stderrAt)
      BY <1>1, <2>3, <2>5, <2>6, <3>2, Pushed
    <3> HIDE DEF s, e, c
    <3>4. ~result'.done /\ taken' = t
      BY <2>2, <2>5, <3>1
    <3> QED
      BY <1>1, <2>2, <3>1, <3>3, <3>4, StillHeld
  <2> QED
    BY <2>2, <2>8, <2>9
<1> QED
  BY <1>2, <1>3

\* The contents are in place in every reachable state.
LEMMA ContentInvHolds == Spec => []ContentInv
BY ContentInit, NextContent, AccInvHolds, PTL DEF Spec

\* What partial_stdout returns, in a state with that content.
LEMMA PartialNow ==
  ASSUME StreamInv, sizes.echo = 0, NEW b, NEW t, NEW n, NEW m, NEW k, NEW s, NEW e,
         Content(b, t, n, m, k, s, e), NEW f \in Int, f = StartAt + Shift(n)
  PROVE  /\ StartAt + 1 <= t =>
              /\ s # 0 => s = f
              /\ Occurrences(b, StartMarker) = {f}
              /\ Shortened(SubSeq(b, 1, f - 1), 1, StartAt - 1, n, Half, 5)
         /\ t < StartAt + 1 =>
              /\ s = 0 /\ Occurrences(b, StartMarker) = {}
              /\ Shortened(b, 1, t, n, Half, 5)
<1>1. /\ Mapped(b, t, t, n, m, k) /\ t <= EndAt
      /\ s = IF t < CwdAt - 1 THEN 0 ELSE StartAt + Shift(n)
  BY DEF Content
<1>2. /\ b \in Seq(0..t) /\ t \in Nat /\ n \in Nat /\ m \in Nat /\ k \in {NoKeep} \cup Nat
      /\ Layout(b, t, n, m, k) /\ Gaps(t, n, m, k)
  BY <1>1 DEF Mapped, Buffer
<1>3. PICK a \in Nat, c \in Nat : a = StartAt /\ c = CwdAt /\ 2 <= a /\ a + 5 <= c /\ c + 2 <= ErrAt
  BY Places
<1>4. n > 0 => 2 * Half + n <= t /\ 2 * Half + n <= a + 4
  BY <1>2, <1>3, Room DEF Gaps
<1>5. Half \in Nat
  BY Room
<1>6. f = a + Shift(n) /\ Shift(n) \in Int
  BY <1>2, <1>3, SepLenNat DEF Shift
<1>7. /\ a + 1 <= t => f \in Occurrences(b, StartMarker)
      /\ \A i \in Occurrences(b, StartMarker) : i = f /\ a + 1 <= t
  BY <1>1, <1>3, <1>6, StartSeen
<1>8. ASSUME a + 1 <= t
      PROVE  /\ s # 0 => s = f
             /\ Occurrences(b, StartMarker) = {f}
             /\ Shortened(SubSeq(b, 1, f - 1), 1, a - 1, n, Half, 5)
  <2>1. s # 0 => s = f
    BY <1>1, <1>3, <1>6
  <2>2. Occurrences(b, StartMarker) = {f}
    BY <1>7, <1>8
  <2>3. PICK q \in Nat : q = a - 1 /\ q <= StartAt /\ q <= t /\ (n > 0 => 2 * Half + n <= q + 5)
    BY <1>2, <1>3, <1>4, <1>5, <1>8
  <2>4. Shortened(SubSeq(b, 1, q + Shift(n)), 1, q, n, Half, 5)
    BY <1>1, <2>3, Prefix
  <2>5. q + Shift(n) = f - 1 /\ q = a - 1
    BY <1>6, <2>3
  <2>6. Shortened(SubSeq(b, 1, f - 1), 1, a - 1, n, Half, 5)
    BY <2>4, <2>5, Zenon
  <2> QED
    BY <2>1, <2>2, <2>6
<1>9. ASSUME t < a + 1
      PROVE  s = 0 /\ Occurrences(b, StartMarker) = {} /\ Shortened(b, 1, t, n, Half, 5)
  <2>1. s = 0
    BY <1>1, <1>2, <1>3, <1>9
  <2>2. Occurrences(b, StartMarker) = {}
    BY <1>2, <1>7, <1>9
  <2>3. t <= StartAt /\ t <= t /\ (n > 0 => 2 * Half + n <= t + 5)
    BY <1>2, <1>3, <1>4, <1>5, <1>9
  <2>4. Shortened(SubSeq(b, 1, t + Shift(n)), 1, t, n, Half, 5)
    BY <1>1, <1>2, <2>3, Prefix
  <2>5. m = 0
    <3>1. m > 0 => Before(0) + 2 * k + m <= t /\ k >= Cap \div 4
      BY <1>2 DEF Gaps
    <3>2. Before(0) = ErrAt - 1
      BY SepLenZero, Places DEF Before
    <3>3. k \in Int /\ ErrAt \in Nat /\ Cap \div 4 \in Nat
      BY <1>2, Room, Places DEF NoKeep
    <3> QED
      BY <1>2, <1>3, <1>9, <3>1, <3>2, <3>3
  <2>6. Len(b) = t + Shift(n)
    <3>1. Len(b) = t + Shift(n) + Shift(m) /\ Shift(m) = 0
      BY <1>2, <2>5, SepLenZero DEF Layout
    <3> QED
      BY <1>2, <1>6, <3>1
  <2>7. SubSeq(b, 1, Len(b)) = b
    BY <1>2
  <2>8. Shortened(b, 1, t, n, Half, 5)
    BY <2>4, <2>6, <2>7, Zenon
  <2> QED
    BY <2>1, <2>2, <2>8
<1> QED
  BY <1>3, <1>8, <1>9, Zenon

\* interrupt: the partial output is the command's, without anything of the trailer.
LEMMA PartialNowExact ==
  ASSUME AccInv, ContentInv
  PROVE  PartialExact
<1> SUFFICES ASSUME ~result.done, sizes.echo = 0
             PROVE  StdoutShortened(PartialStdout,
                      IF taken < StartAt + Len(StartMarker) - 1 THEN taken ELSE StartAt - 1)
  BY DEF PartialExact
<1>1. StreamInv
  BY DEF ContentInv
<1>2. Content(buf, taken, elided, errElided, errKeep, start, stderrAt)
  BY ContentNow
<1>3. taken \in Nat /\ StartAt \in Nat /\ elided \in Nat
  BY <1>1, <1>2, Places DEF Content, Mapped
<1>4. PICK f \in Int : f = StartAt + Shift(elided)
  BY <1>3, SepLenNat DEF Shift
<1>5. Len(StartMarker) = 2
  BY DEF StartMarker
<1>6. StartAt + Len(StartMarker) - 1 = StartAt + 1
  BY <1>3, <1>5
<1>7. CASE StartAt + 1 <= taken
  <2>1. /\ start # 0 => start = f
        /\ Occurrences(buf, StartMarker) = {f}
        /\ Shortened(SubSeq(buf, 1, f - 1), 1, StartAt - 1, elided, Half, 5)
    BY <1>1, <1>2, <1>4, <1>7, PartialNow
  <2>2. Min({f}) = f
    <3>1. \A x, y \in {f} : x <= y
      BY <1>4
    <3> QED
      BY <3>1 DEF Min
  <2>3. PartialStdout = SubSeq(buf, 1, f - 1)
    BY <2>1, <2>2 DEF PartialStdout
  <2>4. ~(taken < StartAt + 1)
    BY <1>3, <1>7
  <2> QED
    BY <1>6, <2>1, <2>3, <2>4, MarkerLens, Zenon DEF StdoutShortened, Half
<1>8. CASE taken < StartAt + 1
  <2>1. start = 0 /\ Occurrences(buf, StartMarker) = {} /\ Shortened(buf, 1, taken, elided, Half, 5)
    BY <1>1, <1>2, <1>4, <1>8, PartialNow
  <2>2. PartialStdout = buf
    BY <2>1 DEF PartialStdout
  <2> QED
    BY <1>6, <1>8, <2>1, <2>2, MarkerLens, Zenon DEF StdoutShortened, Half
<1> QED
  BY <1>3, <1>7, <1>8

\* However the chunks are cut and whatever was compacted, a command whose trailer
\* is complete is done.
THEOREM TrailerFoundInTime == Spec => []FoundInTime
<1>1. AccInv /\ ContentInv => FoundInTime
  <2> SUFFICES ASSUME AccInv, ContentInv, ~result.done
               PROVE  taken < EndAt + Len(EndMarker) - 1
    BY DEF FoundInTime
  <2>1. taken <= EndAt /\ StreamInv
    BY DEF ContentInv, TrailerInv
  <2>2. EndAt \in Nat /\ taken \in Nat
    BY <2>1, Places DEF AccInv
  <2>3. Len(EndMarker) = 2
    BY DEF EndMarker
  <2> QED
    BY <2>1, <2>2, <2>3
<1> QED
  BY <1>1, AccInvHolds, ContentInvHolds, PTL

\* Every result is what the command printed, but for the middle that was elided.
THEOREM ResultsExact == Spec => []ResultExact
<1>1. ContentInv => ResultExact
  BY DEF ContentInv
<1> QED
  BY <1>1, ContentInvHolds, PTL

\* A buffer holds no more than about twice the cap.
THEOREM BufferBounded == Spec => []Bounded
<1>1. ContentInv => Bounded
  BY DEF ContentInv, Bounded
<1> QED
  BY <1>1, ContentInvHolds, PTL

\* The partial output of a command that timed out holds nothing of the trailer,
\* and is what the command printed, but for the middle that was elided.
THEOREM PartialsExact == Spec => []PartialExact
<1>1. AccInv /\ ContentInv => PartialExact
  BY PartialNowExact
<1> QED
  BY <1>1, AccInvHolds, ContentInvHolds, PTL
=============================================================================
