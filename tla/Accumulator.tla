----------------------------- MODULE Accumulator -----------------------------
(***************************************************************************)
(* framing::Accumulator (execkit/src/framing.rs): one command's raw output *)
(* arrives in chunks cut anywhere and is kept until the trailer is         *)
(* complete; a buffer past twice the cap is compacted around the trailer.  *)
(* The buffer holds positions of the stream, and 0 for a byte of an        *)
(* elision separator; the kind of a position is what stands there.         *)
(***************************************************************************)
EXTENDS Integers, Sequences, FiniteSets, FiniteSetsExt

CONSTANTS
  Cap,        \* Accumulator.cap
  OutSizes,   \* bytes of stdout a command may print
  ErrSizes,   \* bytes of stderr
  MaxChunk    \* bound of the model: bytes of one read of the transport

StartMarker == <<"start", "start2">>
EndMarker == <<"end", "end2">>
Kinds == {"start", "start2", "end", "end2", "us", "digit", "nl", "x"}
MaxDigits == 2            \* of an exit code (3 in the code)
HDR == MaxDigits + 2      \* longest US exit US

\* The code's caps are at least 65536: each half of a compacted zone holds more
\* than an unfinished marker.
ASSUME CapAssumption ==
  /\ Cap \in Nat /\ MaxChunk \in Nat \ {0}
  /\ OutSizes \subseteq Nat /\ ErrSizes \subseteq Nat
  /\ Cap \div 4 >= Len(EndMarker) - 1
  /\ Cap \div 2 >= Len(StartMarker) + HDR

VARIABLES
  stream,     \* kinds of the bytes the shell prints for the command
  sizes,      \* where the parts of that stream are
  taken,      \* bytes pushed so far
  buf,        \* Accumulator.buf
  scanned,    \* Accumulator.scanned
  elided,     \* Accumulator.elided
  start,      \* index of the trailer's start marker, or 0
  stderrAt,   \* index of the first byte of stderr, or 0
  errElided,  \* Accumulator.err_elided
  errKeep,    \* Accumulator.err_keep, or NoKeep
  result      \* what push returned, or NoResult

acc == <<buf, scanned, elided, start, stderrAt, errElided, errKeep>>
vars == <<stream, sizes, taken, acc, result>>

NoKeep == -1
NoResult == [done |-> FALSE]

Copies(n, kind) == [i \in 1..n |-> kind]

\* set -v: the shell prints the run line it reads, with both markers and the
\* text of the separators.
Echo == StartMarker \o <<"x">> \o EndMarker

\* Command's output and trailer; fill is what its bytes look like.
Output(echo, out, rc, cwd, err, fill) ==
  echo \o Copies(out, fill) \o <<"nl">> \o StartMarker
    \o <<"us">> \o Copies(rc, "digit") \o <<"us">> \o Copies(cwd, "x") \o <<"us">>
    \o Copies(err, fill) \o EndMarker \o <<"nl">>

Init ==
  /\ \E echo \in {<<>>, Echo}, out \in OutSizes, err \in ErrSizes,
        rc \in 1..MaxDigits, cwd \in 1..2, fill \in {"x", "us"} :
       /\ stream = Output(echo, out, rc, cwd, err, fill)
       /\ sizes = [echo |-> Len(echo), out |-> Len(echo) + out, rc |-> rc, cwd |-> cwd, err |-> err]
  /\ taken = 0 /\ buf = <<>> /\ scanned = 0
  /\ elided = 0 /\ start = 0 /\ stderrAt = 0
  /\ errElided = 0 /\ errKeep = NoKeep
  /\ result = NoResult
-----------------------------------------------------------------------------
Kind(p) == IF p = 0 THEN "sep" ELSE stream[p]

\* The indexes at which a marker occurs.
Occurrences(b, marker) ==
  {i \in 1..(Len(b) - Len(marker) + 1) :
     \A j \in 1..Len(marker) : Kind(b[i + j - 1]) = marker[j]}

\* The separators from index i up to index j, and the n-th of them if there is one.
Separators(b, i, j) == {k \in i..j : Kind(b[k]) = "us"}
NthSeparator(b, i, j, n) ==
  {k \in Separators(b, i, j) : Cardinality(Separators(b, i, k)) = n}

\* Mutant: the first start marker is trusted instead of the last.
StartOfFirst(b, e) == Min({s \in Occurrences(b, StartMarker) : s + Len(StartMarker) <= e})

\* The last start marker that ends before the end marker at index e.
StartBefore(b, e) == {s \in Occurrences(b, StartMarker) : s + Len(StartMarker) <= e}
StartOf(b, e) == Max(StartBefore(b, e))
HeaderEnd(b, e, n) == NthSeparator(b, StartOf(b, e) + Len(StartMarker), e - 1, n)

\* The end markers whose block validates.
ValidEnds(b) ==
  {e \in Occurrences(b, EndMarker) : StartBefore(b, e) # {} /\ HeaderEnd(b, e, 3) # {}}

StripNewline(b) ==
  IF b # <<>> /\ Kind(b[Len(b)]) = "nl" THEN SubSeq(b, 1, Len(b) - 1) ELSE b

Parse(b) ==
  LET e == Min(ValidEnds(b))
      u == [n \in 1..3 |-> CHOOSE k \in HeaderEnd(b, e, n) : TRUE]
  IN [done |-> TRUE,
      stdout |-> StripNewline(SubSeq(b, 1, StartOf(b, e) - 1)),
      exitCode |-> SubSeq(b, u[1] + 1, u[2] - 1),
      cwd |-> SubSeq(b, u[2] + 1, u[3] - 1),
      stderr |-> SubSeq(b, u[3] + 1, e - 1)]
-----------------------------------------------------------------------------
ValidHeader(b, i) ==
  \E n \in 1..MaxDigits :
    /\ i + n + 1 <= Len(b)
    /\ Kind(b[i]) = "us" /\ Kind(b[i + n + 1]) = "us"
    /\ \A j \in 1..n : Kind(b[i + j]) = "digit"

\* track_start: the first start marker with a valid header in the bytes not
\* searched yet, with an overlap for one that was not complete.
TrackStart(b) ==
  LET new == {i \in Occurrences(b, StartMarker) :
                /\ i > scanned - (Len(StartMarker) - 1 + HDR)
                /\ ValidHeader(b, i + Len(StartMarker))}
      first == {i \in new : \A j \in new : i <= j}
  IN IF start # 0 \/ first = {} THEN start ELSE CHOOSE i \in first : TRUE

\* track_start: stderr begins behind the third separator.
TrackStderr(b, s) ==
  LET third == NthSeparator(b, s + Len(StartMarker), Len(b), 3)
  IN IF stderrAt # 0 \/ s = 0 \/ third = {} THEN stderrAt ELSE (CHOOSE k \in third : TRUE) + 1

\* The separator names the count: its length grows with it.
SepLen(n) == IF n = 0 THEN 0 ELSE 1 + Cardinality({k \in 0..9 : 10^k <= n})

\* Mutant: the separator of the previous compaction is counted as output.
CompactRangeNaive(b, from, to, keep, n) ==
  LET cut == to - from - 2 * keep
      sum == n + cut
  IN IF cut <= SepLen(n)
     THEN [buf |-> b, to |-> to, elided |-> n]
     ELSE [buf |-> SubSeq(b, 1, from + keep) \o Copies(SepLen(sum), 0) \o SubSeq(b, to - keep + 1, Len(b)),
           to |-> to - cut + SepLen(sum),
           elided |-> sum]

\* compact_range of b[from+1..to]: first and last keep bytes stay; n bytes were
\* elided before, and their separator is right after the head.
CompactRange(b, from, to, keep, n) ==
  LET cut == to - from - 2 * keep
      sum == n + cut - SepLen(n)
  IN IF cut <= SepLen(n)
     THEN [buf |-> b, to |-> to, elided |-> n]
     ELSE [buf |-> SubSeq(b, 1, from + keep) \o Copies(SepLen(sum), 0) \o SubSeq(b, to - keep + 1, Len(b)),
           to |-> to - cut + SepLen(sum),
           elided |-> sum]

\* Mutant: compact forgets the trailer and treats the buffer as one zone.
CompactedOneZone(b, s, e) ==
  LET all == CompactRange(b, 0, Len(b), Cap \div 2, elided)
  IN [buf |-> all.buf, elided |-> all.elided, start |-> s,
      stderrAt |-> e, errElided |-> errElided, errKeep |-> errKeep]

\* Mutant: the tracked start marker keeps its old index.
CompactedStale(b, s, e) ==
  LET out == CompactRange(b, 0, IF s = 0 THEN Len(b) ELSE s - 1, Cap \div 2, elided)
  IN [buf |-> out.buf, elided |-> out.elided, start |-> s,
      stderrAt |-> e, errElided |-> errElided, errKeep |-> errKeep]

\* Mutant: what lies after the start marker is never compacted.
CompactedStdoutOnly(b, s, e) ==
  LET out == CompactRange(b, 0, IF s = 0 THEN Len(b) ELSE s - 1, Cap \div 2, elided)
  IN [buf |-> out.buf, elided |-> out.elided,
      start |-> IF s = 0 THEN 0 ELSE out.to + 1,
      stderrAt |-> IF e = 0 THEN 0 ELSE e - (s - 1) + out.to,
      errElided |-> errElided, errKeep |-> errKeep]

\* compact: one zone until the start marker is known, then stdout before it and,
\* once the header is complete, stderr behind it. The share of stderr is fixed the
\* first time.
Compacted(b, s, e) ==
  LET out == CompactRange(b, 0, IF s = 0 THEN Len(b) ELSE s - 1, Cap \div 2, elided)
      at == e - s + out.to       \* bytes before stderr
      room == IF Cap > at THEN (Cap - at) \div 2 ELSE 0
      keep == IF errKeep # NoKeep THEN errKeep ELSE Max({room, Cap \div 4})
      err == CompactRange(out.buf, at, Len(out.buf), keep, errElided)
  IN IF e = 0
     THEN [buf |-> out.buf, elided |-> out.elided, start |-> IF s = 0 THEN 0 ELSE out.to + 1,
           stderrAt |-> 0, errElided |-> errElided, errKeep |-> errKeep]
     ELSE [buf |-> err.buf, elided |-> out.elided, start |-> out.to + 1,
           stderrAt |-> at + 1, errElided |-> err.elided, errKeep |-> keep]

\* The buffer is parsed when an end marker is seen in the bytes not yet searched.
Complete(b) ==
  /\ \E i \in Occurrences(b, EndMarker) : i > scanned - (Len(EndMarker) - 1)
  /\ ValidEnds(b) # {}

\* A chunk with the rest of the trailer.
PushLast(b) ==
  /\ Complete(b)
  /\ result' = Parse(b)
  /\ buf' = b
  /\ UNCHANGED <<scanned, elided, start, stderrAt, errElided, errKeep>>

\* Any other chunk.
PushMore(b) ==
  LET s == TrackStart(b)
      e == TrackStderr(b, s)
      kept == IF Len(b) > 2 * Cap THEN Compacted(b, s, e)
              ELSE [buf |-> b, elided |-> elided, start |-> s,
                    stderrAt |-> e, errElided |-> errElided, errKeep |-> errKeep]
  IN /\ ~Complete(b)
     /\ buf' = kept.buf /\ elided' = kept.elided
     /\ start' = kept.start /\ stderrAt' = kept.stderrAt
     /\ errElided' = kept.errElided /\ errKeep' = kept.errKeep
     /\ scanned' = Len(kept.buf)
     /\ UNCHANGED result

Push(n) ==
  LET b == buf \o [i \in 1..n |-> taken + i]
  IN /\ ~result.done
     /\ taken' = taken + n
     /\ PushLast(b) \/ PushMore(b)
     /\ UNCHANGED <<stream, sizes>>

Next == \E n \in 1..MaxChunk : taken + n <= Len(stream) /\ Push(n)

Spec == Init /\ [][Next]_vars

\* Mutant: a marker whose header is not there yet is left in the output.
PartialStdoutTracked == IF start # 0 THEN SubSeq(buf, 1, start - 1) ELSE buf

\* partial_stdout: what a command that times out has printed.
PartialStdout ==
  LET seen == Occurrences(buf, StartMarker)
  IN IF start # 0 THEN SubSeq(buf, 1, start - 1)
     ELSE IF seen # {} THEN SubSeq(buf, 1, Min(seen) - 1)
     ELSE buf
-----------------------------------------------------------------------------
(***************************************************************************)
(* Properties.                                                             *)
(***************************************************************************)
StartAt == sizes.out + 2                                  \* in the stream
CwdAt == StartAt + Len(StartMarker) + sizes.rc + 2
ErrAt == CwdAt + sizes.cwd + 1
EndAt == ErrAt + sizes.err
Positions(from, to) == [i \in 1..(to - from + 1) |-> from + i - 1]

\* b is the stream from one position to another without n bytes of its middle,
\* which a separator replaces. Before it stand keep bytes, behind it as many, the
\* unfinished marker that was kept with them not counted.
Shortened(b, from, to, n, keep, marker) ==
  IF n = 0 THEN b = Positions(from, to)
  ELSE LET head == from + keep - 1
       IN /\ head + n + keep - marker <= to
          /\ b = Positions(from, head) \o Copies(SepLen(n), 0) \o Positions(head + n + 1, to)

StdoutShortened(b, to) ==
  Shortened(b, 1, to, elided, Cap \div 2, Len(StartMarker) - 1 + HDR)

\* The types of the variables; the tracked indexes lie in the buffer.
TypeOK ==
  /\ stream \in Seq(Kinds) /\ taken \in 0..Len(stream)
  /\ buf \in Seq(0..taken) /\ scanned \in 0..Len(buf)
  /\ elided \in Nat /\ errElided \in Nat
  /\ start \in 0..Len(buf) /\ stderrAt \in 0..(Len(buf) + 1)
  /\ stderrAt # 0 => start \in 1..(stderrAt - 1)
  /\ errKeep \in {NoKeep} \cup Nat
  /\ result.done \in BOOLEAN

\* run_framed_for waits for push: however the chunks are cut and whatever was
\* compacted, the result is returned with the last byte of the trailer.
FoundInTime == ~result.done => taken < EndAt + Len(EndMarker) - 1

\* Every field of a result is that of the command, although its output held the
\* echo of its own run line; stdout and stderr have lost at most the middle, as
\* many bytes as their separators say.
ResultExact ==
  result.done =>
    /\ result.exitCode = Positions(CwdAt - sizes.rc - 1, CwdAt - 2)
    /\ result.cwd = Positions(CwdAt, ErrAt - 2)
    /\ StdoutShortened(Append(result.stdout, StartAt - 1), StartAt - 1)
    /\ Shortened(result.stderr, ErrAt, EndAt - 1, errElided, errKeep, Len(EndMarker) - 1)
    /\ errElided > 0 => errKeep >= Cap \div 4

\* A command that floods either stream is held in about twice the cap.
Bounded ==
  ~result.done =>
    Len(buf) <= Max({2 * Cap, Cap + Cap \div 2 + 2 * SepLen(Len(stream)) + ErrAt - StartAt + 1})

\* Every byte pushed is in the buffer or counted as elided.
Counted ==
  taken = Len(buf) - SepLen(elided) - SepLen(errElided) + elided + errElided

\* interrupt returns the partial output of a command that timed out: from the
\* moment the start marker has arrived nothing of the trailer is in it, and the
\* output is whole or shortened. (A shell that echoes its input is left out: the
\* search then stops at the echo.)
PartialExact ==
  ~result.done /\ sizes.echo = 0 =>
    StdoutShortened(PartialStdout,
                    IF taken < StartAt + Len(StartMarker) - 1 THEN taken ELSE StartAt - 1)
-----------------------------------------------------------------------------
(***************************************************************************)
(* The inductive invariant: which byte of the stream stands where in the   *)
(* buffer, and what has been found of the trailer.                         *)
(***************************************************************************)
Half == Cap \div 2

\* How far the bytes behind a separator for n bytes have moved.
Shift(n) == SepLen(n) - n

\* The index of the last byte before stderr, n bytes of stdout being elided.
Before(n) == ErrAt - 1 + Shift(n)

\* What stands at index i: n bytes are elided behind the first Half, and m of
\* stderr behind index c.
Byte(i, n, m, c) ==
  IF i <= c
  THEN IF i <= Half THEN i ELSE IF i <= Half + SepLen(n) THEN 0 ELSE i - Shift(n)
  ELSE IF i <= c + SepLen(m) THEN 0 ELSE i - Shift(n) - Shift(m)

\* b holds the first t bytes of the stream, without those.
Layout(b, t, n, m, k) ==
  /\ Len(b) = t + Shift(n) + Shift(m)
  /\ \A i \in 1..Len(b) : b[i] = Byte(i, n, m, Before(n) + k)

\* As many bytes as were kept before a separator have been kept behind it; the
\* header of the trailer is whole.
Gaps(t, n, m, k) ==
  /\ n > 0 => 2 * Half + n <= t /\ 2 * Half + n <= StartAt + HDR
  /\ m > 0 => k >= Cap \div 4 /\ Before(0) + 2 * k + m <= t

\* What the trailer of the stream looks like, and the markers before it.
StreamInv ==
  /\ sizes.echo \in {0, Len(Echo)} /\ sizes.out \in Nat /\ sizes.echo <= sizes.out
  /\ sizes.rc \in 1..MaxDigits /\ sizes.cwd \in 1..2 /\ sizes.err \in Nat
  /\ stream \in Seq(Kinds) /\ Len(stream) = EndAt + 2
  /\ \A p \in 1..Len(stream) :
       /\ stream[p] = "start" => p = StartAt \/ (sizes.echo # 0 /\ p = 1)
       /\ stream[p] = "end" => p = EndAt \/ (sizes.echo # 0 /\ p = 4)
       /\ p \in (StartAt + 2)..(ErrAt - 1) =>
            stream[p] = IF p \in {StartAt + 2, CwdAt - 1, ErrAt - 1} THEN "us"
                        ELSE IF p < CwdAt THEN "digit" ELSE "x"
  /\ stream[StartAt - 1] = "nl"
  /\ stream[StartAt] = "start" /\ stream[StartAt + 1] = "start2"
  /\ stream[EndAt] = "end" /\ stream[EndAt + 1] = "end2"
  /\ sizes.echo # 0 => stream[3] = "x"

\* The markers are found as soon as they can be, and where they are.
TrailerInv ==
  /\ taken <= EndAt /\ scanned = Len(buf)
  /\ start = IF taken < CwdAt - 1 THEN 0 ELSE StartAt + Shift(elided)
  /\ stderrAt = IF taken < ErrAt - 1 THEN 0 ELSE ErrAt + Shift(elided)

\* Once stderr has its share, stdout is not compacted any more.
ShareInv ==
  errKeep # NoKeep =>
    /\ stderrAt # 0 /\ errKeep >= Cap \div 4
    /\ StartAt - 1 + Shift(elided) - 2 * Half <= SepLen(elided)
    /\ errKeep = Cap \div 4 \/ Before(elided) + 2 * errKeep <= Cap

ContentInv ==
  /\ StreamInv
  /\ ~result.done =>
       /\ Layout(buf, taken, elided, errElided, errKeep)
       /\ Gaps(taken, elided, errElided, errKeep)
       /\ TrailerInv /\ ShareInv /\ Bounded
  /\ ResultExact
=============================================================================
