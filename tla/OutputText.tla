----------------------------- MODULE OutputText -----------------------------
(***************************************************************************)
(* What happens to the text of a stream before a caller sees it: stripping *)
(* of escapes (execkit/src/output.rs), line budgets (execkit/src/          *)
(* budget.rs) and the tail of an interrupted command's stderr (session.rs).*)
(* A source is the sequence of symbols the command printed. A text is a    *)
(* sequence of positions of its source and of marks that execkit inserts.  *)
(***************************************************************************)
EXTENDS Integers, Sequences, SequencesExt, FiniteSetsExt

CONSTANT MaxUsize      \* largest usize: counts from a caller may be that large

\* A usize has at least 16 bits.
ASSUME MaxUsizeAssumption == MaxUsize \in Nat /\ MaxUsize >= 65535

Redacted == 0          \* [REDACTED]
NewLine == -1          \* a line break between kept lines
Guidance == -2         \* what a timed-out command's stderr ends with
LinesElided(n) == -(10 + 2 * n)
CharsElided(n) == -(11 + 2 * n)
IsLineGap(x) == x <= -10 /\ x % 2 = 0
GapOf(x) == (-x - 10) \div 2

\* The symbol an element stands for.
Sym(src, x) == CASE x > 0 -> src[x] [] x = NewLine -> "nl" [] OTHER -> "mark"
Syms(src, text) == [i \in 1..Len(text) |-> Sym(src, text[i])]

Sorted(set) == SetToSortSeq(set, <)
Monus(a, b) == IF a > b THEN a - b ELSE 0
SaturatingAdd(a, b) == Min({a + b, MaxUsize})
-----------------------------------------------------------------------------
(***************************************************************************)
(* strip_ansi and clean: a scan by the byte with a mode.                   *)
(***************************************************************************)
Controls == {"bel", "us", "cr"} \* dropped C0 bytes other than ESC

\* The bytes below 0x40, which do not end a CSI sequence.
Low == Controls \cup {"esc", "nl", " ", "0", ";", ":", "=", "<", "&", "(", ")", ".", "/", "-", "dq", "sq", "size", "#"}

ScanMode(mode, c) ==
  CASE mode = "text" -> IF c = "esc" THEN "esc" ELSE "text"
    [] mode = "esc" -> IF c = "[" THEN "csi" ELSE IF c = "]" THEN "osc" ELSE "text"
    [] mode = "csi" -> IF c \in Low THEN "csi" ELSE "text"
    [] mode = "osc" -> IF c = "bel" THEN "text" ELSE IF c = "esc" THEN "oscEsc" ELSE "osc"
    [] mode = "oscEsc" -> IF c \in {"\\", "bel"} THEN "text" ELSE IF c = "esc" THEN "oscEsc" ELSE "osc"

\* One more element: kept if it is neither part of an escape nor a control byte.
Scanned(src, s, x) ==
  [mode |-> ScanMode(s.mode, Sym(src, x)),
   out |-> IF s.mode = "text" /\ Sym(src, x) \notin Controls \cup {"esc"} THEN Append(s.out, x) ELSE s.out]

ScanText(src, text) ==
  LET after[n \in 0..Len(text)] ==
        IF n = 0 THEN [mode |-> "text", out |-> <<>>] ELSE Scanned(src, after[n - 1], text[n])
  IN after[Len(text)]

\* Without the blank lines around it.
Trimmed(src, text) ==
  LET solid == {i \in 1..Len(text) : Sym(src, text[i]) # "nl"}
  IN IF solid = {} THEN <<>> ELSE SubSeq(text, Min(solid), Max(solid))

Clean(src, text) == Trimmed(src, ScanText(src, text).out)

Whole(src) == [i \in 1..Len(src) |-> i]
-----------------------------------------------------------------------------
(***************************************************************************)
(* The resync copies the last cap bytes of the interrupted command's       *)
(* stderr and then prints a line break, the file's size and a #.           *)
(***************************************************************************)
Footer == <<"nl", "size", "#">>
FramedStderr(file, cap) ==
  LET src == file \o Footer
  IN Clean(src, SubSeq(Whole(src), Monus(Len(file), cap) + 1, Len(src)))

LastBreak(src, text) == Max({i \in 1..Len(text) : Sym(src, text[i]) = "nl"} \cup {0})

\* Mutant: the tail starts in the middle of a line.
StderrTailCut(file, cap) ==
  LET text == FramedStderr(file, cap)
  IN SubSeq(text, 1, LastBreak(file \o Footer, text) - 1)

\* stderr_tail: of a file longer than the cap only whole lines come back. Without
\* a readable size the tail counts as whole.
StderrTail(file, cap) ==
  LET src == file \o Footer
      text == FramedStderr(file, cap)
      broken == LastBreak(src, text)
      tail == SubSeq(text, 1, broken - 1)
      readable == SubSeq(Syms(src, text), broken + 1, Len(text)) = <<"size", "#">>
      breaks == {i \in 1..Len(tail) : Sym(src, tail[i]) = "nl"}
  IN IF text = <<>> \/ Sym(src, IF text = <<>> THEN 0 ELSE Last(text)) # "#" THEN text
     ELSE IF ~readable \/ Len(file) <= cap THEN tail
     ELSE IF breaks = {} THEN <<>> ELSE SubSeq(tail, Min(breaks) + 1, Len(tail))

\* interrupt: what a timed-out command returns on stderr.
WithGuidance(src, text) ==
  text \o (IF text = <<>> \/ Sym(src, Last(text)) = "nl" THEN <<>> ELSE <<NewLine>>) \o <<Guidance>>
-----------------------------------------------------------------------------
(***************************************************************************)
(* budget.rs: grep, then a window of lines, then a bound on characters.    *)
(* A budget is [grep, context, keep, max]; NoGrep and NoMax are absent.    *)
(***************************************************************************)
NoGrep == "none"
NoMax == -1
KeepAll == [mode |-> "all"]
DefaultBudget == [grep |-> NoGrep, context |-> 0, keep |-> KeepAll, max |-> NoMax]

\* Split at every line break.
Continued(src, pieces, x) ==
  IF Sym(src, x) = "nl" THEN Append(pieces, <<>>) ELSE [pieces EXCEPT ![Len(pieces)] = Append(@, x)]
Pieces(src, text) ==
  LET split[n \in 0..Len(text)] ==
        IF n = 0 THEN <<(<<>>)>> ELSE Continued(src, split[n - 1], text[n])
  IN split[Len(text)]

\* str::lines: no empty line after the last line break.
Lines(src, text) ==
  LET pieces == Pieces(src, text)
  IN IF Last(pieces) = <<>> THEN Front(pieces) ELSE pieces

Matches(src, line, pattern) == pattern \in ToSet(Syms(src, line))

\* The numbers from 1 to n that are in a set, in order.
Filtered(n, set) ==
  LET upto[i \in 0..n] == IF i = 0 THEN <<>> ELSE upto[i - 1] \o IF i \in set THEN <<i>> ELSE <<>>
  IN upto[n]

GrepKeepIndices(src, lines, pattern, context) ==
  LET near(i) == Monus(i, context)..Min({SaturatingAdd(i, context), Len(lines)})
  IN Filtered(Len(lines), UNION {near(i) : i \in {j \in 1..Len(lines) : Matches(src, lines[j], pattern)}})

\* Mutant: the sum of head and tail wraps around.
KeepSubsetWrapping(idx, keep) ==
  LET n == Len(idx) IN
  CASE keep.mode = "all" -> idx
    [] keep.mode = "tail" -> SubSeq(idx, Monus(n, keep.n) + 1, n)
    [] keep.mode = "head" -> SubSeq(idx, 1, Min({keep.n, n}))
    [] keep.mode = "head_tail" ->
         IF (keep.head + keep.tail) % (MaxUsize + 1) >= n THEN idx
         ELSE SubSeq(idx, 1, Min({keep.head, n})) \o SubSeq(idx, n - Min({keep.tail, n}) + 1, n)

KeepSubset(idx, keep) ==
  LET n == Len(idx) IN
  CASE keep.mode = "all" -> idx
    [] keep.mode = "tail" -> SubSeq(idx, Monus(n, keep.n) + 1, n)
    [] keep.mode = "head" -> SubSeq(idx, 1, Min({keep.n, n}))
    [] keep.mode = "head_tail" ->
         IF SaturatingAdd(keep.head, keep.tail) >= n THEN idx
         ELSE SubSeq(idx, 1, Min({keep.head, n})) \o SubSeq(idx, n - Min({keep.tail, n}) + 1, n)

\* render: the kept lines, a mark for every gap, line breaks between them.
Joined(parts) ==
  LET joined[n \in 1..Len(parts)] ==
        IF n = 1 THEN parts[1] ELSE joined[n - 1] \o <<NewLine>> \o parts[n]
  IN joined[Len(parts)]

Gap(from, to) == IF to > from + 1 THEN <<(<<LinesElided(to - from - 1)>>)>> ELSE <<>>
Parts(lines, kept) ==
  LET parts[n \in 0..Len(kept)] ==
        IF n = 0 THEN <<>>
        ELSE parts[n - 1] \o Gap(IF n = 1 THEN 0 ELSE kept[n - 1], kept[n]) \o <<lines[kept[n]]>>
  IN parts[Len(kept)]

Render(lines, kept, total) ==
  IF total = 0 THEN <<>>
  ELSE IF kept = <<>> THEN <<LinesElided(total)>>
  ELSE Joined(Parts(lines, kept) \o Gap(Last(kept), total + 1))

\* bound: head and tail with a mark between them, on lines of its own.
Bound(text, max) ==
  LET half == max \div 2
      cut == Len(text) - 2 * half
  IN IF Len(text) <= max THEN [text |-> text, capped |-> FALSE]
     ELSE IF max < 2 THEN [text |-> <<>>, capped |-> TRUE]
     ELSE [text |-> SubSeq(text, 1, half) \o <<NewLine, CharsElided(cut), NewLine>>
                      \o SubSeq(text, Len(text) - half + 1, Len(text)),
           capped |-> TRUE]

\* The indexes of the lines that a budget keeps.
Kept(src, lines, budget) ==
  KeepSubset(IF budget.grep = NoGrep THEN [i \in 1..Len(lines) |-> i]
             ELSE GrepKeepIndices(src, lines, budget.grep, budget.context),
             budget.keep)

\* apply.
Apply(src, text, budget, fallback) ==
  LET lines == Lines(src, text)
      kept == Kept(src, lines, budget)
      bounded == Bound(Render(lines, kept, Len(lines)), IF budget.max = NoMax THEN fallback ELSE budget.max)
  IN [text |-> bounded.text, capped |-> bounded.capped, total |-> Len(lines), kept |-> Len(kept)]
=============================================================================
