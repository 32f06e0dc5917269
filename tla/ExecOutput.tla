----------------------------- MODULE ExecOutput -----------------------------
(***************************************************************************)
(* What session_exec answers (execkit-mcp/src/main.rs) and what exec_inner *)
(* (execkit/src/session.rs) makes of a command's output: the operator's    *)
(* policy, the budget's translation, learning, the session's policy, and   *)
(* cleaning, redaction and shaping of both streams. How the command is run *)
(* is Session's and Accumulator's part.                                    *)
(***************************************************************************)
EXTENDS Policy

CONSTANTS
  Operator,        \* the server's policy: [names, patterns]
  SessionPolicy,   \* the policy attached to the session
  MaxOutput,       \* Session.max_output
  TailCap,         \* bytes of stderr that a resync brings back (16384)
  Symbols,         \* what commands and outputs are made of
  Commands,        \* command lines
  Streams,         \* what a command prints: its stdout and its stderr
  Requests         \* the parameters of a call

VARIABLES
  literals,        \* Redactor.literals of the session
  answer,          \* what the last call returned, with what went into it
  calls            \* number of calls so far

execVars == <<literals, answer, calls>>

NoAnswer == [kind |-> "none"]
Absent == -1             \* a field that the caller left out
BadPattern == "bad"      \* a grep pattern that compile_grep refuses

ExecInit == literals = <<>> /\ answer = NoAnswer /\ calls = 0

\* The call returns without a result.
Refused(kind) == answer' = [kind |-> kind] /\ calls' = calls + 1
-----------------------------------------------------------------------------
(***************************************************************************)
(* BudgetParams::to_budget. The parameters are [grep, context, mode, n,    *)
(* head, tail, max]; NoParams leaves the budget to the session.            *)
(***************************************************************************)
NoParams == [mode |-> "none"]
Modes == {"absent", "all", "tail", "head", "head_tail"}

Counts == Nat \cup {Absent}
ParamsType ==
  [grep : STRING, context : Nat, mode : STRING, n : Counts, head : Counts, tail : Counts,
   max : Counts]

\* No mark of execkit's is a symbol, no value is empty, and no String is longer than
\* isize::MAX.
ExecAssumption ==
  /\ "mark" \notin Symbols
  /\ Commands \subseteq Seq(Symbols) /\ Streams \subseteq Seq(Symbols) \X Seq(Symbols)
  /\ Requests \subseteq ParamsType \cup {NoParams}
  /\ MinLearned \in Nat \ {0} /\ MinKeyValue \in Nat \ {0}
  /\ \A s \in Streams : 2 * Len(s[1]) <= MaxUsize /\ 2 * Len(s[2]) <= MaxUsize
  /\ MaxOutput \in Nat /\ TailCap \in Nat
ASSUME ExecAssumed == ExecAssumption

Translatable(params) == params = NoParams \/ params.mode \in Modes

OrZero(n) == IF n = Absent THEN 0 ELSE n

ToKeep(params) ==
  CASE params.mode \in {"absent", "all"} -> KeepAll
    [] params.mode \in {"tail", "head"} -> [mode |-> params.mode, n |-> OrZero(params.n)]
    [] params.mode = "head_tail" ->
         [mode |-> "head_tail", head |-> OrZero(params.head), tail |-> OrZero(params.tail)]

ToBudget(params) ==
  IF params = NoParams THEN DefaultBudget
  ELSE [grep |-> params.grep, context |-> params.context, keep |-> ToKeep(params),
        max |-> params.max]
-----------------------------------------------------------------------------
(***************************************************************************)
(* session_exec, up to the session.                                        *)
(***************************************************************************)

\* The values that redact a command the operator's policy blocks: a busy session
\* is not waited for.
BlockedLiterals(busy) == IF busy THEN <<>> ELSE literals

\* The command is blocked; it never ran, and nothing is learned from it.
Blocked(cmd, busy) ==
  /\ ~OperatorAllows(Operator, cmd)
  /\ answer' = [kind |-> "blocked", cmd |-> cmd, busy |-> busy, known |-> literals,
                shown |-> RedactCommand(BlockedLiterals(busy), cmd)]
  /\ calls' = calls + 1
  /\ UNCHANGED literals

UnknownMode(cmd, params) ==
  /\ OperatorAllows(Operator, cmd) /\ ~Translatable(params)
  /\ Refused("unknown mode")
  /\ UNCHANGED literals

ReachesSession(cmd, params) == OperatorAllows(Operator, cmd) /\ Translatable(params)
-----------------------------------------------------------------------------
(***************************************************************************)
(* exec_inner: it learns first, whatever becomes of the command.           *)
(***************************************************************************)
BadGrep(cmd, params) ==
  /\ ReachesSession(cmd, params) /\ ToBudget(params).grep = BadPattern
  /\ literals' = Learn(literals, cmd)
  /\ Refused("bad grep")

PolicyDenied(cmd, params) ==
  /\ ReachesSession(cmd, params) /\ ToBudget(params).grep # BadPattern
  /\ ~Allowed(SessionPolicy, cmd)
  /\ literals' = Learn(literals, cmd)
  /\ Refused("denied")

\* The source and the text of stderr: of an interrupted command the tail that the
\* resync printed, with the guidance behind it.
ErrSource(file, timedOut) == IF timedOut THEN file \o Footer ELSE file
ErrText(file, timedOut) ==
  IF timedOut THEN WithGuidance(ErrSource(file, TRUE), StderrTail(file, TailCap))
  ELSE Clean(file, Whole(file))

\* Mutant: the budget is applied before the values are replaced.
ShapedFirst(known, src, text, budget) ==
  LET shaped == Apply(src, text, budget, MaxOutput)
  IN [shaped EXCEPT !.text = Redact(known, src, shaped.text)]

\* One stream of the result.
Shaped(known, src, text, budget) == Apply(src, Redact(known, src, text), budget, MaxOutput)

\* Mutant: what the budget did to stderr is forgotten.
TruncatedStdout(out, err, overflowed) == out.capped \/ out.kept < out.total \/ overflowed

Truncated(out, err, overflowed) ==
  out.capped \/ err.capped \/ out.kept < out.total \/ err.kept < err.total \/ overflowed

\* The result, with what it was made of.
Result(cmd, out, errFile, budget, overflowed, timedOut, known, stdout, stderr) ==
  [kind |-> "result", cmd |-> cmd, out |-> out, errFile |-> errFile,
   budget |-> budget, overflowed |-> overflowed, timedOut |-> timedOut,
   shown |-> Redact(known, cmd, Whole(cmd)), stdout |-> stdout, stderr |-> stderr,
   report |-> budget # DefaultBudget,
   truncated |-> Truncated(stdout, stderr, overflowed)]

Exec(cmd, out, errFile, params, overflowed, timedOut) ==
  LET budget == ToBudget(params)
  IN /\ ReachesSession(cmd, params) /\ budget.grep # BadPattern
     /\ Allowed(SessionPolicy, cmd)
     /\ literals' = Learn(literals, cmd)
     /\ answer' = Result(cmd, out, errFile, budget, overflowed, timedOut, literals',
          Shaped(literals', out, Clean(out, Whole(out)), budget),
          Shaped(literals', ErrSource(errFile, timedOut), ErrText(errFile, timedOut), budget))
     /\ calls' = calls + 1

ExecNext ==
  \E cmd \in Commands :
    \/ \E busy \in BOOLEAN : Blocked(cmd, busy)
    \/ \E params \in Requests :
         \/ UnknownMode(cmd, params) \/ BadGrep(cmd, params) \/ PolicyDenied(cmd, params)
         \/ \E streams \in Streams, overflowed, timedOut \in BOOLEAN :
              Exec(cmd, streams[1], streams[2], params, overflowed, timedOut)

ExecSpec == ExecInit /\ [][ExecNext]_execVars
-----------------------------------------------------------------------------
(***************************************************************************)
(* Properties.                                                             *)
(***************************************************************************)

\* The indexes from..to at which a value stands in a text.
OccurrencesOf(value, src, text) ==
  {[from |-> i, to |-> i + Len(value) - 1] :
     i \in {j \in 1..(Len(text) - Len(value) + 1) :
              SubSeq(Syms(src, text), j, j + Len(value) - 1) = value}}
AllOccurrences(known, src, text) ==
  UNION {OccurrencesOf(v, src, text) : v \in ToSet(known)}

\* One contains the other, or they have nothing in common.
Nested(o, p) ==
  \/ o.to < p.from \/ p.to < o.from
  \/ o.from <= p.from /\ p.to <= o.to
  \/ p.from <= o.from /\ o.to <= p.to

\* Of a text of which the part text was redacted, no position of an occurrence is
\* shown: those left out overlap another one, or a shape or key/value pair has
\* replaced a part of them, or a mark of execkit's is one of their characters.
Hidden(known, src, whole, text, shown) ==
  LET all == AllOccurrences(known, src, whole)
      unshaped == ToSet(KeyValues(src, RedactShapes(src, text)))
      places(o) == {whole[i] : i \in o.from..o.to}
  IN \A o \in all :
       /\ \A q \in all : Nested(o, q)
       /\ \A x \in places(o) : x > 0 /\ (x \in ToSet(text) => x \in unshaped)
       => places(o) \cap ToSet(shown) = {}

\* Without escapes and control bytes, and of one line.
Plain(file) == ToSet(file) \cap (Controls \cup {"esc"}) = {}
SingleLine(known) == \A v \in ToSet(known) : "nl" \notin ToSet(v)

HiddenIn(known, src, text, shown) == Hidden(known, src, text, text, shown)

\* An answer shows no character of a value that a command of the session has
\* assigned to a secret-shaped name: neither in the command's own echo nor in a
\* stream, whatever a tail, a budget or a character bound cuts away. A blocked
\* command is shown without the values it assigns itself, and without the
\* session's unless the session is busy. The stderr of an interrupted command
\* shows none of the values in what the resync brought back, and none of those
\* that the tail has cut in two.
LearnedHidden ==
  /\ answer.kind = "blocked" =>
       HiddenIn(Learn(IF answer.busy THEN <<>> ELSE answer.known, answer.cmd),
                answer.cmd, Whole(answer.cmd), answer.shown)
  /\ answer.kind = "result" =>
       LET errSrc == ErrSource(answer.errFile, answer.timedOut)
           errText == ErrText(answer.errFile, answer.timedOut)
       IN /\ HiddenIn(literals, answer.cmd, Whole(answer.cmd), answer.shown)
          /\ HiddenIn(literals, answer.out, Clean(answer.out, Whole(answer.out)), answer.stdout.text)
          /\ HiddenIn(literals, errSrc, errText, answer.stderr.text)
          /\ answer.timedOut /\ Plain(answer.errFile) /\ SingleLine(literals) =>
               Hidden(literals, errSrc, Whole(answer.errFile), errText, answer.stderr.text)

\* The lines of a redacted stream that a budget asks for: those near a match, and
\* of these the first and the last ones.
Near(src, lines, budget) ==
  {i \in 1..Len(lines) :
     \/ budget.grep = NoGrep
     \/ \E j \in 1..Len(lines) :
          /\ budget.grep \in ToSet(Syms(src, lines[j]))
          /\ j - i \in (-budget.context)..budget.context}
Wanted(src, lines, budget) ==
  LET near == Near(src, lines, budget)
      rank(i) == Cardinality({j \in near : j <= i})
      fromEnd(i) == Cardinality({j \in near : j >= i})
      keep == budget.keep
  IN {i \in near :
        CASE keep.mode = "all" -> TRUE
          [] keep.mode = "head" -> rank(i) <= keep.n
          [] keep.mode = "tail" -> fromEnd(i) <= keep.n
          [] keep.mode = "head_tail" -> rank(i) <= keep.head \/ fromEnd(i) <= keep.tail}

\* Read back from a text: the number of lines it accounts for, or -1 if it shows
\* another line than the next one it has to.
ReadOn(lines, wanted, at, part) ==
  IF at = -1 THEN -1
  ELSE IF Len(part) = 1 /\ IsLineGap(part[1])
       THEN IF \A i \in (at + 1)..(at + GapOf(part[1])) : i \notin wanted THEN at + GapOf(part[1]) ELSE -1
  ELSE IF at + 1 \in wanted /\ part = lines[at + 1] THEN at + 1 ELSE -1
LinesRead(lines, wanted, parts) ==
  LET upto[n \in 0..Len(parts)] == IF n = 0 THEN 0 ELSE ReadOn(lines, wanted, upto[n - 1], parts[n])
  IN upto[Len(parts)]
ReadBack(src, lines, wanted, text) ==
  IF lines = <<>> THEN Len(text) ELSE LinesRead(lines, wanted, Pieces(src, text))

BudgetKept(src, redacted, budget, shaped) ==
  LET lines == Lines(src, redacted)
      wanted == Wanted(src, lines, budget)
  IN /\ shaped.total = Len(lines) /\ shaped.kept = Cardinality(wanted)
     /\ ~shaped.capped => ReadBack(src, lines, wanted, shaped.text) = Len(lines)

AsRedacted(src, text) == Redact(literals, src, text)

\* A shaped stream shows every line that the caller's budget asks for and no other
\* one, in order, and a mark for each gap with the number of lines missing there;
\* the counts of the report are those of the redacted stream.
BudgetExact ==
  answer.kind = "result" =>
    LET errSrc == ErrSource(answer.errFile, answer.timedOut)
    IN /\ BudgetKept(answer.out, AsRedacted(answer.out, Clean(answer.out, Whole(answer.out))),
                     answer.budget, answer.stdout)
       /\ BudgetKept(errSrc, AsRedacted(errSrc, ErrText(answer.errFile, answer.timedOut)),
                     answer.budget, answer.stderr)

\* All of a text, but for a line break at its end.
AllOf(src, text, shown) ==
  /\ \/ Len(shown) = Len(text)
     \/ Len(shown) + 1 = Len(text) /\ Sym(src, Last(text)) = "nl"
  /\ \A i \in 1..Len(shown) : shown[i] = text[i] \/ (shown[i] = NewLine /\ Sym(src, text[i]) = "nl")

\* A caller may rely on truncated = FALSE: then both streams are there to the last
\* redacted character, in their order, a line break at the end aside.
WholeUnlessTruncated ==
  answer.kind = "result" /\ ~answer.truncated =>
    LET errSrc == ErrSource(answer.errFile, answer.timedOut)
    IN /\ ~answer.overflowed
       /\ AllOf(answer.out, AsRedacted(answer.out, Clean(answer.out, Whole(answer.out))), answer.stdout.text)
       /\ AllOf(errSrc, AsRedacted(errSrc, ErrText(answer.errFile, answer.timedOut)), answer.stderr.text)
=============================================================================
