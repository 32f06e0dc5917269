------------------------------ MODULE Redaction ------------------------------
(***************************************************************************)
(* execkit/src/redact.rs: values that a command assigns to a secret-shaped *)
(* name are learned, and replaced in everything the session returns, after *)
(* the shapes that need no learning. A name, and a credential of a known   *)
(* shape, is one symbol; the characters of values are symbols of their own.*)
(***************************************************************************)
EXTENDS OutputText

CONSTANTS
  MinLearned,   \* shortest value that is learned (6)
  MinKeyValue   \* shortest value of the key/value pattern (4)

KeyNames == {"TOKEN"}                    \* names the key/value pattern knows
SecretNames == KeyNames \cup {"AUTH"}    \* names whose values are learned
Names == SecretNames \cup {"HOME"}
Shapes == {"AKIA"}                       \* fixed-prefix tokens, PEM blocks, bearers
Letters == {"a", "b", "c", "d", "e"}
Blank == {" ", "nl"}
Quotes == {"dq", "sq"}

\* The end of the longest run of symbols outside stop from index i: the index
\* behind it.
RunEnd(syms, i, stop) == Min({j \in i..Len(syms) : syms[j] \in stop} \cup {Len(syms) + 1})

\* balanced_end: a value that stopped at a ) runs on while it has an unclosed (.
\* at is the index behind the value so far.
BalancedEnd(syms, from, at, stop) ==
  LET opened == Cardinality({i \in from..(at - 1) : syms[i] = "("})
      step(s, i) ==
        IF i < at \/ s.done THEN s
        ELSE IF syms[i] \in stop \/ (syms[i] = ")" /\ s.depth = 0) THEN [s EXCEPT !.done = TRUE]
        ELSE [end |-> i + 1, done |-> FALSE,
              depth |-> s.depth + (IF syms[i] = "(" THEN 1 ELSE IF syms[i] = ")" THEN -1 ELSE 0)]
      after[i \in 0..Len(syms)] ==
        IF i = 0 THEN [end |-> at, depth |-> opened, done |-> FALSE] ELSE step(after[i - 1], i)
  IN IF opened = 0 THEN at
     ELSE after[Len(syms)].end
-----------------------------------------------------------------------------
(***************************************************************************)
(* Redactor: learn_from_command.                                           *)
(***************************************************************************)
WordEnds == Blank \cup {";", "&", "|"}

\* The assignments: name, = and a value that is not empty, at the start, behind a
\* separator or behind export.
Assignments(syms) ==
  {i \in 1..(Len(syms) - 2) :
     /\ syms[i] \in Names /\ syms[i + 1] = "="
     /\ syms[i + 2] \notin WordEnds \cup {")"}
     /\ i = 1 \/ syms[IF i = 1 THEN 1 ELSE i - 1] \in WordEnds \cup {"("}}

\* The value of the assignment at i, and where the search goes on.
ValueAt(syms, i) ==
  LET from == i + 2
      closing == {j \in (from + 1)..Len(syms) : syms[j] = syms[from]}
      bare == BalancedEnd(syms, from, RunEnd(syms, from, WordEnds \cup {")"}), WordEnds)
  IN IF syms[from] \in Quotes /\ closing # {}
     THEN [value |-> SubSeq(syms, from + 1, Min(closing) - 1), next |-> Min(closing) + 1]
     ELSE [value |-> SubSeq(syms, from, bare - 1), next |-> bare]

\* A value of a secret-shaped name that is long enough and new.
AddLiteral(literals, name, value) ==
  IF name \in SecretNames /\ Len(value) >= MinLearned /\ value \notin ToSet(literals)
  THEN Append(literals, value) ELSE literals

\* The search at index i: an assignment there is learned.
Learned(syms, s, i) ==
  LET at == ValueAt(syms, i)
  IN IF i < s.next \/ i \notin Assignments(syms) THEN s
     ELSE [literals |-> AddLiteral(s.literals, syms[i], at.value), next |-> at.next]

Learn(literals, syms) ==
  LET after[i \in 0..Len(syms)] ==
        IF i = 0 THEN [literals |-> literals, next |-> 1] ELSE Learned(syms, after[i - 1], i)
  IN after[Len(syms)].literals
-----------------------------------------------------------------------------
(***************************************************************************)
(* redact: the shapes, with the key/value pattern as the last.             *)
(***************************************************************************)
RedactShapes(src, text) ==
  [i \in 1..Len(text) |-> IF Sym(src, text[i]) \in Shapes THEN Redacted ELSE text[i]]

\* A match of the key/value pattern: where the value begins and ends, where the
\* match ends, and whether it is quoted.
NoMatch == [from |-> 0]
SkipBlanks(syms, i) == Min({j \in i..Len(syms) : syms[j] \notin Blank} \cup {Len(syms) + 1})
At(syms, i) == IF i \in 1..Len(syms) THEN syms[i] ELSE "end"

BareMatch(syms, from) ==
  LET end == RunEnd(syms, from, Blank \cup Quotes \cup {";", "&", "|", ")"})
  IN IF end - from < MinKeyValue THEN NoMatch
     ELSE [from |-> from, end |-> end, quoted |-> FALSE,
           next |-> IF At(syms, end) \in Quotes \cup {")"} THEN end + 1 ELSE end]

\* A value that begins at from: in quotes, or else bare, behind a quote or not.
ValueMatch(syms, from) ==
  LET quote == At(syms, from)
      close == RunEnd(syms, from + 1, {quote, "nl"})
  IN IF quote \notin Quotes THEN BareMatch(syms, from)
     ELSE IF At(syms, close) = quote /\ close - from - 1 >= MinKeyValue
          THEN [from |-> from + 1, end |-> close, next |-> close + 1, quoted |-> TRUE]
     ELSE BareMatch(syms, from + 1)

\* The pattern at index i: a name, perhaps in quotes, = or : and a value.
KeyValueAt(syms, i) ==
  LET equals == SkipBlanks(syms, IF At(syms, i + 1) \in Quotes THEN i + 2 ELSE i + 1)
  IN IF /\ At(syms, i) \in KeyNames /\ At(syms, i - 1) \notin Letters
        /\ At(syms, equals) \in {"=", ":"}
     THEN ValueMatch(syms, SkipBlanks(syms, equals + 1))
     ELSE NoMatch

\* looks_like_code: an identifier and a bracket, followed by what code has there.
LooksLikeCode(value, after) ==
  LET id == RunEnd(value, 1, {"(", "<", "[", "{"}) - 1
      path == "." \in ToSet(SubSeq(value, 1, id))
      last == id + 1 = Len(value)
  IN /\ id \in 3..(Len(value) - 1)
     /\ ToSet(SubSeq(value, 1, id)) \subseteq Letters \cup {"."}
     /\ \/ path /\ last /\ after \in Quotes \cup {")"}
        \/ value[id + 1] = "<" /\ (IF last THEN after ELSE value[id + 2]) \in Names
        \/ value[id + 1] = "(" /\ last /\ after \in Quotes

\* What becomes of the text from index i with match m: out grows, and the search goes
\* on at next.
KeyValueTaken(text, syms, out, i, m) ==
  LET code == ~m.quoted /\ LooksLikeCode(SubSeq(syms, m.from, m.end - 1), At(syms, m.end))
      end == IF ~m.quoted /\ At(syms, m.end) = ")"
             THEN BalancedEnd(syms, m.from, m.end, Blank \cup Quotes \cup {";", "&", "|"})
             ELSE m.end
  IN IF m = NoMatch THEN [next |-> i + 1, out |-> Append(out, text[i])]
     ELSE IF code THEN [next |-> m.next, out |-> out \o SubSeq(text, i, m.next - 1)]
     ELSE [next |-> Max({end, m.next}),
           out |-> out \o SubSeq(text, i, m.from - 1) \o <<Redacted>> \o SubSeq(text, end, m.next - 1)]

\* redact_key_values: each match resumes where the one before ended.
KeyValues(src, text) ==
  LET syms == Syms(src, text)
      step(s, i) ==
        IF i < s.next THEN s ELSE KeyValueTaken(text, syms, s.out, i, KeyValueAt(syms, i))
      after[i \in 0..Len(text)] ==
        IF i = 0 THEN [next |-> 1, out |-> <<>>] ELSE step(after[i - 1], i)
  IN after[Len(text)].out
-----------------------------------------------------------------------------
(***************************************************************************)
(* Redactor: redact and redact_command.                                    *)
(***************************************************************************)

\* str::replace, from left to right.
Stands(value, src, text, i) ==
  i + Len(value) - 1 <= Len(text) /\ SubSeq(Syms(src, text), i, i + Len(value) - 1) = value
ReplacedAt(src, text, value, s, i) ==
  IF i < s.next THEN s
  ELSE IF Stands(value, src, text, i) THEN [next |-> i + Len(value), out |-> Append(s.out, Redacted)]
  ELSE [next |-> i + 1, out |-> Append(s.out, text[i])]
Replaced(src, text, value) ==
  LET after[i \in 0..Len(text)] ==
        IF i = 0 THEN [next |-> 1, out |-> <<>>] ELSE ReplacedAt(src, text, value, after[i - 1], i)
  IN after[Len(text)].out

\* Mutant: in the order they were learned.
ByLengthUnsorted(literals) == literals

\* Longest first; of the same length, in the order they were learned.
Inserted(sorted, value) ==
  LET n == Max({i \in 1..Len(sorted) : Len(sorted[i]) >= Len(value)} \cup {0})
  IN SubSeq(sorted, 1, n) \o <<value>> \o SubSeq(sorted, n + 1, Len(sorted))
ByLength(literals) ==
  LET sorted[n \in 0..Len(literals)] ==
        IF n = 0 THEN <<>> ELSE Inserted(sorted[n - 1], literals[n])
  IN sorted[Len(literals)]

Redact(literals, src, text) ==
  LET values == ByLength(literals)
      after[n \in 0..Len(values)] ==
        IF n = 0 THEN KeyValues(src, RedactShapes(src, text)) ELSE Replaced(src, after[n - 1], values[n])
  IN after[Len(values)]

RedactCommand(literals, syms) == Redact(Learn(literals, syms), syms, Whole(syms))
=============================================================================
