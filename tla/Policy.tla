------------------------------- MODULE Policy -------------------------------
(***************************************************************************)
(* The allow/deny fences over command lines: the library's (execkit/src/   *)
(* policy.rs) and the operator's (execkit-mcp/src/policy.rs). A command is *)
(* a sequence of symbols, in which a program or option is one symbol.      *)
(***************************************************************************)
EXTENDS Redaction

Programs == {"echo", "rm", "dd", "mkfs", "curl", "sh", "sudo"}
WordChars == Programs \cup Letters \cup Names

\* A policy names programs; NoPolicy lets everything but the dangerous through.
NoPolicy == [allow |-> {}, deny |-> {}]

\* The rules of dangerous_rules.
WordStart(cmd, i) == At(cmd, i - 1) \notin WordChars
WordEnd(cmd, i) == At(cmd, i + 1) \notin WordChars
ForcedRemove(cmd, i) ==
  LET option == SkipBlanks(cmd, i + 1)
  IN cmd[i] = "rm" /\ WordStart(cmd, i) /\ option > i + 1 /\ At(cmd, option) = "-rf"
PipedToShell(cmd, i) ==
  LET pipe == RunEnd(cmd, i, {"|"})
  IN cmd[i] = "curl" /\ At(cmd, SkipBlanks(cmd, pipe + 1)) = "sh"
Dangerous(cmd) ==
  \E i \in 1..Len(cmd) :
    \/ ForcedRemove(cmd, i)
    \/ cmd[i] = "dd" /\ WordStart(cmd, i) /\ WordEnd(cmd, i)
    \/ cmd[i] = "mkfs" /\ WordStart(cmd, i)
    \/ PipedToShell(cmd, i)

\* The runs of symbols between the members of stop.
Runs(syms, stop) ==
  LET cuts == Sorted({i \in 1..Len(syms) : syms[i] \in stop} \cup {0, Len(syms) + 1})
  IN SelectSeq([n \in 1..(Len(cuts) - 1) |-> SubSeq(syms, cuts[n] + 1, cuts[n + 1] - 1)],
               LAMBDA run : run # <<>>)

\* programs: of each segment the first word that is no assignment, without its path.
Program(segment) ==
  LET words == SelectSeq(Runs(segment, Blank), LAMBDA w : "=" \notin ToSet(w))
      slash(w) == Max({i \in 1..Len(w) : w[i] = "/"} \cup {0})
  IN IF words = <<>> THEN {} ELSE {SubSeq(words[1], slash(words[1]) + 1, Len(words[1]))}
ProgramsOf(cmd) == UNION {Program(s) : s \in ToSet(Runs(cmd, {";", "|", "&", "nl"}))}

\* Policy::check.
Allowed(policy, cmd) ==
  /\ ~Dangerous(cmd)
  /\ \A prog \in ProgramsOf(cmd) :
       /\ prog \notin policy.deny
       /\ policy.allow # {} => prog \in policy.allow

\* OperatorPolicy::check: a denied pattern is a symbol anywhere in the command.
OperatorAllows(operator, cmd) ==
  /\ operator.patterns \cap ToSet(cmd) = {}
  /\ Allowed(operator.names, cmd)
=============================================================================
