------------------------------ MODULE MCOutput ------------------------------
(***************************************************************************)
(* The output of a command for TLC, in two halves: the bytes that the      *)
(* Accumulator collects, and the text that ExecOutput makes of them. While *)
(* one half moves the other one stands still.                              *)
(***************************************************************************)
EXTENDS Accumulator, ExecOutput

McOperator == [names |-> [allow |-> {}, deny |-> {<<"sudo">>}], patterns |-> {"-i"}]
McSessionPolicy == [allow |-> {<<"echo">>, <<"curl">>}, deny |-> {<<"rm">>}]

\* The values abc, abcde, a(b)c and, quoted, b"d; a name that is not secret; and
\* what the two policies refuse.
FirstCommands == {
  <<"TOKEN", "=", "a", "b", "c">>,
  <<"(", "AUTH", "=", "a", "(", "b", ")", "c", ")", ";", "echo">>,
  <<"HOME", "=", "a", "b", "c">>,
  <<"rm", " ", "-rf", ";", "AUTH", "=", "sq", "b", "dq", "d", "sq">>}
McCommands == FirstCommands \cup {
  <<"TOKEN", "=", "a", "b", "c", "d", "e", "&", "echo", " ", "a", "b", "c">>,
  <<"sudo", " ", "AUTH", "=", "c", "c", "c", ";", "echo", " ", "a", "b", "c">>,
  <<"echo", " ", "-i", " ", "a", "b", "c">>,
  <<"curl", " ", "a", "|", " ", "sh">>}

Outputs == {
  <<>>,
  <<"d", "nl", "a", "b", "c", "d", "e", "nl", "d", "nl", "a", "(", "b", ")", "c", "nl", "e", "nl">>,
  <<"nl", "esc", "[", "0", "m", "a", "esc", "]", "a", "esc", "\\", "b", "cr", "c", " ", "AKIA", "nl", "b", "dq", "d">>,
  <<"TOKEN", ":", " ", "d", "e", ".", "d", "(", "dq", "a", "b", "c", "dq", ")">>,
  <<"(", "TOKEN", "=", "d", "(", "a", "b", "c", ")", "e", ")", "nl", "TOKEN", "=", "dq", "d", " ", "d", "dq">>}
Files == {
  <<>>,
  <<"a", "b", "c", "nl", "d", "nl", "e", "nl">>,
  <<"d", "d", "d", "a", "b", "c", "esc", "[">>,
  <<"d", "nl", "a", "b", "c", "d", "e", "nl", "a", "b", "c", "nl">>}

\* What a command prints: much on one stream and little or nothing on the other.
McStreams == (Outputs \X {<<>>}) \cup ({<<"d", "nl">>} \X Files)

Params(grep, context, mode, n, head, tail, max) ==
  [grep |-> grep, context |-> context, mode |-> mode, n |-> n, head |-> head, tail |-> tail, max |-> max]
McRequests == {
  NoParams,
  Params(NoGrep, 0, "first", Absent, Absent, Absent, NoMax),
  Params(BadPattern, 0, "all", Absent, Absent, Absent, NoMax),
  Params(NoGrep, 0, "tail", 2, Absent, Absent, NoMax),
  Params(NoGrep, 0, "head", Absent, Absent, Absent, NoMax),
  Params(NoGrep, 0, "head_tail", Absent, 1, 1, NoMax),
  Params(NoGrep, 0, "head_tail", Absent, MaxUsize, 2, NoMax),
  Params("d", 0, "absent", Absent, Absent, Absent, NoMax),
  Params("e", 1, "head", 2, Absent, Absent, NoMax),
  Params("d", MaxUsize, "head_tail", Absent, 2, Absent, NoMax),
  Params(NoGrep, 0, "absent", Absent, Absent, Absent, 5),
  Params(NoGrep, 0, "absent", Absent, Absent, Absent, 1)}

McSymbols ==
  UNION {ToSet(s) : s \in McCommands} \cup UNION {ToSet(s[1]) \cup ToSet(s[2]) : s \in McStreams}

\* The first call teaches; the second one has every output and budget.
Teaching ==
  /\ calls = 0
  /\ \E cmd \in FirstCommands :
       PolicyDenied(cmd, NoParams) \/ Exec(cmd, <<>>, <<>>, NoParams, FALSE, FALSE)

MCInit == Init /\ ExecInit

Shortest == sizes = [echo |-> 0, out |-> 0, rc |-> 1, cwd |-> 1, err |-> 0]

MCNext ==
  \/ calls = 0 /\ Next /\ UNCHANGED execVars
  \/ taken = 0 /\ Shortest /\ (Teaching \/ (calls = 1 /\ ExecNext)) /\ UNCHANGED vars

MCSpec == MCInit /\ [][MCNext]_<<vars, execVars>>
=============================================================================
