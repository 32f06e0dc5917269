--------------------------- MODULE MCCheckpoints ---------------------------
(***************************************************************************)
(* Checkpoints for TLC: two files, captured through "." with an exclude    *)
(* pattern for one, or through the paths of both.                          *)
(***************************************************************************)
EXTENDS Checkpoints

McFiles == {"a", "b"}
McScopes ==
  {[paths |-> {McFiles}, ignored |-> {"b"}], [paths |-> {{"a"}, {"b"}}, ignored |-> {}]}
McEmpty == {[paths |-> {McFiles}, ignored |-> {}]}
McCommands ==
  {<<"ls", "|", "cat">>, <<"ls", ";", "rm", "a">>, <<"/bin/ls", "nl", "tee", "a">>,
   <<"echo", ">", "a">>, <<"cat", "<(", "rm">>, <<"sed">>}
=============================================================================
