---------------------------- MODULE MCPySession ----------------------------
(***************************************************************************)
(* PySession and KnownHosts for TLC: an alias and the name it stands for,  *)
(* asked for by both programs under every host-key policy.                 *)
(***************************************************************************)
EXTENDS PySession

Line(key, value) == [key |-> key, value |-> value]
McConfig == <<Line("host", <<"alias">>), Line("hostname", "real"), Line("user", "u")>>
McKeys == {"id_rsa"}

Args(host, user, password, pin) ==
  [host |-> host, user |-> user, port |-> Absent, password |-> password,
   keyPath |-> Absent, pin |-> pin, insecure |-> FALSE]
Mcp(args) == [program |-> "mcp", args |-> args]
Py(args, optOut) ==
  [program |-> "python", args |-> [args EXCEPT !.port = DefaultPort, !.insecure = optOut]]

McRequests ==
  {Mcp(Args("alias", Absent, Absent, Absent)), Mcp(Args("real", Absent, Absent, Absent)),
   Mcp(Args("real", "u", "pw", "k1")),
   Py(Args("real", "u", "pw", Absent), FALSE), Py(Args("real", "u", Absent, Absent), FALSE),
   Py(Args("real", "u", "pw", "k1"), TRUE)}

\* Configurations of up to four lines.
SomeLines ==
  {Line("host", <<"alias">>), Line("host", <<"other", "alias">>), Line("host", <<"other", Pattern>>),
   Line("match", "all"), Line("hostname", "h1"), Line("hostname", "h2"),
   Line("port", Unparsed), Line("port", "2222"), Line("identityfile", "k1"), Line("identityfile", "k2"),
   Line("include", "f")}

McConfigs == {McConfig} \cup UNION {[1..n -> SomeLines] : n \in 0..4}
McOneConfig == {McConfig}

\* Steps are taken with one configuration only; the others are read.
MCSpec == Init /\ [][sshConfig = McConfig /\ Next]_vars
=============================================================================
