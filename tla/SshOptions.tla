----------------------------- MODULE SshOptions -----------------------------
(***************************************************************************)
(* From what a caller asks for to what SSH connects with: lookup in the    *)
(* operator's ssh_config (execkit-mcp/src/sshconfig.rs), resolve_ssh and   *)
(* the host-key policy of build_session (execkit-mcp/src/main.rs), and     *)
(* build_ssh_config of the Python binding (execkit-py/src/lib.rs).         *)
(* Pure; hosts, users, ports and key files are names.                      *)
(***************************************************************************)
EXTENDS Naturals, Sequences, SequencesExt

Absent == "absent"
Pattern == "*"             \* any Host pattern that is not a plain name
Unparsed == "unparsed"     \* a Port that is no number
DefaultPort == "22"
Failed == [ok |-> FALSE]

Or(first, second) == IF first # Absent THEN first ELSE second
-----------------------------------------------------------------------------
(***************************************************************************)
(* lookup: a scan that knows whether it is in a block of the alias. A line *)
(* is a keyword with a value; the value of a Host line is its patterns.    *)
(***************************************************************************)
NoEntry == [hostname |-> Absent, user |-> Absent, port |-> Absent, keys |-> <<>>]
ScanStart == [inBlock |-> FALSE, matched |-> FALSE, entry |-> NoEntry]

\* A name with pattern characters matches nothing, not even itself.
Names(patterns, alias) == alias # Pattern /\ alias \in ToSet(patterns)

FirstPort(set, value) == IF set = Absent /\ value # Unparsed THEN value ELSE set

SetField(entry, line) ==
  CASE line.key = "hostname" -> [entry EXCEPT !.hostname = Or(@, line.value)]
    [] line.key = "user" -> [entry EXCEPT !.user = Or(@, line.value)]
    [] line.key = "port" -> [entry EXCEPT !.port = FirstPort(@, line.value)]
    [] line.key = "identityfile" -> [entry EXCEPT !.keys = Append(@, line.value)]
    [] OTHER -> entry

\* Mutant: a Match line is one of the ignored keywords.
ScanLineThroughMatch(alias, scan, line) ==
  CASE line.key = "host" ->
         LET here == Names(line.value, alias)
         IN [scan EXCEPT !.inBlock = here, !.matched = @ \/ here]
    [] OTHER ->
         IF scan.inBlock THEN [scan EXCEPT !.entry = SetField(@, line)] ELSE scan

ScanLine(alias, scan, line) ==
  CASE line.key = "host" ->
         LET here == Names(line.value, alias)
         IN [scan EXCEPT !.inBlock = here, !.matched = @ \/ here]
    [] line.key = "match" -> [scan EXCEPT !.inBlock = FALSE]
    [] OTHER ->
         IF scan.inBlock THEN [scan EXCEPT !.entry = SetField(@, line)] ELSE scan

\* The entry of an alias, or NoAlias.
NoAlias == [matched |-> FALSE, entry |-> NoEntry]
Lookup(lines, alias) ==
  LET scan[n \in 0..Len(lines)] ==
        IF n = 0 THEN ScanStart ELSE ScanLine(alias, scan[n - 1], lines[n])
      end == scan[Len(lines)]
  IN IF end.matched THEN [matched |-> TRUE, entry |-> end.entry] ELSE NoAlias
-----------------------------------------------------------------------------
(***************************************************************************)
(* resolve_ssh. A key file is usable if it exists inside key_dir.          *)
(***************************************************************************)
DefaultKeys == <<"id_ed25519", "id_ecdsa", "id_rsa">>

FirstUsable(candidates, usable) ==
  LET good == SelectSeq(candidates, LAMBDA f : f \in usable)
  IN IF good = <<>> THEN Absent ELSE Head(good)

\* The key a request logs in with; a password needs none.
KeyOf(args, entry, usable) ==
  IF args.keyPath # Absent
  THEN FirstUsable(<<args.keyPath>>, usable)
  ELSE FirstUsable(entry.keys \o DefaultKeys, usable)

ResolveSsh(args, lines, usable) ==
  LET entry == Lookup(lines, args.host).entry
      user == Or(args.user, entry.user)
      key == KeyOf(args, entry, usable)
      port == Or(args.port, entry.port)
  IN IF user = Absent \/ (args.password = Absent /\ key = Absent) THEN Failed
     ELSE [ok |-> TRUE,
           host |-> Or(entry.hostname, args.host),
           port |-> IF port = Absent THEN DefaultPort ELSE port,
           user |-> user,
           auth |-> IF args.password # Absent THEN args.password ELSE key]

\* build_session: what the agent pins goes before the operator's opt-out.
McpPolicy(args, insecure) ==
  CASE args.pin # Absent -> [check |-> "pinned", fp |-> args.pin]
    [] args.pin = Absent /\ insecure -> [check |-> "any"]
    [] OTHER -> [check |-> "known"]

\* build_ssh_config: exactly one way to log in; the caller's opt-out goes first.
PyPolicy(args) ==
  CASE args.insecure -> [check |-> "any"]
    [] ~args.insecure /\ args.pin # Absent -> [check |-> "pinned", fp |-> args.pin]
    [] OTHER -> [check |-> "known"]

BuildSshConfig(args) ==
  IF (args.password = Absent) = (args.keyPath = Absent) THEN Failed
  ELSE [ok |-> TRUE, host |-> args.host, port |-> args.port, user |-> args.user,
        auth |-> Or(args.password, args.keyPath)]
-----------------------------------------------------------------------------
(***************************************************************************)
(* Property.                                                               *)
(***************************************************************************)

\* OpenSSH's own reading of a configuration, which the doc comment of lookup
\* promises for the keywords it knows: the block a line stands in is that of the
\* last Host or Match line above it, the first value in blocks of the alias wins,
\* and identity files add up.
InBlockOf(lines, alias, i) ==
  LET heads == {j \in 1..(i - 1) : lines[j].key \in {"host", "match"}}
  IN \E j \in heads : /\ \A k \in heads : k <= j
                      /\ lines[j].key = "host" /\ Names(lines[j].value, alias)

\* The lines among the first n that give the alias a value for a keyword.
Given(lines, alias, key, n) ==
  {i \in 1..n : /\ lines[i].key = key /\ InBlockOf(lines, alias, i)
                /\ key = "port" => lines[i].value # Unparsed}

IsFirst(lines, given, value) ==
  \/ given = {} /\ value = Absent
  \/ \E i \in given : value = lines[i].value /\ \A j \in given : i <= j

InOrder(lines, given, values) ==
  \E at \in [1..Len(values) -> given] :
    /\ \A m \in 1..Len(values) : values[m] = lines[at[m]].value
    /\ \A m, n \in 1..Len(values) : m < n => at[m] < at[n]
    /\ \A i \in given : \E m \in 1..Len(values) : at[m] = i

ReadsLikeOpenSSH(lines, alias) ==
  LET found == Lookup(lines, alias)
      given(key) == Given(lines, alias, key, Len(lines))
  IN /\ found.matched <=> \E i \in 1..Len(lines) : lines[i].key = "host" /\ Names(lines[i].value, alias)
     /\ IsFirst(lines, given("hostname"), found.entry.hostname)
     /\ IsFirst(lines, given("user"), found.entry.user)
     /\ IsFirst(lines, given("port"), found.entry.port)
     /\ InOrder(lines, given("identityfile"), found.entry.keys)
=============================================================================
