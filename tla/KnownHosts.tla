----------------------------- MODULE KnownHosts -----------------------------
(***************************************************************************)
(* verify_known_hosts (execkit/src/transport/ssh.rs): trust on first use   *)
(* against a file that every connecting client of a user shares, whatever  *)
(* program it runs in. The file is read and decided on, and appended to in *)
(* a later step. Before that a request becomes an address, a login and a   *)
(* host-key policy (SshOptions).                                           *)
(***************************************************************************)
EXTENDS SshOptions

CONSTANTS
  Clients,      \* threads that connect
  Requests,     \* what the MCP server and Python programs ask for
  Fingerprints, \* host keys a server may show
  Configs,      \* the ssh_config files an operator may have
  UsableKeys,   \* key files that pass validated_key_path
  MaxConnects   \* bound of the model: connections begun

ASSUME KnownHostsAssumption ==
  /\ MaxConnects \in Nat
  /\ {Absent, "openssh"} \cap Fingerprints = {}

\* A configuration is a sequence of lines; a value that is there is not absent.
ASSUME ConfigsAssumption ==
  \A lines \in Configs :
    /\ lines \in Seq(ToSet(lines))
    /\ \A i \in 1..Len(lines) : lines[i].key # "host" => lines[i].value # Absent

VARIABLES
  sshConfig,  \* the operator's ssh_config
  known,      \* the lines of the file
  insecure,   \* Config.insecure_accept_any of the server
  begun,      \* connections begun so far
  phase,      \* per client: where it is with its connection
  target,     \* per client: the address and policy it connects with
  shown,      \* per client: the host key the server showed
  before      \* per client, history: the key its address had when it began

connVars == <<sshConfig, known, insecure, begun, phase, target, shown, before>>

\* The line of a host on the default port has its bare name.
KnownHostsKey(address) ==
  IF address.port = DefaultPort THEN <<address.host>> ELSE <<address.host, address.port>>

\* A line whose second field is no SHA256 fingerprint.
Foreign(entry) == entry.fp = "openssh"

\* The fingerprint in the first line of an address in execkit's format.
OwnLines(lines, key) == {i \in 1..Len(lines) : lines[i].key = key /\ ~Foreign(lines[i])}
Pinned(lines, key) ==
  LET own == OwnLines(lines, key)
      first == CHOOSE i \in own : \A j \in own : i <= j
  IN IF own = {} THEN Absent ELSE lines[first].fp

NoTarget == [key |-> <<>>, policy |-> [check |-> "none"]]
ForeignLine == [key |-> <<"elsewhere">>, fp |-> "openssh"]

\* The address and login a request leads to.
Resolved(request) ==
  IF request.program = "mcp" THEN ResolveSsh(request.args, sshConfig, UsableKeys)
  ELSE BuildSshConfig(request.args)

ConnInit ==
  /\ sshConfig \in Configs
  /\ known \in {<<>>, <<ForeignLine>>}
  /\ insecure \in BOOLEAN
  /\ begun = 0
  /\ phase = [c \in Clients |-> "idle"]
  /\ target = [c \in Clients |-> NoTarget]
  /\ shown = [c \in Clients |-> Absent]
  /\ before = [c \in Clients |-> Absent]
-----------------------------------------------------------------------------
Policy(request) ==
  IF request.program = "mcp" THEN McpPolicy(request.args, insecure) ELSE PyPolicy(request.args)

\* Mutant: the file is searched for what the agent asked for, not for where
\* the connection goes.
TargetByAlias(request) ==
  [key |-> <<request.args.host>>, policy |-> Policy(request)]

Target(request) ==
  [key |-> KnownHostsKey(Resolved(request)), policy |-> Policy(request)]

\* A request that resolves; client c connects.
Begin(c, request) ==
  /\ phase[c] = "idle" /\ begun < MaxConnects
  /\ Resolved(request).ok
  /\ begun' = begun + 1
  /\ phase' = [phase EXCEPT ![c] = "handshake"]
  /\ target' = [target EXCEPT ![c] = Target(request)]
  /\ before' = [before EXCEPT ![c] = Pinned(known, KnownHostsKey(Resolved(request)))]
  /\ UNCHANGED <<sshConfig, known, insecure, shown>>

\* One that does not: an error, and no connection.
Refused(c, request) ==
  /\ phase[c] = "idle"
  /\ ~Resolved(request).ok
  /\ UNCHANGED connVars

\* The server shows its key, if the connection gets that far.
Handshake(c) ==
  /\ phase[c] = "handshake"
  /\ \/ /\ phase' = [phase EXCEPT ![c] = "verify"]
        /\ \E fp \in Fingerprints : shown' = [shown EXCEPT ![c] = fp]
     \/ /\ phase' = [phase EXCEPT ![c] = "failed"]
        /\ UNCHANGED shown
  /\ UNCHANGED <<sshConfig, known, insecure, begun, target, before>>

Decide(c, verdict) ==
  /\ phase' = [phase EXCEPT ![c] = verdict]
  /\ UNCHANGED <<sshConfig, known, insecure, begun, target, shown, before>>

\* verify_fingerprint for the policies that read no file.
VerifyGiven(c) ==
  /\ phase[c] = "verify"
  /\ LET policy == target[c].policy
     IN /\ policy.check # "known"
        /\ Decide(c, IF policy.check = "any" \/ policy.fp = shown[c] THEN "connected" ELSE "failed")

\* The first line of the address decides; without one, a file with foreign lines is
\* refused and in any other the key will be recorded.
Verdict(pin, fp) ==
  IF pin = fp THEN "connected"
  ELSE IF pin = Absent /\ \A i \in 1..Len(known) : ~Foreign(known[i]) THEN "append"
  ELSE "failed"

ReadKnown(c) ==
  /\ phase[c] = "verify" /\ target[c].policy.check = "known"
  /\ Decide(c, Verdict(Pinned(known, target[c].key), shown[c]))

\* The file cannot be read: fail closed.
ReadFails(c) ==
  /\ phase[c] = "verify" /\ target[c].policy.check = "known"
  /\ Decide(c, "failed")

\* create_dir_all, open, write or chmod fails, the last after the write.
AppendFails(c) ==
  /\ phase[c] = "append"
  /\ known' \in {known, Append(known, [key |-> target[c].key, fp |-> shown[c]])}
  /\ phase' = [phase EXCEPT ![c] = "failed"]
  /\ UNCHANGED <<sshConfig, insecure, begun, target, shown, before>>

\* One O_APPEND write, after which the key is accepted.
AppendKey(c) ==
  /\ phase[c] = "append"
  /\ known' = Append(known, [key |-> target[c].key, fp |-> shown[c]])
  /\ phase' = [phase EXCEPT ![c] = "connected"]
  /\ UNCHANGED <<sshConfig, insecure, begun, target, shown, before>>

Verify(c) ==
  \/ Handshake(c) \/ VerifyGiven(c)
  \/ ReadKnown(c) \/ ReadFails(c) \/ AppendFails(c) \/ AppendKey(c)

\* The caller takes what connect returned.
Return(c) ==
  /\ phase[c] \in {"connected", "failed"}
  /\ phase' = [phase EXCEPT ![c] = "idle"]
  /\ target' = [target EXCEPT ![c] = NoTarget]
  /\ shown' = [shown EXCEPT ![c] = Absent]
  /\ before' = [before EXCEPT ![c] = Absent]
  /\ UNCHANGED <<sshConfig, known, insecure, begun>>
-----------------------------------------------------------------------------
(***************************************************************************)
(* Properties.                                                             *)
(***************************************************************************)

\* verify_known_hosts: a client that begins when its address is recorded is let in
\* with the key recorded first and no other, also when first connections race and
\* append different keys; and whoever is let in leaves the address recorded, so it
\* is never again met for the first time.
TrustOnFirstUse ==
  \A c \in Clients :
    phase[c] = "connected" /\ target[c].policy.check = "known" =>
      /\ before[c] # Absent => shown[c] = before[c]
      /\ \E i \in 1..Len(known) : known[i] = [key |-> target[c].key, fp |-> shown[c]]

\* The inductive invariant behind it: the key an address had when a client began is
\* still the first one, and a client appends only if there was none.
Addresses ==
  {KnownHostsKey(Resolved(request)) : request \in {r \in Requests : Resolved(r).ok}}
    \cup {ForeignLine.key}
Shown == Fingerprints \cup {Absent}
TrustInv ==
  /\ known \in Seq([key : Addresses, fp : Fingerprints \cup {ForeignLine.fp}])
  /\ phase \in [Clients -> {"idle", "handshake", "verify", "append", "connected", "failed"}]
  /\ shown \in [Clients -> Shown] /\ before \in [Clients -> Shown]
  /\ target = [c \in Clients |-> target[c]]
  /\ \A c \in Clients :
       /\ phase[c] # "idle" => target[c].key \in Addresses
       /\ phase[c] \in {"verify", "append"} => shown[c] \in Fingerprints
       /\ before[c] # Absent => Pinned(known, target[c].key) = before[c]
       /\ phase[c] = "append" => before[c] = Absent
  /\ TrustOnFirstUse

\* lookup, over whole configurations: the scan of the file finds what OpenSSH would
\* for every host that is asked for: the first value wins, Match ends a block and
\* Include does not, and a pattern names no alias.
Hosts == {request.args.host : request \in Requests}
LookupExact == \A host \in Hosts : ReadsLikeOpenSSH(sshConfig, host)
=============================================================================
