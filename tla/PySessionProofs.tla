--------------------------- MODULE PySessionProofs ---------------------------
(***************************************************************************)
(* For every set of threads and of clients beside them: two Python threads *)
(* are never inside a Session at once, a session that runs a command is    *)
(* open, host keys are trusted on first use, and what an alias means is    *)
(* what OpenSSH reads in the configuration.                                *)
(***************************************************************************)
EXTENDS PySession, WellFoundedInduction, TLAPS

-----------------------------------------------------------------------------
(***************************************************************************)
(* The first line of an address.                                           *)
(***************************************************************************)
LEMMA FirstExists ==
  ASSUME NEW T, T \subseteq Nat, T # {}
  PROVE  \E i \in T : \A j \in T : i <= j
<1> DEFINE R == {ss \in Nat \X Nat : ss[1] < ss[2]}
<1>1. IsWellFoundedOn(R, Nat)
  BY NatLessThanWellFounded, Zenon DEF OpToRel
<1>2. \A i, j \in Nat : <<j, i>> \in R <=> j < i
  OBVIOUS
<1> HIDE DEF R
<1>3. PICK i \in T : \A j \in T : <<j, i>> \notin R
  BY <1>1, WFMin
<1>4. \A j \in T : ~(j < i)
  BY <1>2, <1>3
<1>5. \A j \in T : i <= j
  <2> TAKE j \in T
  <2>1. i \in Nat /\ j \in Nat
    OBVIOUS
  <2> QED BY <2>1, <1>4
<1> QED
  BY <1>5

LEMMA FirstUnique ==
  ASSUME NEW T, T \subseteq Nat, NEW i \in T, \A j \in T : i <= j
  PROVE  (CHOOSE x \in T : \A j \in T : x <= j) = i
<1>1. \A x \in T : (\A j \in T : x <= j) => x = i
  <2> SUFFICES ASSUME NEW x \in T, \A j \in T : x <= j PROVE x = i
    OBVIOUS
  <2>1. x <= i /\ i <= x /\ x \in Nat /\ i \in Nat
    OBVIOUS
  <2> QED BY <2>1
<1> QED
  BY <1>1

LEMMA ElementType ==
  ASSUME NEW S, NEW s \in Seq(S), NEW i \in 1..Len(s)
  PROVE  s[i] \in S
OBVIOUS

LEMMA ShortSequences ==
  ASSUME NEW S, NEW x \in S
  PROVE  <<>> \in Seq(S) /\ <<x>> \in Seq(S)
OBVIOUS

\* An address that is recorded has the fingerprint of its first line.
LEMMA PinnedLine ==
  ASSUME NEW S, NEW lines \in Seq(S), NEW key, OwnLines(lines, key) # {}
  PROVE  \E i \in OwnLines(lines, key) :
           /\ \A j \in OwnLines(lines, key) : i <= j
           /\ Pinned(lines, key) = lines[i].fp
<1>1. OwnLines(lines, key) \subseteq Nat
  BY DEF OwnLines
<1>2. PICK i \in OwnLines(lines, key) : \A j \in OwnLines(lines, key) : i <= j
  BY <1>1, FirstExists
<1>3. (CHOOSE x \in OwnLines(lines, key) : \A j \in OwnLines(lines, key) : x <= j) = i
  BY <1>1, <1>2, FirstUnique
<1> QED
  BY <1>2, <1>3 DEF Pinned

\* It keeps it whatever is appended, and by whomever.
LEMMA PinnedStays ==
  ASSUME NEW S, NEW lines \in Seq(S), NEW line \in S, NEW key, OwnLines(lines, key) # {}
  PROVE  Pinned(Append(lines, line), key) = Pinned(lines, key)
<1> DEFINE longer == Append(lines, line)
           own == OwnLines(lines, key)
           ownLonger == OwnLines(longer, key)
<1>1. longer \in Seq(S) /\ Len(longer) = Len(lines) + 1
      /\ \A i \in 1..Len(lines) : longer[i] = lines[i]
  OBVIOUS
<1>2. own \subseteq 1..Len(lines) /\ own \subseteq ownLonger
      /\ ownLonger \subseteq own \cup {Len(lines) + 1}
  BY <1>1 DEF OwnLines
<1>3. PICK i \in own : (\A j \in own : i <= j) /\ Pinned(lines, key) = lines[i].fp
  BY PinnedLine
<1>4. PICK k \in ownLonger : (\A j \in ownLonger : k <= j) /\ Pinned(longer, key) = longer[k].fp
  <2>1. ownLonger # {}
    BY <1>2
  <2> QED BY <1>1, <2>1, PinnedLine
<1>5. i = k
  <2>1. i \in 1..Len(lines) /\ k <= i /\ k \in Nat
    BY <1>2, <1>3, <1>4 DEF OwnLines
  <2>2. k \in own
    BY <1>2, <2>1
  <2> QED BY <1>3, <2>1, <2>2
<1> QED
  BY <1>1, <1>2, <1>3, <1>4, <1>5

\* A recorded fingerprint is one that a server can show.
LEMMA PinnedType ==
  ASSUME NEW K, NEW lines \in Seq([key : K, fp : Fingerprints \cup {ForeignLine.fp}]), NEW key
  PROVE  /\ Pinned(lines, key) \in Shown
         /\ Pinned(lines, key) # Absent <=> OwnLines(lines, key) # {}
<1>1. CASE OwnLines(lines, key) = {}
  BY <1>1 DEF Pinned, Shown
<1>2. CASE OwnLines(lines, key) # {}
  <2>1. PICK i \in OwnLines(lines, key) : Pinned(lines, key) = lines[i].fp
    BY <1>2, PinnedLine
  <2>2. i \in 1..Len(lines) /\ lines[i].fp # ForeignLine.fp
    BY DEF OwnLines, Foreign, ForeignLine
  <2>3. lines[i] \in [key : K, fp : Fingerprints \cup {ForeignLine.fp}]
    BY <2>2, ElementType
  <2>4. lines[i].fp \in Fingerprints
    BY <2>2, <2>3
  <2> QED BY <1>2, <2>1, <2>4, KnownHostsAssumption DEF Shown
<1> QED
  BY <1>1, <1>2
-----------------------------------------------------------------------------
LEMMA ConnInitTrust == ConnInit => TrustInv
<1> SUFFICES ASSUME ConnInit PROVE TrustInv
  OBVIOUS
<1>1. known \in Seq([key : Addresses, fp : Fingerprints \cup {ForeignLine.fp}])
  <2>1. ForeignLine \in [key : Addresses, fp : Fingerprints \cup {ForeignLine.fp}]
    BY DEF ForeignLine, Addresses
  <2> QED BY <2>1, ShortSequences DEF ConnInit
<1>2. TrustOnFirstUse
  BY DEF ConnInit, TrustOnFirstUse
<1> QED
  BY <1>1, <1>2 DEF ConnInit, TrustInv, Shown, Absent

LEMMA AddressesKept ==
  ASSUME sshConfig' = sshConfig
  PROVE  Addresses' = Addresses
BY DEF Addresses, Resolved

LEMMA BeginTrust ==
  ASSUME TrustInv, NEW c \in Clients, NEW request \in Requests, Begin(c, request)
  PROVE  TrustInv'
<1>1. Addresses' = Addresses
  BY AddressesKept DEF Begin
<1>2. KnownHostsKey(Resolved(request)) \in Addresses
  BY DEF Addresses, Begin
<1>3. Target(request).key = KnownHostsKey(Resolved(request))
  BY DEF Target
<1>4. Pinned(known, KnownHostsKey(Resolved(request))) \in Shown
  BY PinnedType DEF TrustInv
<1>5. TrustOnFirstUse'
  BY DEF Begin, TrustInv, TrustOnFirstUse
<1> QED
  BY <1>1, <1>2, <1>3, <1>4, <1>5 DEF Begin, TrustInv

LEMMA HandshakeTrust ==
  ASSUME TrustInv, NEW c \in Clients, Handshake(c)
  PROVE  TrustInv'
<1>1. Addresses' = Addresses
  BY AddressesKept DEF Handshake
<1>2. TrustOnFirstUse'
  BY DEF Handshake, TrustInv, TrustOnFirstUse
<1> QED
  BY <1>1, <1>2 DEF Handshake, TrustInv, Shown

LEMMA DecideTrust ==
  ASSUME TrustInv, NEW c \in Clients, NEW verdict \in {"append", "connected", "failed"},
         Decide(c, verdict), phase[c] = "verify",
         verdict = "append" => before[c] = Absent,
         verdict = "connected" /\ target[c].policy.check = "known" =>
           /\ before[c] # Absent => shown[c] = before[c]
           /\ \E i \in 1..Len(known) : known[i] = [key |-> target[c].key, fp |-> shown[c]]
  PROVE  TrustInv'
<1>1. Addresses' = Addresses
  BY AddressesKept DEF Decide
<1>2. TrustOnFirstUse'
  BY DEF Decide, TrustInv, TrustOnFirstUse
<1> QED
  BY <1>1, <1>2 DEF Decide, TrustInv

\* The pin decides, and a client that begins to append has found none.
LEMMA ReadKnownTrust ==
  ASSUME TrustInv, NEW c \in Clients, ReadKnown(c)
  PROVE  TrustInv'
<1> DEFINE pin == Pinned(known, target[c].key)
           entry == [key |-> target[c].key, fp |-> shown[c]]
<1>1. phase[c] = "verify" /\ shown[c] \in Fingerprints
  BY DEF ReadKnown, TrustInv
<1>2. CASE pin = shown[c]
  <2>1. Decide(c, "connected")
    BY <1>2 DEF ReadKnown, Verdict
  <2>2. pin # Absent
    BY <1>1, <1>2, KnownHostsAssumption
  <2>3. OwnLines(known, target[c].key) # {}
    BY <2>2 DEF Pinned
  <2>4. PICK i \in OwnLines(known, target[c].key) : pin = known[i].fp
    <3>1. known \in Seq([key : Addresses, fp : Fingerprints \cup {ForeignLine.fp}])
      BY DEF TrustInv
    <3> QED BY <2>3, <3>1, PinnedLine
  <2>5. i \in 1..Len(known) /\ known[i] = entry
    <3>1. known \in Seq([key : Addresses, fp : Fingerprints \cup {ForeignLine.fp}])
      BY DEF TrustInv
    <3>2. i \in 1..Len(known) /\ known[i].key = target[c].key
      BY DEF OwnLines
    <3>3. known[i] \in [key : Addresses, fp : Fingerprints \cup {ForeignLine.fp}]
      BY <3>1, <3>2, ElementType
    <3> QED BY <1>2, <2>4, <3>2, <3>3
  <2>6. before[c] # Absent => shown[c] = before[c]
    BY <1>2 DEF TrustInv
  <2> QED BY <1>1, <2>1, <2>5, <2>6, DecideTrust
<1>3. CASE pin # shown[c] /\ pin = Absent /\ Decide(c, "append")
  <2>1. before[c] = Absent
    BY <1>3 DEF TrustInv
  <2> QED BY <1>1, <1>3, <2>1, DecideTrust
<1>4. CASE Decide(c, "failed")
  BY <1>1, <1>4, DecideTrust
<1>5. \/ pin = shown[c]
      \/ pin # shown[c] /\ pin = Absent /\ Decide(c, "append")
      \/ Decide(c, "failed")
  BY DEF ReadKnown, Verdict
<1> QED
  BY <1>2, <1>3, <1>4, <1>5

\* A line more changes the key of no address that had one.
LEMMA AppendedTrust ==
  ASSUME TrustInv, NEW c \in Clients, phase[c] = "append",
         known' = Append(known, [key |-> target[c].key, fp |-> shown[c]]),
         NEW verdict \in {"connected", "failed"}, phase' = [phase EXCEPT ![c] = verdict],
         UNCHANGED <<sshConfig, insecure, begun, target, shown, before>>
  PROVE  TrustInv'
<1> DEFINE entry == [key |-> target[c].key, fp |-> shown[c]]
           Lines == [key : Addresses, fp : Fingerprints \cup {ForeignLine.fp}]
<1>1. Addresses' = Addresses
  BY AddressesKept
<1>2. entry \in Lines /\ known \in Seq(Lines)
  BY DEF TrustInv
<1>3. known' \in Seq(Lines) /\ Len(known') = Len(known) + 1 /\ known'[Len(known) + 1] = entry
      /\ \A i \in 1..Len(known) : known'[i] = known[i]
  BY <1>2
<1>4. ASSUME NEW d \in Clients, before[d] # Absent
      PROVE  Pinned(known', target[d].key) = before[d]
  <2>0. PICK key : key = target[d].key
    OBVIOUS
  <2>1. Pinned(known, key) = before[d]
    BY <1>4, <2>0 DEF TrustInv
  <2>2. OwnLines(known, key) # {}
    BY <1>4, <2>1 DEF Pinned
  <2>3. Pinned(Append(known, entry), key) = Pinned(known, key)
    BY <1>2, <2>2, PinnedStays
  <2> QED BY <2>0, <2>1, <2>3
<1>5. TrustOnFirstUse'
  <2> SUFFICES ASSUME NEW d \in Clients, phase'[d] = "connected", target[d].policy.check = "known"
               PROVE  /\ before[d] # Absent => shown[d] = before[d]
                      /\ \E i \in 1..Len(known') : known'[i] = [key |-> target[d].key, fp |-> shown[d]]
    BY DEF TrustOnFirstUse
  <2>1. CASE d = c
    BY <1>3, <2>1 DEF TrustInv
  <2>2. CASE d # c
    <3>1. phase[d] = "connected"
      BY <2>2 DEF TrustInv
    <3>2. PICK i \in 1..Len(known) : known[i] = [key |-> target[d].key, fp |-> shown[d]]
      BY <3>1 DEF TrustInv, TrustOnFirstUse
    <3>3. i \in 1..Len(known') /\ known'[i] = known[i]
      BY <1>2, <1>3
    <3> QED BY <3>1, <3>2, <3>3 DEF TrustInv, TrustOnFirstUse
  <2> QED BY <2>1, <2>2
<1> QED
  BY <1>1, <1>3, <1>4, <1>5 DEF TrustInv, ForeignLine

LEMMA VerifyTrust ==
  ASSUME TrustInv, NEW c \in Clients, Verify(c)
  PROVE  TrustInv'
<1>1. CASE Handshake(c)
  BY <1>1, HandshakeTrust
<1>2. CASE VerifyGiven(c)
  <2>1. PICK verdict \in {"connected", "failed"} : Decide(c, verdict)
    BY <1>2 DEF VerifyGiven
  <2> QED BY <1>2, <2>1, DecideTrust DEF VerifyGiven
<1>3. CASE ReadKnown(c)
  BY <1>3, ReadKnownTrust
<1>4. CASE ReadFails(c)
  BY <1>4, DecideTrust DEF ReadFails
<1>5. CASE AppendFails(c)
  <2>1. CASE known' = known
    <3>1. Addresses' = Addresses
      BY <1>5, AddressesKept DEF AppendFails
    <3>2. TrustOnFirstUse'
      BY <1>5, <2>1 DEF AppendFails, TrustInv, TrustOnFirstUse
    <3> QED BY <1>5, <2>1, <3>1, <3>2 DEF AppendFails, TrustInv
  <2>2. CASE known' # known
    BY <1>5, <2>2, AppendedTrust DEF AppendFails
  <2> QED BY <2>1, <2>2
<1>6. CASE AppendKey(c)
  BY <1>6, AppendedTrust DEF AppendKey
<1> QED
  BY <1>1, <1>2, <1>3, <1>4, <1>5, <1>6 DEF Verify

LEMMA ReturnTrust ==
  ASSUME TrustInv, NEW c \in Clients, Return(c)
  PROVE  TrustInv'
<1>1. Addresses' = Addresses
  BY AddressesKept DEF Return
<1>2. TrustOnFirstUse'
  BY DEF Return, TrustInv, TrustOnFirstUse
<1> QED
  BY <1>1, <1>2 DEF Return, TrustInv, Shown, Absent

LEMMA UnchangedTrust ==
  ASSUME TrustInv, UNCHANGED connVars
  PROVE  TrustInv'
<1>1. Addresses' = Addresses
  BY AddressesKept DEF connVars
<1>2. TrustOnFirstUse'
  BY DEF connVars, TrustInv, TrustOnFirstUse
<1> QED
  BY <1>1, <1>2 DEF connVars, TrustInv
-----------------------------------------------------------------------------
(***************************************************************************)
(* The methods of PySession and its mutex.                                 *)
(***************************************************************************)
LEMMA InitExclusive == Init => ExclusiveInv
BY ThreadsAssumption DEF Init, ExclusiveInv, InMutex, Outside

\* A thread goes from one place outside the Session to another one, and the mutex
\* and the Session stay as they are.
LEMMA OutsideKeeps ==
  ASSUME ExclusiveInv, NEW t \in Threads, NEW place \in Outside,
         pc[t] \in Outside, Goto(t, place), UNCHANGED <<mutex, inner>>
  PROVE  ExclusiveInv'
BY DEF ExclusiveInv, InMutex, Goto, Outside, Inside

LEMMA PyUnchangedKeeps ==
  ASSUME ExclusiveInv, UNCHANGED pyVars
  PROVE  ExclusiveInv'
BY DEF ExclusiveInv, InMutex, pyVars

\* Each step of the methods that lock.
LEMMA MethodsKeep ==
  ASSUME ExclusiveInv, NEW t \in Threads, Methods(t)
  PROVE  ExclusiveInv'
<1>1. CASE LockPanics(t)
  <2>1. pc[t] \in Outside /\ Goto(t, "python") /\ UNCHANGED <<mutex, inner>>
    BY <1>1 DEF LockPanics, Outside
  <2> QED BY <2>1, OutsideKeeps DEF Outside
<1>2. CASE ExecLocks(t)
  <2>1. CASE inner = "open"
    BY <1>2, <2>1, ThreadsAssumption DEF ExecLocks, ExclusiveInv, InMutex, Goto, Outside, Inside
  <2>2. CASE inner # "open"
    <3>1. pc[t] \in Outside /\ Goto(t, "python") /\ UNCHANGED <<mutex, inner>>
      BY <1>2, <2>2 DEF ExecLocks, Outside
    <3> QED BY <3>1, OutsideKeeps DEF Outside
  <2> QED BY <2>1, <2>2
<1>3. CASE CommandEnds(t)
  BY <1>3 DEF CommandEnds, ExclusiveInv, InMutex, Goto, Outside, Inside
<1>4. CASE ExecReturns(t)
  BY <1>4, ThreadsAssumption DEF ExecReturns, ExclusiveInv, InMutex, Goto, Outside, Inside
<1>5. CASE ExecPanics(t)
  BY <1>5, ThreadsAssumption DEF ExecPanics, ExclusiveInv, InMutex, Goto, Outside, Inside
<1>6. CASE Peeks(t)
  <2>1. pc[t] \in Outside /\ Goto(t, "python") /\ UNCHANGED <<mutex, inner>>
    BY <1>6 DEF Peeks, Outside
  <2> QED BY <2>1, OutsideKeeps DEF Outside
<1>7. CASE Takes(t)
  <2>1. \A u \in Threads : pc[u] # "running"
    BY <1>7, ThreadsAssumption DEF Takes, ExclusiveInv, InMutex
  <2>2. CASE inner = "open"
    <3>1. \A u \in Threads : pc[u] # "closing"
      BY <2>2 DEF ExclusiveInv
    <3> QED BY <1>7, <2>1, <2>2, <3>1 DEF Takes, ExclusiveInv, InMutex, Goto, Outside, Inside
  <2>3. CASE inner # "open"
    BY <1>7, <2>1, <2>3 DEF Takes, ExclusiveInv, InMutex, Goto, Outside, Inside
  <2> QED BY <2>2, <2>3
<1>8. CASE Closed(t)
  BY <1>8 DEF Closed, ExclusiveInv, InMutex, Goto, Outside, Inside
<1> QED
  BY <1>1, <1>2, <1>3, <1>4, <1>5, <1>6, <1>7, <1>8 DEF Methods

\* The session that the threads share is made once, and so before it is used.
LEMMA ConstructedKeeps ==
  ASSUME ExclusiveInv, NEW t \in Threads, Constructed(t)
  PROVE  ExclusiveInv'
<1>1. pc[t] = "connecting" /\ Goto(t, "python") /\ mutex' = mutex
  BY DEF Constructed
<1>2. inner' = inner \/ (inner = "none" /\ inner' = "open")
  BY DEF Constructed
<1>3. inner = "none" => \A u \in Threads : pc[u] \notin {"running", "closing"}
  BY DEF ExclusiveInv
<1> QED
  BY <1>1, <1>2, <1>3 DEF ExclusiveInv, InMutex, Goto, Outside

LEMMA InterpreterKeeps ==
  ASSUME ExclusiveInv, NEW t \in Threads, Interpreter(t)
  PROVE  ExclusiveInv'
<1>1. CASE TakeGil(t)
  <2>1. pc[t] \in Outside /\ Goto(t, "python") /\ UNCHANGED <<mutex, inner>>
    BY <1>1 DEF TakeGil, Outside
  <2> QED BY <2>1, OutsideKeeps DEF Outside
<1>2. CASE LeaveGil(t)
  <2>1. pc[t] \in Outside /\ Goto(t, "elsewhere") /\ UNCHANGED <<mutex, inner>>
    BY <1>2 DEF LeaveGil, Python, Outside
  <2> QED BY <2>1, OutsideKeeps DEF Outside
<1>3. CASE \E request \in Requests : Construct(t, request)
  <2>1. pc[t] \in Outside /\ Goto(t, "connecting") /\ UNCHANGED <<mutex, inner>>
    BY <1>3 DEF Construct, Python, Outside
  <2> QED BY <2>1, OutsideKeeps DEF Outside
<1>4. CASE \E request \in Requests : ConstructRefused(t, request)
  BY <1>4, PyUnchangedKeeps DEF ConstructRefused
<1>5. CASE Constructed(t)
  BY <1>5, ConstructedKeeps
<1>6. CASE Exec(t) \/ IsPoisoned(t) \/ Close(t)
  <2>1. PICK place \in {"lockExec", "lockPeek", "lockClose"} : Call(t, place)
    BY <1>6 DEF Exec, IsPoisoned, Close
  <2>2. pc[t] \in Outside /\ Goto(t, place) /\ UNCHANGED <<mutex, inner>>
    BY <2>1 DEF Call, Python, Outside
  <2>3. place \in Outside
    BY <2>1 DEF Outside
  <2> QED BY <2>2, <2>3, OutsideKeeps
<1>7. CASE Methods(t)
  BY <1>7, MethodsKeep
<1> QED
  BY <1>1, <1>2, <1>3, <1>4, <1>5, <1>6, <1>7 DEF Interpreter

LEMMA NextExclusive == ExclusiveInv /\ [Next]_vars => ExclusiveInv'
<1> SUFFICES ASSUME ExclusiveInv, [Next]_vars PROVE ExclusiveInv'
  OBVIOUS
<1>1. CASE \E t \in Threads : Interpreter(t)
  BY <1>1, InterpreterKeeps
<1>2. CASE UNCHANGED pyVars
  BY <1>2, PyUnchangedKeeps
<1> QED
  BY <1>1, <1>2 DEF Next, vars

\* For any number of threads, whoever connects beside them: one thread at a time is
\* in a Session, and none runs a command in a closed one.
THEOREM ExclusiveCorrect == Spec => []Exclusive
<1>1. ExclusiveInv => Exclusive
  BY ThreadsAssumption DEF ExclusiveInv, Exclusive, InSession, InMutex
<1> QED
  BY InitExclusive, NextExclusive, <1>1, PTL DEF Spec
-----------------------------------------------------------------------------
(***************************************************************************)
(* Trust on first use: every step of a thread is one of its connection, or *)
(* leaves the connections alone.                                           *)
(***************************************************************************)
LEMMA InterpreterTrust ==
  ASSUME TrustInv, NEW t \in Threads, Interpreter(t)
  PROVE  TrustInv'
<1>0. t \in Clients
  BY ThreadsAssumption
<1>1. CASE \E request \in Requests : Construct(t, request)
  BY <1>0, <1>1, BeginTrust DEF Construct
<1>2. CASE \E request \in Requests : ConstructRefused(t, request)
  BY <1>2, UnchangedTrust DEF ConstructRefused, Refused
<1>3. CASE Constructed(t)
  BY <1>0, <1>3, ReturnTrust DEF Constructed
<1>4. CASE TakeGil(t) \/ LeaveGil(t) \/ Exec(t) \/ IsPoisoned(t) \/ Close(t) \/ Methods(t)
  <2>1. UNCHANGED connVars
    BY <1>4 DEF TakeGil, LeaveGil, Exec, IsPoisoned, Close, Call, Methods, LockPanics, ExecLocks,
                CommandEnds, ExecReturns, ExecPanics, Peeks, Takes, Closed
  <2> QED BY <2>1, UnchangedTrust
<1> QED
  BY <1>1, <1>2, <1>3, <1>4 DEF Interpreter

LEMMA OtherProgramTrust ==
  ASSUME TrustInv, NEW c \in Clients, OtherProgram(c)
  PROVE  TrustInv'
<1>1. CASE \E request \in Requests : Begin(c, request)
  BY <1>1, BeginTrust
<1>2. CASE \E request \in Requests : Refused(c, request)
  BY <1>2, UnchangedTrust DEF Refused
<1>3. CASE Return(c)
  BY <1>3, ReturnTrust
<1> QED
  BY <1>1, <1>2, <1>3 DEF OtherProgram

LEMMA NextTrust == TrustInv /\ [Next]_vars => TrustInv'
<1> SUFFICES ASSUME TrustInv, [Next]_vars PROVE TrustInv'
  OBVIOUS
<1>1. CASE \E t \in Threads : Interpreter(t)
  BY <1>1, InterpreterTrust
<1>2. CASE \E c \in Clients : Verify(c)
  BY <1>2, VerifyTrust
<1>3. CASE \E c \in Clients : OtherProgram(c)
  BY <1>3, OtherProgramTrust
<1>4. CASE UNCHANGED vars
  BY <1>4, UnchangedTrust DEF vars
<1> QED
  BY <1>1, <1>2, <1>3, <1>4 DEF Next

\* For every file, every set of host keys and every race of first connections: a
\* client that begins when its address is recorded is let in with the first key
\* recorded only, and whoever is let in leaves the address recorded.
THEOREM TrustOnFirstUseCorrect == Spec => []TrustOnFirstUse
<1>1. Init => TrustInv
  BY ConnInitTrust DEF Init
<1>2. TrustInv => TrustOnFirstUse
  BY DEF TrustInv
<1> QED
  BY <1>1, NextTrust, <1>2, PTL DEF Spec
-----------------------------------------------------------------------------
(***************************************************************************)
(* Lookup in ssh_config. The scan is a recursive function; what it has     *)
(* found after n lines is shown by induction.                              *)
(***************************************************************************)
\* Induction over the numbers, for a set of them.
LEMMA SetInduction ==
  ASSUME NEW T, 0 \in T, \A n \in Nat : n \in T => n + 1 \in T
  PROVE  \A n \in Nat : n \in T
<1> DEFINE U == Nat \ T
<1> SUFFICES ASSUME U # {} PROVE FALSE
  OBVIOUS
<1>1. PICK x \in U : \A y \in U : x <= y
  <2>1. U \subseteq Nat
    OBVIOUS
  <2> HIDE DEF U
  <2> QED
    BY <2>1, FirstExists
<1>2. x \in Nat /\ x \notin T /\ x # 0
  OBVIOUS
<1>3. x - 1 \in Nat /\ (x - 1) + 1 = x
  BY <1>2
<1>4. x - 1 \notin T
  BY <1>2, <1>3
<1>5. x - 1 \in U
  BY <1>3, <1>4
<1> QED
  BY <1>1, <1>2, <1>5

\* The scan of lookup, line by line.
Scans(lines, alias, f) ==
  f = [n \in 0..Len(lines) |-> IF n = 0 THEN ScanStart ELSE ScanLine(alias, f[n - 1], lines[n])]

LEMMA ScansOn ==
  ASSUME NEW S, NEW lines \in Seq(S), NEW alias, NEW f, Scans(lines, alias, f)
  PROVE  f[0] = ScanStart /\ \A n \in 1..Len(lines) : f[n] = ScanLine(alias, f[n - 1], lines[n])
<1>1. PICK l \in Nat : l = Len(lines)
  OBVIOUS
<1>2. f = [n \in 0..l |-> IF n = 0 THEN ScanStart ELSE ScanLine(alias, f[n - 1], lines[n])]
  BY <1>1, Zenon DEF Scans
<1>3. 0 \in 0..l
  BY <1>1
<1>4. f[0] = ScanStart
  BY <1>2, <1>3
<1>5. ASSUME NEW n \in 1..l PROVE f[n] = ScanLine(alias, f[n - 1], lines[n])
  <2>1. n \in 0..l /\ n # 0
    BY <1>1
  <2> QED
    BY <1>2, <2>1
<1> QED
  BY <1>1, <1>4, <1>5

\* There is one.
LEMMA ScanExists ==
  ASSUME NEW S, NEW lines \in Seq(S), NEW alias
  PROVE  \E f : Scans(lines, alias, f)
<1> DEFINE Upto(n, f) ==
             f = [i \in 0..n |-> IF i = 0 THEN ScanStart ELSE ScanLine(alias, f[i - 1], lines[i])]
           T == {n \in Nat : \E f : Upto(n, f)}
<1>1. 0 \in T
  <2> DEFINE f == [i \in {0} |-> ScanStart]
  <2>1. 0..0 = {0}
    OBVIOUS
  <2>2. Upto(0, f)
    BY <2>1
  <2>3. \E h : Upto(0, h)
    BY <2>2, Zenon
  <2> HIDE DEF Upto
  <2> QED
    BY <2>3
<1>2. ASSUME NEW n \in Nat, n \in T PROVE n + 1 \in T
  <2>1. PICK f : Upto(n, f)
    BY <1>2
  <2> DEFINE x == ScanLine(alias, f[n], lines[n + 1])
  <2> HIDE DEF x
  <2> DEFINE g == [i \in 0..(n + 1) |-> IF i = n + 1 THEN x ELSE f[i]]
  <2>2. ASSUME NEW i \in 0..(n + 1)
        PROVE  g[i] = IF i = 0 THEN ScanStart ELSE ScanLine(alias, g[i - 1], lines[i])
    <3>1. CASE i = 0
      <4>1. i \in 0..n /\ i # n + 1
        BY <3>1
      <4>2. f[i] = ScanStart
        BY <2>1, <3>1, <4>1
      <4> QED
        BY <3>1, <4>1, <4>2
    <3>2. CASE i = n + 1
      <4>1. i # 0 /\ i - 1 = n /\ n \in 0..(n + 1) /\ n # n + 1
        BY <3>2
      <4>2. g[i] = x /\ g[i - 1] = f[n]
        BY <3>2, <4>1
      <4> QED
        BY <3>2, <4>1, <4>2, Zenon DEF x
    <3>3. CASE i # 0 /\ i # n + 1
      <4>1. i \in 0..n /\ i - 1 \in 0..(n + 1) /\ i - 1 # n + 1
        BY <3>3
      <4>2. g[i] = f[i] /\ g[i - 1] = f[i - 1]
        BY <3>3, <4>1
      <4>3. f[i] = ScanLine(alias, f[i - 1], lines[i])
        BY <2>1, <3>3, <4>1
      <4> QED
        BY <3>3, <4>2, <4>3, Zenon
    <3> QED
      BY <3>1, <3>2, <3>3
  <2>3. g = [i \in 0..(n + 1) |-> g[i]]
    OBVIOUS
  <2> HIDE DEF g
  <2>4. Upto(n + 1, g)
    BY <2>2, <2>3
  <2>5. \E h : Upto(n + 1, h)
    BY <2>4, Zenon
  <2>6. n + 1 \in Nat
    OBVIOUS
  <2> HIDE DEF Upto
  <2> QED
    BY <2>5, <2>6
<1> HIDE DEF T
<1>3. \A n \in Nat : n \in T
  BY <1>1, <1>2, SetInduction
<1>4. Len(lines) \in T
  BY <1>3
<1> QED
  BY <1>4, Zenon DEF Scans, T

\* Lookup is its end.
LEMMA LookupScans ==
  ASSUME NEW S, NEW lines \in Seq(S), NEW alias
  PROVE  \E f : /\ Scans(lines, alias, f)
                /\ Lookup(lines, alias) =
                     IF f[Len(lines)].matched
                     THEN [matched |-> TRUE, entry |-> f[Len(lines)].entry] ELSE NoAlias
<1> DEFINE r == CHOOSE f : Scans(lines, alias, f)
<1>1. Scans(lines, alias, r)
  BY ScanExists, Zenon
<1>2. Lookup(lines, alias) =
        IF r[Len(lines)].matched THEN [matched |-> TRUE, entry |-> r[Len(lines)].entry] ELSE NoAlias
  BY Zenon DEF Lookup, Scans
<1> QED
  BY <1>1, <1>2, Zenon

\* The block the next line stands in.
LEMMA BlockStep ==
  ASSUME NEW lines, NEW alias, NEW n \in Nat, n # 0
  PROVE  InBlockOf(lines, alias, n + 1) <=>
           IF lines[n].key = "host" THEN Names(lines[n].value, alias)
           ELSE lines[n].key # "match" /\ InBlockOf(lines, alias, n)
<1> DEFINE heads(i) == {j \in 1..(i - 1) : lines[j].key \in {"host", "match"}}
           Latest(i, j) == /\ \A k \in heads(i) : k <= j
                         /\ lines[j].key = "host" /\ Names(lines[j].value, alias)
<1>1. \A i : InBlockOf(lines, alias, i) <=> \E j \in heads(i) : Latest(i, j)
  BY Zenon DEF InBlockOf
<1>2. \A j : j \in heads(n + 1) <=> j \in heads(n) \/ (j = n /\ lines[n].key \in {"host", "match"})
  <2>1. \A j : j \in 1..((n + 1) - 1) <=> j \in 1..(n - 1) \/ j = n
    OBVIOUS
  <2> QED
    BY <2>1
<1>3. \A j \in heads(n) : j \in Nat /\ j < n
  OBVIOUS
<1>4. CASE lines[n].key = "host"
  <2>1. n \in heads(n + 1) /\ \A k \in heads(n + 1) : k <= n
    BY <1>2, <1>3, <1>4
  <2>2. \A j \in heads(n + 1) : Latest(n + 1, j) => j = n
    <3> TAKE j \in heads(n + 1)
    <3> HAVE Latest(n + 1, j)
    <3>1. n <= j /\ j <= n /\ j \in Nat
      BY <1>2, <1>3, <2>1
    <3> QED
      BY <3>1
  <2>3. Latest(n + 1, n) <=> Names(lines[n].value, alias)
    BY <1>4, <2>1
  <2> HIDE DEF heads, Latest
  <2> QED
    BY <1>1, <1>4, <2>1, <2>2, <2>3, Zenon
<1>5. CASE lines[n].key = "match"
  <2>1. n \in heads(n + 1)
    BY <1>2, <1>5
  <2>2. \A j \in heads(n + 1) : ~Latest(n + 1, j)
    <3> TAKE j \in heads(n + 1)
    <3> SUFFICES ASSUME Latest(n + 1, j) PROVE FALSE
      OBVIOUS
    <3>1. n <= j /\ lines[j].key = "host" /\ (j = n \/ (j \in Nat /\ j < n))
      BY <1>2, <1>3, <2>1
    <3> QED
      BY <1>5, <3>1
  <2> HIDE DEF heads, Latest
  <2> QED
    BY <1>1, <1>5, <2>2, Zenon
<1>6. CASE lines[n].key \notin {"host", "match"}
  <2>1. \A j : j \in heads(n + 1) <=> j \in heads(n)
    BY <1>2, <1>6
  <2>2. \A j : Latest(n + 1, j) <=> Latest(n, j)
    BY <2>1
  <2>3. lines[n].key # "host" /\ lines[n].key # "match"
    BY <1>6
  <2> HIDE DEF heads, Latest
  <2> QED
    BY <1>1, <2>1, <2>2, <2>3, Zenon
<1> QED
  BY <1>4, <1>5, <1>6

\* A line of another keyword, or outside the alias's blocks, gives no value.
LEMMA GivenKept ==
  ASSUME NEW lines, NEW alias, NEW key, NEW n \in Nat,
         \/ lines[n + 1].key # key
         \/ ~InBlockOf(lines, alias, n + 1)
         \/ key = "port" /\ lines[n + 1].value = Unparsed
  PROVE  Given(lines, alias, key, n + 1) = Given(lines, alias, key, n)
<1>1. \A i : i \in 1..(n + 1) <=> i \in 1..n \/ i = n + 1
  OBVIOUS
<1> QED
  BY <1>1 DEF Given

\* Any other comes last among those up to it.
LEMMA GivenMore ==
  ASSUME NEW lines, NEW alias, NEW key, NEW n \in Nat,
         lines[n + 1].key = key, InBlockOf(lines, alias, n + 1),
         key # "port" \/ lines[n + 1].value # Unparsed
  PROVE  Given(lines, alias, key, n + 1) = Given(lines, alias, key, n) \cup {n + 1}
<1>1. \A i : i \in 1..(n + 1) <=> i \in 1..n \/ i = n + 1
  OBVIOUS
<1> QED
  BY <1>1 DEF Given

\* Which lines these are.
LEMMA GivenBefore ==
  ASSUME NEW lines, NEW alias, NEW key, NEW n
  PROVE  Given(lines, alias, key, n) \subseteq 1..n
BY DEF Given

\* No line gives a value.
LEMMA GivenNone ==
  ASSUME NEW lines, NEW alias, NEW key
  PROVE  Given(lines, alias, key, 0) = {}
BY DEF Given

\* The first value stays; before it there is none.
LEMMA FirstStep ==
  ASSUME NEW lines, NEW n \in Nat, NEW given, given \subseteq 1..n, NEW value,
         IsFirst(lines, given, value), \A i \in given : lines[i].value # Absent
  PROVE  IsFirst(lines, given \cup {n + 1}, Or(value, lines[n + 1].value))
<1>1. CASE given = {}
  <2>1. value = Absent
    BY <1>1 DEF IsFirst
  <2>2. Or(value, lines[n + 1].value) = lines[n + 1].value
    BY <2>1 DEF Or
  <2>3. n + 1 \in given \cup {n + 1} /\ \A j \in given \cup {n + 1} : n + 1 <= j
    BY <1>1
  <2> QED
    BY <2>2, <2>3 DEF IsFirst
<1>2. CASE given # {}
  <2>1. PICK i \in given : value = lines[i].value /\ \A j \in given : i <= j
    BY <1>2 DEF IsFirst
  <2>2. Or(value, lines[n + 1].value) = value
    BY <2>1 DEF Or
  <2>3. i \in given \cup {n + 1} /\ \A j \in given \cup {n + 1} : i <= j
    BY <2>1
  <2> QED
    BY <2>1, <2>2, <2>3 DEF IsFirst
<1> QED
  BY <1>1, <1>2

\* One more value comes after the others.
LEMMA OrderStep ==
  ASSUME NEW lines, NEW n \in Nat, NEW given, given \subseteq 1..n, NEW S, NEW values \in Seq(S),
         InOrder(lines, given, values), lines[n + 1].value \in S
  PROVE  InOrder(lines, given \cup {n + 1}, Append(values, lines[n + 1].value))
<1>1. PICK l \in Nat : l = Len(values)
  OBVIOUS
<1>2. PICK at \in [1..l -> given] :
        /\ \A m \in 1..l : values[m] = lines[at[m]].value
        /\ \A m, k \in 1..l : m < k => at[m] < at[k]
        /\ \A i \in given : \E m \in 1..l : at[m] = i
  BY <1>1, Zenon DEF InOrder
<1>3. PICK w : w = Append(values, lines[n + 1].value)
  OBVIOUS
<1>4. Len(w) = l + 1 /\ w[l + 1] = lines[n + 1].value /\ \A m \in 1..l : w[m] = values[m]
  BY <1>1, <1>3
<1>5. PICK to : to = [m \in 1..(l + 1) |-> IF m = l + 1 THEN n + 1 ELSE at[m]]
  OBVIOUS
<1>6. to[l + 1] = n + 1 /\ \A m \in 1..l : to[m] = at[m]
  BY <1>5
<1>7. to \in [1..(l + 1) -> given \cup {n + 1}]
  <2>1. ASSUME NEW m \in 1..(l + 1) PROVE (IF m = l + 1 THEN n + 1 ELSE at[m]) \in given \cup {n + 1}
    <3>1. m = l + 1 \/ m \in 1..l
      OBVIOUS
    <3> QED
      BY <3>1
  <2> QED
    BY <1>5, <2>1
<1>8. ASSUME NEW m \in 1..(l + 1) PROVE w[m] = lines[to[m]].value
  <2>1. m = l + 1 \/ m \in 1..l
    OBVIOUS
  <2> QED
    BY <1>2, <1>4, <1>6, <2>1
<1>9. ASSUME NEW m \in 1..(l + 1), NEW k \in 1..(l + 1), m < k PROVE to[m] < to[k]
  <2>1. m \in 1..l /\ (k = l + 1 \/ k \in 1..l)
    BY <1>9
  <2>2. at[m] \in 1..n
    BY <1>2, <2>1
  <2> QED
    BY <1>2, <1>6, <1>9, <2>1, <2>2
<1>10. ASSUME NEW i \in given \cup {n + 1} PROVE \E m \in 1..(l + 1) : to[m] = i
  <2>1. l + 1 \in 1..(l + 1) /\ \A m \in 1..l : m \in 1..(l + 1)
    OBVIOUS
  <2>2. CASE i = n + 1
    BY <1>6, <2>1, <2>2
  <2>3. CASE i \in given
    BY <1>2, <1>6, <2>1, <2>3
  <2> QED
    BY <2>2, <2>3
<1>11. InOrder(lines, given \cup {n + 1}, w)
  <2>1. Len(w) = l + 1
    BY <1>4
  <2>2. to \in [1..Len(w) -> given \cup {n + 1}]
    BY <1>7, <2>1, Zenon
  <2>3. \A m \in 1..Len(w) : w[m] = lines[to[m]].value
    BY <1>8, <2>1, Zenon
  <2>4. \A m, k \in 1..Len(w) : m < k => to[m] < to[k]
    BY <1>9, <2>1, Zenon
  <2>5. \A i \in given \cup {n + 1} : \E m \in 1..Len(w) : to[m] = i
    BY <1>10, <2>1, Zenon
  <2> QED
    BY <2>2, <2>3, <2>4, <2>5, Zenon DEF InOrder
<1> QED
  BY <1>3, <1>11

\* What the scan has found after n lines.
Scanned(lines, alias, n, b, m, h, u, p, k) ==
  /\ b \in BOOLEAN /\ m \in BOOLEAN /\ k \in Seq({lines[i].value : i \in 1..Len(lines)})
  /\ b <=> InBlockOf(lines, alias, n + 1)
  /\ m <=> \E i \in 1..n : lines[i].key = "host" /\ Names(lines[i].value, alias)
  /\ IsFirst(lines, Given(lines, alias, "hostname", n), h)
  /\ IsFirst(lines, Given(lines, alias, "user", n), u)
  /\ IsFirst(lines, Given(lines, alias, "port", n), p)
  /\ InOrder(lines, Given(lines, alias, "identityfile", n), k)

\* The scan's record.
State(b, m, h, u, p, k) ==
  [inBlock |-> b, matched |-> m, entry |-> [hostname |-> h, user |-> u, port |-> p, keys |-> k]]

\* Before the first line.
LEMMA ScanNothing ==
  ASSUME NEW lines, NEW alias
  PROVE  /\ ScanStart = State(FALSE, FALSE, Absent, Absent, Absent, <<>>)
         /\ Scanned(lines, alias, 0, FALSE, FALSE, Absent, Absent, Absent, <<>>)
<1>1. ScanStart = State(FALSE, FALSE, Absent, Absent, Absent, <<>>)
  BY DEF ScanStart, NoEntry, State
<1>2. ~InBlockOf(lines, alias, 0 + 1)
  BY DEF InBlockOf
<1>3. IsFirst(lines, {}, Absent)
  BY DEF IsFirst
<1>4. InOrder(lines, {}, <<>>)
  <2>1. Len(<<>>) = 0
    OBVIOUS
  <2> DEFINE at == [i \in {} |-> i]
  <2>2. 1..0 = {}
    OBVIOUS
  <2>3. at \in [1..0 -> {}]
    BY <2>2
  <2> QED
    BY <2>1, <2>2, <2>3 DEF InOrder
<1>5. \A key : Given(lines, alias, key, 0) = {}
  BY GivenNone
<1>6. ~\E i \in 1..0 : lines[i].key = "host" /\ Names(lines[i].value, alias)
  OBVIOUS
<1>7. <<>> \in Seq({lines[i].value : i \in 1..Len(lines)})
  OBVIOUS
<1> QED
  BY <1>1, <1>2, <1>3, <1>4, <1>5, <1>6, <1>7, Zenon DEF Scanned

\* The names so far, if the next line is no Host line.
LEMMA NamedKept ==
  ASSUME NEW lines, NEW alias, NEW n \in Nat, lines[n + 1].key # "host"
  PROVE  (\E i \in 1..(n + 1) : lines[i].key = "host" /\ Names(lines[i].value, alias)) <=>
           (\E i \in 1..n : lines[i].key = "host" /\ Names(lines[i].value, alias))
<1>1. \A i : i \in 1..(n + 1) <=> i \in 1..n \/ i = n + 1
  OBVIOUS
<1> QED
  BY <1>1

\* A Host line.
LEMMA HostLine ==
  ASSUME NEW lines, NEW alias, NEW n \in Nat, lines[n + 1].key = "host",
         NEW b, NEW m, NEW h, NEW u, NEW p, NEW k, Scanned(lines, alias, n, b, m, h, u, p, k)
  PROVE  LET here == Names(lines[n + 1].value, alias)
         IN /\ ScanLine(alias, State(b, m, h, u, p, k), lines[n + 1]) = State(here, m \/ here, h, u, p, k)
            /\ Scanned(lines, alias, n + 1, here, m \/ here, h, u, p, k)
<1> DEFINE here == Names(lines[n + 1].value, alias)
<1>1. here \in BOOLEAN
  BY DEF Names
<1>2. here <=> InBlockOf(lines, alias, (n + 1) + 1)
  <2>1. n + 1 \in Nat /\ n + 1 # 0
    OBVIOUS
  <2> QED
    BY <2>1, BlockStep
<1>3. ScanLine(alias, State(b, m, h, u, p, k), lines[n + 1]) = State(here, m \/ here, h, u, p, k)
  BY DEF ScanLine, State
<1>4. (m \/ here) <=> \E i \in 1..(n + 1) : lines[i].key = "host" /\ Names(lines[i].value, alias)
  <2>1. \A i : i \in 1..(n + 1) <=> i \in 1..n \/ i = n + 1
    OBVIOUS
  <2>2. m <=> \E i \in 1..n : lines[i].key = "host" /\ Names(lines[i].value, alias)
    BY Zenon DEF Scanned
  <2> QED
    BY <2>1, <2>2
<1> HIDE DEF here
<1>5. \A key \in {"hostname", "user", "port", "identityfile"} :
        Given(lines, alias, key, n + 1) = Given(lines, alias, key, n)
  BY GivenKept
<1>6. m \/ here \in BOOLEAN
  BY <1>1 DEF Scanned
<1>7. Scanned(lines, alias, n + 1, here, m \/ here, h, u, p, k)
  <2>1. /\ Given(lines, alias, "hostname", n + 1) = Given(lines, alias, "hostname", n)
        /\ Given(lines, alias, "user", n + 1) = Given(lines, alias, "user", n)
        /\ Given(lines, alias, "port", n + 1) = Given(lines, alias, "port", n)
        /\ Given(lines, alias, "identityfile", n + 1) = Given(lines, alias, "identityfile", n)
    BY <1>5
  <2> QED
    BY <1>1, <1>2, <1>4, <2>1, Zenon DEF Scanned
<1> QED
  BY <1>3, <1>7 DEF here

\* A Match line.
LEMMA MatchLine ==
  ASSUME NEW lines, NEW alias, NEW n \in Nat, lines[n + 1].key = "match",
         NEW b, NEW m, NEW h, NEW u, NEW p, NEW k, Scanned(lines, alias, n, b, m, h, u, p, k)
  PROVE  /\ ScanLine(alias, State(b, m, h, u, p, k), lines[n + 1]) = State(FALSE, m, h, u, p, k)
         /\ Scanned(lines, alias, n + 1, FALSE, m, h, u, p, k)
<1>1. ScanLine(alias, State(b, m, h, u, p, k), lines[n + 1]) = State(FALSE, m, h, u, p, k)
  BY DEF ScanLine, State
<1>2. ~InBlockOf(lines, alias, (n + 1) + 1)
  <2>1. n + 1 \in Nat /\ n + 1 # 0
    OBVIOUS
  <2> QED
    BY <2>1, BlockStep
<1>3. lines[n + 1].key # "host"
  OBVIOUS
<1>4. (\E i \in 1..(n + 1) : lines[i].key = "host" /\ Names(lines[i].value, alias)) <=>
        (\E i \in 1..n : lines[i].key = "host" /\ Names(lines[i].value, alias))
  BY <1>3, NamedKept
<1>5. /\ Given(lines, alias, "hostname", n + 1) = Given(lines, alias, "hostname", n)
      /\ Given(lines, alias, "user", n + 1) = Given(lines, alias, "user", n)
      /\ Given(lines, alias, "port", n + 1) = Given(lines, alias, "port", n)
      /\ Given(lines, alias, "identityfile", n + 1) = Given(lines, alias, "identityfile", n)
  BY GivenKept
<1>6. Scanned(lines, alias, n + 1, FALSE, m, h, u, p, k)
  BY <1>2, <1>4, <1>5, Zenon DEF Scanned
<1> QED
  BY <1>1, <1>6

\* A line that sets nothing.
LEMMA IdleLine ==
  ASSUME NEW lines, NEW alias, NEW n \in Nat, lines[n + 1].key \notin {"host", "match"},
         NEW b, NEW m, NEW h, NEW u, NEW p, NEW k, Scanned(lines, alias, n, b, m, h, u, p, k),
         ~b \/ lines[n + 1].key \notin {"hostname", "user", "port", "identityfile"}
  PROVE  /\ ScanLine(alias, State(b, m, h, u, p, k), lines[n + 1]) = State(b, m, h, u, p, k)
         /\ Scanned(lines, alias, n + 1, b, m, h, u, p, k)
<1>1. ScanLine(alias, State(b, m, h, u, p, k), lines[n + 1]) = State(b, m, h, u, p, k)
  <2>1. CASE ~b
    BY <2>1 DEF ScanLine, State
  <2>2. CASE b /\ lines[n + 1].key \notin {"hostname", "user", "port", "identityfile"}
    BY <2>2 DEF ScanLine, SetField, State
  <2> QED
    BY <2>1, <2>2
<1>2. b <=> InBlockOf(lines, alias, n + 1)
  BY Zenon DEF Scanned
<1>3. lines[n + 1].key # "host" /\ lines[n + 1].key # "match"
  OBVIOUS
<1>4. b <=> InBlockOf(lines, alias, (n + 1) + 1)
  <2>1. n + 1 \in Nat /\ n + 1 # 0
    OBVIOUS
  <2> QED
    BY <1>2, <1>3, <2>1, BlockStep
<1>5. (\E i \in 1..(n + 1) : lines[i].key = "host" /\ Names(lines[i].value, alias)) <=>
        (\E i \in 1..n : lines[i].key = "host" /\ Names(lines[i].value, alias))
  BY <1>3, NamedKept
<1>6. /\ Given(lines, alias, "hostname", n + 1) = Given(lines, alias, "hostname", n)
      /\ Given(lines, alias, "user", n + 1) = Given(lines, alias, "user", n)
      /\ Given(lines, alias, "port", n + 1) = Given(lines, alias, "port", n)
      /\ Given(lines, alias, "identityfile", n + 1) = Given(lines, alias, "identityfile", n)
  BY <1>2, GivenKept
<1>7. Scanned(lines, alias, n + 1, b, m, h, u, p, k)
  BY <1>4, <1>5, <1>6, Zenon DEF Scanned
<1> QED
  BY <1>1, <1>7

\* Every line has a value, if it is no Host line.
Valued(lines) == \A i \in 1..Len(lines) : lines[i].key # "host" => lines[i].value # Absent

\* No value that is given is absent.
LEMMA GivenValued ==
  ASSUME NEW S, NEW lines \in Seq(S), Valued(lines), NEW alias, NEW n \in Nat, n + 1 <= Len(lines),
         NEW key, key # "host"
  PROVE  \A i \in Given(lines, alias, key, n) : lines[i].value # Absent
<1>1. PICK l \in Nat : l = Len(lines)
  OBVIOUS
<1> TAKE i \in Given(lines, alias, key, n)
<1>2. i \in 1..l /\ lines[i].key = key
  BY <1>1 DEF Given
<1> QED
  BY <1>1, <1>2 DEF Valued

\* s is what the scan has found after n lines.
Found(lines, alias, n, s) ==
  \E b, m, h, u, p, k : s = State(b, m, h, u, p, k) /\ Scanned(lines, alias, n, b, m, h, u, p, k)

\* A line in a block of the alias that sets a field.
LEMMA FieldLine ==
  ASSUME NEW S, NEW lines \in Seq(S), Valued(lines), NEW alias, NEW n \in Nat, n + 1 <= Len(lines),
         lines[n + 1].key \in {"hostname", "user", "port", "identityfile"},
         NEW b, NEW m, NEW h, NEW u, NEW p, NEW k, Scanned(lines, alias, n, b, m, h, u, p, k), b
  PROVE  Found(lines, alias, n + 1, ScanLine(alias, State(b, m, h, u, p, k), lines[n + 1]))
<1>1. PICK v : v = lines[n + 1].value
  OBVIOUS
<1>2. InBlockOf(lines, alias, n + 1)
  BY Zenon DEF Scanned
<1>3. lines[n + 1].key # "host" /\ lines[n + 1].key # "match"
  OBVIOUS
<1>4. b <=> InBlockOf(lines, alias, (n + 1) + 1)
  <2>1. n + 1 \in Nat /\ n + 1 # 0
    OBVIOUS
  <2> QED
    BY <1>2, <1>3, <2>1, BlockStep
<1>5. (\E i \in 1..(n + 1) : lines[i].key = "host" /\ Names(lines[i].value, alias)) <=>
        (\E i \in 1..n : lines[i].key = "host" /\ Names(lines[i].value, alias))
  BY <1>3, NamedKept
<1>6. \A key \in {"hostname", "user", "port", "identityfile"} :
        key # lines[n + 1].key => Given(lines, alias, key, n + 1) = Given(lines, alias, key, n)
  BY GivenKept
<1>7. \A key \in {"hostname", "user"} : key = lines[n + 1].key =>
        Given(lines, alias, key, n + 1) = Given(lines, alias, key, n) \cup {n + 1}
  BY <1>2, GivenMore
<1>8. ASSUME NEW key \in {"hostname", "user", "port"}
      PROVE  /\ Given(lines, alias, key, n) \subseteq 1..n
             /\ \A i \in Given(lines, alias, key, n) : lines[i].value # Absent
  BY GivenBefore, GivenValued
<1>9. v # Absent
  <2>1. PICK l \in Nat : l = Len(lines)
    OBVIOUS
  <2>2. n + 1 \in 1..l
    BY <2>1
  <2> QED
    BY <1>1, <1>3, <2>1, <2>2 DEF Valued
<1>10. CASE lines[n + 1].key = "hostname"
  <2>1. ScanLine(alias, State(b, m, h, u, p, k), lines[n + 1]) = State(b, m, Or(h, v), u, p, k)
    BY <1>1, <1>10 DEF ScanLine, SetField, State
  <2>2. IsFirst(lines, Given(lines, alias, "hostname", n), h)
    BY Zenon DEF Scanned
  <2>3. IsFirst(lines, Given(lines, alias, "hostname", n + 1), Or(h, v))
    BY <1>1, <1>7, <1>8, <1>10, <2>2, FirstStep
  <2>4. /\ Given(lines, alias, "user", n + 1) = Given(lines, alias, "user", n)
        /\ Given(lines, alias, "port", n + 1) = Given(lines, alias, "port", n)
        /\ Given(lines, alias, "identityfile", n + 1) = Given(lines, alias, "identityfile", n)
    BY <1>6, <1>10
  <2>5. Scanned(lines, alias, n + 1, b, m, Or(h, v), u, p, k)
    BY <1>4, <1>5, <2>3, <2>4, Zenon DEF Scanned
  <2> QED
    BY <2>1, <2>5, Zenon DEF Found
<1>11. CASE lines[n + 1].key = "user"
  <2>1. ScanLine(alias, State(b, m, h, u, p, k), lines[n + 1]) = State(b, m, h, Or(u, v), p, k)
    BY <1>1, <1>11 DEF ScanLine, SetField, State
  <2>2. IsFirst(lines, Given(lines, alias, "user", n), u)
    BY Zenon DEF Scanned
  <2>3. IsFirst(lines, Given(lines, alias, "user", n + 1), Or(u, v))
    BY <1>1, <1>7, <1>8, <1>11, <2>2, FirstStep
  <2>4. /\ Given(lines, alias, "hostname", n + 1) = Given(lines, alias, "hostname", n)
        /\ Given(lines, alias, "port", n + 1) = Given(lines, alias, "port", n)
        /\ Given(lines, alias, "identityfile", n + 1) = Given(lines, alias, "identityfile", n)
    BY <1>6, <1>11
  <2>5. Scanned(lines, alias, n + 1, b, m, h, Or(u, v), p, k)
    BY <1>4, <1>5, <2>3, <2>4, Zenon DEF Scanned
  <2> QED
    BY <2>1, <2>5, Zenon DEF Found
<1>12. CASE lines[n + 1].key = "port"
  <2>1. ScanLine(alias, State(b, m, h, u, p, k), lines[n + 1]) = State(b, m, h, u, FirstPort(p, v), k)
    BY <1>1, <1>12 DEF ScanLine, SetField, State
  <2>2. IsFirst(lines, Given(lines, alias, "port", n), p)
    BY Zenon DEF Scanned
  <2>3. IsFirst(lines, Given(lines, alias, "port", n + 1), FirstPort(p, v))
    <3>1. CASE v = Unparsed
      <4>1. FirstPort(p, v) = p
        BY <3>1 DEF FirstPort
      <4>2. Given(lines, alias, "port", n + 1) = Given(lines, alias, "port", n)
        BY <1>1, <3>1, GivenKept
      <4> QED
        BY <2>2, <4>1, <4>2
    <3>2. CASE v # Unparsed
      <4>1. FirstPort(p, v) = Or(p, v)
        BY <3>2 DEF FirstPort, Or
      <4>2. Given(lines, alias, "port", n + 1) = Given(lines, alias, "port", n) \cup {n + 1}
        BY <1>1, <1>2, <1>12, <3>2, GivenMore
      <4> QED
        BY <1>1, <1>8, <2>2, <4>1, <4>2, FirstStep
    <3> QED
      BY <3>1, <3>2
  <2>4. /\ Given(lines, alias, "hostname", n + 1) = Given(lines, alias, "hostname", n)
        /\ Given(lines, alias, "user", n + 1) = Given(lines, alias, "user", n)
        /\ Given(lines, alias, "identityfile", n + 1) = Given(lines, alias, "identityfile", n)
    BY <1>6, <1>12
  <2>5. Scanned(lines, alias, n + 1, b, m, h, u, FirstPort(p, v), k)
    BY <1>4, <1>5, <2>3, <2>4, Zenon DEF Scanned
  <2> QED
    BY <2>1, <2>5, Zenon DEF Found
<1>13. CASE lines[n + 1].key = "identityfile"
  <2>1. ScanLine(alias, State(b, m, h, u, p, k), lines[n + 1]) = State(b, m, h, u, p, Append(k, v))
    BY <1>1, <1>13 DEF ScanLine, SetField, State
  <2> DEFINE V == {lines[i].value : i \in 1..Len(lines)}
  <2>2. InOrder(lines, Given(lines, alias, "identityfile", n), k) /\ k \in Seq(V)
    BY Zenon DEF Scanned
  <2>3. v \in V
    <3>1. n + 1 \in 1..Len(lines)
      OBVIOUS
    <3> QED
      BY <1>1, <3>1
  <2> HIDE DEF V
  <2>4. Given(lines, alias, "identityfile", n) \subseteq 1..n
        /\ Given(lines, alias, "identityfile", n + 1) = Given(lines, alias, "identityfile", n) \cup {n + 1}
    BY <1>2, <1>13, GivenBefore, GivenMore
  <2>5. InOrder(lines, Given(lines, alias, "identityfile", n + 1), Append(k, v))
    BY <1>1, <2>2, <2>3, <2>4, OrderStep
  <2>6. Append(k, v) \in Seq(V)
    BY <2>2, <2>3
  <2>7. /\ Given(lines, alias, "hostname", n + 1) = Given(lines, alias, "hostname", n)
        /\ Given(lines, alias, "user", n + 1) = Given(lines, alias, "user", n)
        /\ Given(lines, alias, "port", n + 1) = Given(lines, alias, "port", n)
    BY <1>6, <1>13
  <2>8. Scanned(lines, alias, n + 1, b, m, h, u, p, Append(k, v))
    BY <1>4, <1>5, <2>5, <2>6, <2>7, Zenon DEF Scanned, V
  <2> QED
    BY <2>1, <2>8, Zenon DEF Found
<1> QED
  BY <1>10, <1>11, <1>12, <1>13

\* One line of any kind.
LEMMA LineStep ==
  ASSUME NEW S, NEW lines \in Seq(S), Valued(lines), NEW alias, NEW n \in Nat, n + 1 <= Len(lines),
         NEW s, Found(lines, alias, n, s)
  PROVE  Found(lines, alias, n + 1, ScanLine(alias, s, lines[n + 1]))
<1>1. PICK b, m, h, u, p, k : s = State(b, m, h, u, p, k) /\ Scanned(lines, alias, n, b, m, h, u, p, k)
  BY Zenon DEF Found
<1>2. PICK r : r = ScanLine(alias, State(b, m, h, u, p, k), lines[n + 1])
  OBVIOUS
<1>0. Scanned(lines, alias, n, b, m, h, u, p, k)
  BY <1>1
<1>3. CASE lines[n + 1].key = "host"
  <2>1. PICK here : here = Names(lines[n + 1].value, alias)
    OBVIOUS
  <2>2. r = State(here, m \/ here, h, u, p, k) /\ Scanned(lines, alias, n + 1, here, m \/ here, h, u, p, k)
    BY <1>1, <1>2, <1>3, <2>1, HostLine
  <2> QED
    BY <1>1, <1>2, <2>2, Zenon DEF Found
<1>4. CASE lines[n + 1].key = "match"
  <2>1. /\ ScanLine(alias, State(b, m, h, u, p, k), lines[n + 1]) = State(FALSE, m, h, u, p, k)
        /\ Scanned(lines, alias, n + 1, FALSE, m, h, u, p, k)
    BY <1>0, <1>4, MatchLine
  <2> QED
    BY <1>1, <1>2, <2>1, Zenon DEF Found
<1>5. CASE lines[n + 1].key \in {"hostname", "user", "port", "identityfile"} /\ b
  <2>1. lines[n + 1].key \in {"hostname", "user", "port", "identityfile"} /\ b
    BY <1>5
  <2>2. Found(lines, alias, n + 1, ScanLine(alias, State(b, m, h, u, p, k), lines[n + 1]))
    BY <1>0, <2>1, FieldLine
  <2> QED
    BY <1>1, <2>2, Zenon
<1>6. CASE /\ lines[n + 1].key \notin {"host", "match"}
           /\ ~b \/ lines[n + 1].key \notin {"hostname", "user", "port", "identityfile"}
  <2>1. r = State(b, m, h, u, p, k) /\ Scanned(lines, alias, n + 1, b, m, h, u, p, k)
    BY <1>1, <1>2, <1>6, IdleLine
  <2> QED
    BY <1>1, <1>2, <2>1, Zenon DEF Found
<1> QED
  BY <1>3, <1>4, <1>5, <1>6

\* All of them.
LEMMA ScanFinds ==
  ASSUME NEW S, NEW lines \in Seq(S), Valued(lines), NEW alias, NEW f, Scans(lines, alias, f)
  PROVE  Found(lines, alias, Len(lines), f[Len(lines)])
<1>1. PICK l \in Nat : l = Len(lines)
  OBVIOUS
<1>2. f[0] = ScanStart /\ \A n \in 1..l : f[n] = ScanLine(alias, f[n - 1], lines[n])
  BY <1>1, ScansOn
<1> DEFINE T == {n \in Nat : n <= l => Found(lines, alias, n, f[n])}
<1>3. 0 \in T
  <2>1. Found(lines, alias, 0, f[0])
    BY <1>2, ScanNothing, Zenon DEF Found
  <2> QED
    BY <2>1
<1>4. ASSUME NEW n \in Nat, n \in T PROVE n + 1 \in T
  <2> SUFFICES ASSUME n + 1 <= l PROVE Found(lines, alias, n + 1, f[n + 1])
    OBVIOUS
  <2>1. n + 1 \in 1..l /\ (n + 1) - 1 = n /\ n <= l /\ n + 1 <= Len(lines)
    BY <1>1
  <2>2. f[n + 1] = ScanLine(alias, f[n], lines[n + 1])
    BY <1>2, <2>1
  <2>3. PICK s : s = f[n]
    OBVIOUS
  <2>4. Found(lines, alias, n, s)
    BY <1>4, <2>1, <2>3
  <2>5. Found(lines, alias, n + 1, ScanLine(alias, s, lines[n + 1]))
    BY <2>1, <2>4, LineStep
  <2> QED
    BY <2>2, <2>3, <2>5, Zenon
<1> HIDE DEF T
<1>5. \A n \in Nat : n \in T
  BY <1>3, <1>4, SetInduction
<1>6. l \in T
  BY <1>5
<1>7. Found(lines, alias, l, f[l])
  BY <1>6 DEF T
<1> QED
  BY <1>1, <1>7, Zenon

\* Without a block of the alias there is nothing to find.
LEMMA NothingGiven ==
  ASSUME NEW S, NEW lines \in Seq(S), NEW alias,
         ~\E i \in 1..Len(lines) : lines[i].key = "host" /\ Names(lines[i].value, alias),
         NEW key
  PROVE  Given(lines, alias, key, Len(lines)) = {}
<1>1. PICK l \in Nat : l = Len(lines)
  OBVIOUS
<1> SUFFICES ASSUME NEW i \in 1..l, InBlockOf(lines, alias, i) PROVE FALSE
  BY <1>1 DEF Given
<1>2. PICK j \in 1..(i - 1) : lines[j].key = "host" /\ Names(lines[j].value, alias)
  BY DEF InBlockOf
<1>3. j \in 1..l
  OBVIOUS
<1> QED
  BY <1>1, <1>2, <1>3

\* lookup, for any configuration.
LEMMA LookupReads ==
  ASSUME NEW S, NEW lines \in Seq(S), Valued(lines), NEW alias
  PROVE  ReadsLikeOpenSSH(lines, alias)
<1>1. PICK f : /\ Scans(lines, alias, f)
               /\ Lookup(lines, alias) =
                    IF f[Len(lines)].matched
                    THEN [matched |-> TRUE, entry |-> f[Len(lines)].entry] ELSE NoAlias
  BY LookupScans
<1>2. Found(lines, alias, Len(lines), f[Len(lines)])
  BY <1>1, ScanFinds
<1>3. PICK b, m, h, u, p, k :
        f[Len(lines)] = State(b, m, h, u, p, k) /\ Scanned(lines, alias, Len(lines), b, m, h, u, p, k)
  BY <1>2, Zenon DEF Found
<1>4. m \in BOOLEAN /\ f[Len(lines)].matched = m
      /\ f[Len(lines)].entry = [hostname |-> h, user |-> u, port |-> p, keys |-> k]
  BY <1>3 DEF State, Scanned
<1>5. m <=> \E i \in 1..Len(lines) : lines[i].key = "host" /\ Names(lines[i].value, alias)
  BY <1>3, Zenon DEF Scanned
<1>6. PICK found : found = Lookup(lines, alias)
  OBVIOUS
<1>7. CASE m
  <2>1. found = [matched |-> TRUE, entry |-> [hostname |-> h, user |-> u, port |-> p, keys |-> k]]
    BY <1>1, <1>4, <1>6, <1>7
  <2>2. found.matched = TRUE /\ found.entry.hostname = h /\ found.entry.user = u /\ found.entry.port = p
        /\ found.entry.keys = k
    BY <2>1
  <2> QED
    BY <1>3, <1>5, <1>6, <1>7, <2>2, Zenon DEF Scanned, ReadsLikeOpenSSH
<1>8. CASE ~m
  <2>1. found = NoAlias
    BY <1>1, <1>4, <1>6, <1>8
  <2>2. found.matched = FALSE /\ found.entry.hostname = Absent /\ found.entry.user = Absent
        /\ found.entry.port = Absent /\ found.entry.keys = <<>>
    BY <2>1 DEF NoAlias, NoEntry
  <2>3. \A key : Given(lines, alias, key, Len(lines)) = {}
    BY <1>5, <1>8, NothingGiven
  <2>4. IsFirst(lines, {}, Absent)
    BY DEF IsFirst
  <2>5. InOrder(lines, {}, <<>>)
    <3>1. InOrder(lines, Given(lines, alias, "identityfile", 0), <<>>)
      BY ScanNothing, Zenon DEF Scanned
    <3> QED
      BY <3>1, GivenNone
  <2> QED
    BY <1>5, <1>6, <1>8, <2>2, <2>3, <2>4, <2>5, Zenon DEF ReadsLikeOpenSSH
<1> QED
  BY <1>4, <1>7, <1>8

\* lookup, for every configuration and host: the scan finds what OpenSSH would.
THEOREM LookupExactCorrect == Spec => []LookupExact
<1> DEFINE Kept == sshConfig \in Configs
<1>1. Init => Kept
  BY DEF Init, ConnInit
<1>2. Kept /\ [Next]_vars => Kept'
  <2> SUFFICES ASSUME Kept, [Next]_vars PROVE UNCHANGED sshConfig
    OBVIOUS
  <2>1. CASE \E t \in Threads : Interpreter(t)
    BY <2>1 DEF Interpreter, TakeGil, LeaveGil, Construct, ConstructRefused, Constructed, Begin, Refused,
      Handshake, VerifyGiven, ReadKnown, ReadFails, AppendFails, AppendKey, Decide, Return, Exec, IsPoisoned,
      Close, Call, Methods, LockPanics, ExecLocks, CommandEnds, ExecReturns, ExecPanics, Peeks, Takes,
      Closed, connVars
  <2>2. CASE \E c \in Clients : Verify(c) /\ UNCHANGED pyVars
    BY <2>2 DEF Verify, Handshake, VerifyGiven, ReadKnown, ReadFails, AppendFails, AppendKey, Decide
  <2>3. CASE \E c \in Clients \ Threads : OtherProgram(c) /\ UNCHANGED pyVars
    BY <2>3 DEF OtherProgram, Begin, Refused, Return, connVars
  <2> QED
    BY <2>1, <2>2, <2>3 DEF Next, vars, connVars
<1>3. Kept => LookupExact
  <2> SUFFICES ASSUME sshConfig \in Configs, NEW host \in Hosts PROVE ReadsLikeOpenSSH(sshConfig, host)
    BY DEF LookupExact
  <2>1. sshConfig \in Seq(ToSet(sshConfig)) /\ Valued(sshConfig)
    BY ConfigsAssumption DEF Valued
  <2> QED
    BY <2>1, LookupReads
<1> QED
  BY <1>1, <1>2, <1>3, PTL DEF Spec
=============================================================================
