------------------------------ MODULE PySession ------------------------------
(***************************************************************************)
(* The Session class of the Python binding (execkit-py/src/lib.rs): a      *)
(* mutex around an optional Session, used by threads of one interpreter.   *)
(* A thread runs Python with the interpreter lock (GIL), which py.detach   *)
(* gives up for the time a Session connects, runs a command or is dropped, *)
(* and which it needs back to return. Constructors connect as clients of   *)
(* KnownHosts, beside those of other programs.                             *)
(***************************************************************************)
EXTENDS KnownHosts

CONSTANT Threads    \* threads of the interpreter

Free == "free"

ASSUME ThreadsAssumption == Threads \subseteq Clients /\ Free \notin Threads

VARIABLES
  gil,      \* the thread that holds the interpreter lock, or Free
  mutex,    \* the thread that holds Session.inner, or Free
  broken,   \* the mutex is poisoned: a panic went through its guard
  inner,    \* the Session all threads share
  unusable, \* RsSession::is_poisoned
  pc        \* per thread: where it is

pyVars == <<gil, mutex, broken, inner, unusable, pc>>
vars == <<connVars, pyVars>>

Init ==
  /\ ConnInit
  /\ gil = Free /\ mutex = Free /\ broken = FALSE
  /\ inner = "none" /\ unusable = FALSE
  /\ pc = [t \in Threads |-> "elsewhere"]

Goto(t, place) == pc' = [pc EXCEPT ![t] = place]
Python(t) == pc[t] = "python"
-----------------------------------------------------------------------------
(***************************************************************************)
(* The interpreter: any thread outside it may take the free lock, and the  *)
(* one that has it lets others in between two instructions.                *)
(***************************************************************************)
TakeGil(t) ==
  /\ pc[t] = "elsewhere" /\ gil = Free
  /\ gil' = t
  /\ Goto(t, "python")
  /\ UNCHANGED <<connVars, mutex, broken, inner, unusable>>

LeaveGil(t) ==
  /\ Python(t)
  /\ gil' = Free
  /\ Goto(t, "elsewhere")
  /\ UNCHANGED <<connVars, mutex, broken, inner, unusable>>
-----------------------------------------------------------------------------
(***************************************************************************)
(* local, docker and ssh.                                                  *)
(***************************************************************************)

\* build_ssh_config has an answer; the connection is made without the GIL.
Construct(t, request) ==
  /\ Python(t) /\ request.program = "python"
  /\ Begin(t, request)
  /\ gil' = Free
  /\ Goto(t, "connecting")
  /\ UNCHANGED <<mutex, broken, inner, unusable>>

\* ValueError.
ConstructRefused(t, request) ==
  /\ Python(t) /\ request.program = "python"
  /\ Refused(t, request)
  /\ UNCHANGED pyVars

\* The connection is up or has failed. apply_opts may still raise, which drops
\* the new session; the first object made is the one the threads share.
Constructed(t) ==
  /\ pc[t] = "connecting" /\ gil = Free
  /\ gil' = t
  /\ Goto(t, "python")
  /\ \E valid \in BOOLEAN :
       inner' = IF phase[t] = "connected" /\ valid /\ inner = "none" THEN "open" ELSE inner
  /\ Return(t)
  /\ UNCHANGED <<mutex, broken, unusable>>
-----------------------------------------------------------------------------
(***************************************************************************)
(* exec, is_poisoned and close wait for the mutex without giving up the    *)
(* GIL.                                                                    *)
(***************************************************************************)
Call(t, place) ==
  /\ Python(t) /\ inner # "none"
  /\ Goto(t, place)
  /\ UNCHANGED <<connVars, gil, mutex, broken, inner, unusable>>

\* Bad arguments raise before the mutex is taken.
Exec(t) == Call(t, "lockExec")
IsPoisoned(t) == Call(t, "lockPeek")
Close(t) == Call(t, "lockClose")

\* lock().unwrap() of a poisoned mutex panics.
LockPanics(t) ==
  /\ pc[t] \in {"lockExec", "lockPeek", "lockClose"}
  /\ mutex = Free /\ broken
  /\ Goto(t, "python")
  /\ UNCHANGED <<connVars, gil, mutex, broken, inner, unusable>>

\* Mutant: the Session is reached through the mutex, and used without it.
ExecLocksUnguarded(t) ==
  /\ pc[t] = "lockExec" /\ mutex = Free /\ ~broken
  /\ IF inner = "open"
     THEN Goto(t, "running") /\ gil' = Free
     ELSE Goto(t, "python") /\ UNCHANGED gil
  /\ UNCHANGED <<connVars, mutex, broken, inner, unusable>>

\* A closed session raises; an open one runs the command without the GIL.
ExecLocks(t) ==
  /\ pc[t] = "lockExec" /\ mutex = Free /\ ~broken
  /\ IF inner = "open"
     THEN Goto(t, "running") /\ mutex' = t /\ gil' = Free
     ELSE Goto(t, "python") /\ UNCHANGED <<mutex, gil>>
  /\ UNCHANGED <<connVars, broken, inner, unusable>>

CommandEnds(t) ==
  /\ pc[t] = "running"
  /\ unusable' \in {unusable, TRUE}
  /\ Goto(t, "result")
  /\ UNCHANGED <<connVars, gil, mutex, broken, inner>>

\* The guard lives until exec returns, and so until the GIL is free.
ExecReturns(t) ==
  /\ pc[t] = "result" /\ gil = Free
  /\ gil' = t /\ mutex' = Free
  /\ Goto(t, "python")
  /\ UNCHANGED <<connVars, broken, inner, unusable>>

\* A panic below exec (Instant + Duration overflows for a huge timeout) unwinds
\* through the guard.
ExecPanics(t) ==
  /\ pc[t] = "running" /\ gil = Free
  /\ gil' = t /\ mutex' = Free /\ broken' = TRUE
  /\ Goto(t, "python")
  /\ UNCHANGED <<connVars, inner, unusable>>

Peeks(t) ==
  /\ pc[t] = "lockPeek" /\ mutex = Free /\ ~broken
  /\ Goto(t, "python")
  /\ UNCHANGED <<connVars, gil, mutex, broken, inner, unusable>>

\* take(): the mutex is free again before the session is dropped without the
\* GIL. The second close finds nothing.
Takes(t) ==
  /\ pc[t] = "lockClose" /\ mutex = Free /\ ~broken
  /\ inner' = "closed"
  /\ IF inner = "open"
     THEN Goto(t, "closing") /\ gil' = Free
     ELSE Goto(t, "python") /\ UNCHANGED gil
  /\ UNCHANGED <<connVars, mutex, broken, unusable>>

Closed(t) ==
  /\ pc[t] = "closing" /\ gil = Free
  /\ gil' = t
  /\ Goto(t, "python")
  /\ UNCHANGED <<connVars, mutex, broken, inner, unusable>>
-----------------------------------------------------------------------------
Methods(t) ==
  \/ LockPanics(t) \/ ExecLocks(t) \/ CommandEnds(t) \/ ExecReturns(t) \/ ExecPanics(t)
  \/ Peeks(t) \/ Takes(t) \/ Closed(t)

Interpreter(t) ==
  \/ TakeGil(t) \/ LeaveGil(t)
  \/ \E request \in Requests : Construct(t, request) \/ ConstructRefused(t, request)
  \/ Constructed(t)
  \/ Exec(t) \/ IsPoisoned(t) \/ Close(t)
  \/ Methods(t)

\* A client of another program: the MCP server.
OtherProgram(c) ==
  \/ \E request \in Requests :
       request.program = "mcp" /\ (Begin(c, request) \/ Refused(c, request))
  \/ Return(c)

Next ==
  \/ \E t \in Threads : Interpreter(t)
  \/ \E c \in Clients : Verify(c) /\ UNCHANGED pyVars
  \/ \E c \in Clients \ Threads : OtherProgram(c) /\ UNCHANGED pyVars

Spec == Init /\ [][Next]_vars

\* Threads that can run do, connections and commands end, and a thread that waits
\* for a lock is not passed over for ever.
FairSpec ==
  Spec /\ \A t \in Threads : SF_vars(Methods(t)) /\ SF_vars(Constructed(t)) /\ WF_vars(LeaveGil(t))
-----------------------------------------------------------------------------
(***************************************************************************)
(* Properties.                                                             *)
(***************************************************************************)
\* Session, "two Python threads that exec on the same Session serialize": one
\* thread at a time is inside the Session, running a command or dropping it, and
\* a session that is used is not closed.
InSession(t) == pc[t] \in {"running", "closing"}
Exclusive ==
  /\ \A t, u \in Threads : InSession(t) /\ InSession(u) => t = u
  /\ \A t \in Threads : pc[t] = "running" => inner = "open"

\* The inductive invariant behind it: the mutex is held by whoever runs a command or
\* returns its result, a session is taken out to be dropped once, and what runs has
\* not been taken out.
InMutex(t) == pc[t] \in {"running", "result"}
Outside == {"elsewhere", "python", "connecting", "lockExec", "lockPeek", "lockClose"}
Inside == {"running", "result", "closing"}
ExclusiveInv ==
  /\ pc \in [Threads -> Outside \cup Inside]
  /\ \A t \in Threads : InMutex(t) <=> mutex = t
  /\ \A t \in Threads : pc[t] = "running" => inner = "open"
  /\ \A t \in Threads : pc[t] = "closing" => inner = "closed"
  /\ \A t, u \in Threads : pc[t] = "closing" /\ pc[u] = "closing" => t = u

\* The same sentence goes on "on the lock rather than racing": both get through.
ExecGoesThrough == \A t \in Threads : pc[t] = "lockExec" ~> pc[t] = "python"
=============================================================================
