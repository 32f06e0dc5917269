---------------------------- MODULE SessionServer ----------------------------
(***************************************************************************)
(* The session registry of execkit-mcp (crates/execkit-mcp/src/main.rs):   *)
(* tool calls served concurrently by the tokio runtime share               *)
(*   - `sessions`, a mutex-protected map from id to Arc<SessionEntry>,     *)
(*   - `live`, the atomic admission counter,                               *)
(*   - in every entry a mutex around the blocking Session and a second     *)
(*     mutex around the time of last use.                                  *)
(* One action is one stretch of a handler between two accesses to shared   *)
(* state. Time is abstracted to one bit per entry: `stale[i]` says that    *)
(* the entry's last use is more than session_ttl ago.                      *)
(***************************************************************************)
EXTENDS Integers, FiniteSets

CONSTANTS
  Calls,        \* slots for tool calls in flight; a slot serves call after call
  Ids,          \* the session ids the run may mint (bound of the model)
  None,         \* no call, no session
  MaxSessions,  \* Config.max_sessions
  HasTtl        \* Config.session_ttl.is_some()

ASSUME ConstantsAssumption ==
  /\ IsFiniteSet(Calls) /\ IsFiniteSet(Ids)
  /\ None \notin Calls /\ None \notin Ids
  /\ MaxSessions \in Nat
  /\ HasTtl \in BOOLEAN

VARIABLES
  sessions,  \* ids in the map
  live,      \* the admission counter
  mapLock,   \* the call that keeps the map locked across several steps
  pc,        \* where each call is
  kind,      \* which handler uses the target session
  target,    \* the session_id argument of the call
  outcome,   \* what the blocking command returned
  arcs,      \* ids whose Arc (or unregistered Session) the call holds
  dropping,  \* ids whose Arc a spawned drop task holds
  holder,    \* per id: the call that holds SessionEntry.session
  stale,     \* per id: last_used is further back than the TTL
  dead,      \* per id: the Session is poisoned (Session::is_poisoned)
  shell,     \* per id: the process behind the Session, and who dropped it
  closes,    \* per id: "close" events in the audit log
  scan,      \* reap_idle: entries still to be examined
  victims,   \* reap_idle: entries selected for removal
  probe      \* reap_idle: the entry whose last_used it keeps locked

registry == <<sessions, live, mapLock>>
entries == <<holder, stale, dead, shell, closes>>
reaper == <<scan, victims, probe>>
vars == <<sessions, live, mapLock, pc, kind, target, outcome, arcs, dropping,
          holder, stale, dead, shell, closes, scan, victims, probe>>

Kinds == {"exec", "blocked", "maintenance"}
Points == {"idle", "reaping", "sweeping", "reserve", "rejecting", "building",
           "inserting", "touch", "want", "running", "finish", "report",
           "leaving", "releasing"}
\* "done": a result or an ordinary error; "dead": StillRunning, ShellExited or
\* SessionPoisoned.
Outcomes == {"done", "dead"}
Shells == {"none", "up", "dropped", "dropped_on_executor"}

Init ==
  /\ sessions = {}
  /\ live = 0
  /\ mapLock = None
  /\ pc = [c \in Calls |-> "idle"]
  /\ kind = [c \in Calls |-> "exec"]
  /\ target = [c \in Calls |-> None]
  /\ outcome = [c \in Calls |-> "done"]
  /\ arcs = [c \in Calls |-> {}]
  /\ dropping = {}
  /\ holder = [i \in Ids |-> None]
  /\ stale = [i \in Ids |-> FALSE]
  /\ dead = [i \in Ids |-> FALSE]
  /\ shell = [i \in Ids |-> "none"]
  /\ closes = [i \in Ids |-> 0]
  /\ scan = {} /\ victims = {} /\ probe = None

Goto(c, p) == pc' = [pc EXCEPT ![c] = p]

\* The handler returns; its slot is free for the next call.
Answer(c) ==
  /\ Goto(c, "idle")
  /\ target' = [target EXCEPT ![c] = None]
  /\ kind' = [kind EXCEPT ![c] = "exec"]
  /\ outcome' = [outcome EXCEPT ![c] = "done"]

\* Mutant: the map is released between selecting the stale entries and removing them.
MapFreeWhileSweeping == mapLock = None \/ (mapLock # None /\ scan = {})

\* Every handler but reap_idle takes the map lock for one statement only.
MapFree == mapLock = None

\* c's reference to i is the only one left, so dropping it drops the Session.
LastArc(c, i) ==
  /\ i \notin sessions
  /\ i \notin dropping
  /\ \A d \in Calls \ {c} : i \notin arcs[d]

\* c drops every Arc it holds, on a thread of the kind `where` names.
DropArcs(c, where) ==
  /\ arcs' = [arcs EXCEPT ![c] = {}]
  /\ shell' = [i \in Ids |->
                 IF i \in arcs[c] /\ LastArc(c, i) THEN where ELSE shell[i]]

Unlocked(i) == holder[i] = None
-----------------------------------------------------------------------------
(***************************************************************************)
(* session_create, beginning with reap_idle.                               *)
(***************************************************************************)

\* reap_idle takes the map lock; without a TTL it returns at once.
CreateStart(c) ==
  /\ pc[c] = "idle"
  /\ \/ /\ HasTtl /\ MapFree
        /\ mapLock' = c
        /\ scan' = sessions
        /\ Goto(c, "reaping")
     \/ /\ ~HasTtl
        /\ Goto(c, "reserve")
        /\ UNCHANGED <<mapLock, scan>>
  /\ UNCHANGED <<sessions, live, kind, target, outcome, arcs, dropping, entries,
                 victims, probe>>

\* Lock last_used of the next entry: keep it while the session is probed if the
\* entry is past the TTL, go on to the next one otherwise.
ReapProbe(c) ==
  /\ pc[c] = "reaping" /\ probe = None
  /\ \E i \in scan :
       IF stale[i] THEN probe' = i /\ UNCHANGED scan
                   ELSE scan' = scan \ {i} /\ UNCHANGED probe
  /\ UNCHANGED <<registry, pc, kind, target, outcome, arcs, dropping, entries,
                 victims>>

\* Mutant: a busy entry is tried again instead of skipped.
ReapTryAgain(c) ==
  /\ pc[c] = "reaping" /\ probe # None
  /\ IF Unlocked(probe) THEN victims' = victims \cup {probe} /\ scan' = scan \ {probe}
                        ELSE UNCHANGED <<victims, scan>>
  /\ probe' = None
  /\ UNCHANGED <<registry, pc, kind, target, outcome, arcs, dropping, entries>>

\* session.try_lock(): an entry in use is skipped, the guard of a free one is
\* dropped at once. A blocked exec holds the lock too while it redacts.
ReapTry(c) ==
  /\ pc[c] = "reaping" /\ probe # None
  /\ \/ /\ Unlocked(probe)
        /\ victims' = victims \cup {probe}
     \/ /\ ~Unlocked(probe) \/ \E d \in Calls : pc[d] = "leaving" /\ target[d] = probe
        /\ UNCHANGED victims
  /\ scan' = scan \ {probe}
  /\ probe' = None
  /\ UNCHANGED <<registry, pc, kind, target, outcome, arcs, dropping, entries>>

ReapSelected(c) ==
  /\ pc[c] = "reaping" /\ scan = {} /\ probe = None
  /\ Goto(c, "sweeping")
  /\ UNCHANGED <<registry, kind, target, outcome, arcs, dropping, entries, reaper>>

\* One iteration of the removal loop: map entry, counter and audit together,
\* because the map lock is held throughout.
ReapRemove(c) ==
  /\ pc[c] = "sweeping"
  /\ \E i \in victims :
       /\ sessions' = sessions \ {i}
       /\ live' = live - 1
       /\ closes' = [closes EXCEPT ![i] = @ + 1]
       /\ arcs' = [arcs EXCEPT ![c] = @ \cup {i}]
       /\ victims' = victims \ {i}
  /\ UNCHANGED <<mapLock, pc, kind, target, outcome, dropping, holder, stale,
                 dead, shell, scan, probe>>

\* Mutant: the reaped entries are kept and never reach a drop task.
ReapDoneKeeping(c) ==
  /\ pc[c] = "sweeping" /\ victims = {}
  /\ mapLock' = None
  /\ Goto(c, "reserve")
  /\ UNCHANGED <<sessions, live, kind, target, outcome, arcs, dropping, entries,
                 reaper>>

\* The guard goes out of scope and the reaped entries move to a drop task.
ReapDone(c) ==
  /\ pc[c] = "sweeping" /\ victims = {}
  /\ mapLock' = None
  /\ dropping' = dropping \cup arcs[c]
  /\ arcs' = [arcs EXCEPT ![c] = {}]
  /\ Goto(c, "reserve")
  /\ UNCHANGED <<sessions, live, kind, target, outcome, entries, reaper>>

\* Mutant: the cap is compared with > instead of >=.
ReserveOneMore(c) ==
  /\ pc[c] = "reserve"
  /\ live' = live + 1
  /\ Goto(c, IF live > MaxSessions THEN "rejecting" ELSE "building")
  /\ UNCHANGED <<sessions, mapLock, kind, target, outcome, arcs, dropping,
                 entries, reaper>>

\* live.fetch_add(1) >= max_sessions
Reserve(c) ==
  /\ pc[c] = "reserve"
  /\ live' = live + 1
  /\ Goto(c, IF live >= MaxSessions THEN "rejecting" ELSE "building")
  /\ UNCHANGED <<sessions, mapLock, kind, target, outcome, arcs, dropping,
                 entries, reaper>>

Reject(c) ==
  /\ pc[c] = "rejecting"
  /\ live' = live - 1
  /\ Goto(c, "idle")
  /\ UNCHANGED <<sessions, mapLock, kind, target, outcome, arcs, dropping,
                 entries, reaper>>

\* build_session returned an error, or its task panicked.
BuildFailed(c) ==
  /\ pc[c] = "building"
  /\ live' = live - 1
  /\ Goto(c, "idle")
  /\ UNCHANGED <<sessions, mapLock, kind, target, outcome, arcs, dropping,
                 entries, reaper>>

\* build_session returned a Session; the call mints its id and audits "open".
Built(c) ==
  /\ pc[c] = "building"
  /\ \E i \in Ids :
       /\ shell[i] = "none"
       /\ shell' = [shell EXCEPT ![i] = "up"]
       /\ target' = [target EXCEPT ![c] = i]
       /\ arcs' = [arcs EXCEPT ![c] = {i}]
  /\ Goto(c, "inserting")
  /\ UNCHANGED <<registry, kind, outcome, dropping, holder, stale, dead, closes,
                 reaper>>

Insert(c) ==
  /\ pc[c] = "inserting" /\ MapFree
  /\ sessions' = sessions \cup {target[c]}
  /\ arcs' = [arcs EXCEPT ![c] = {}]
  /\ target' = [target EXCEPT ![c] = None]
  /\ Goto(c, "idle")
  /\ UNCHANGED <<live, mapLock, kind, outcome, dropping, entries, reaper>>
-----------------------------------------------------------------------------
(***************************************************************************)
(* Calls on an existing session: session_exec (kind "exec", or "blocked"   *)
(* when the operator policy refuses the command or its budget is           *)
(* malformed) and session_checkpoint, session_checkpoints and              *)
(* session_restore (kind "maintenance").                                   *)
(***************************************************************************)

\* get: find the entry and clone its Arc under the map lock. An unknown id is
\* answered at once and changes nothing.
Lookup(c) ==
  /\ pc[c] = "idle" /\ MapFree
  /\ \E i \in sessions, k \in {"exec", "blocked", "maintenance"} :
       /\ kind' = [kind EXCEPT ![c] = k]
       /\ target' = [target EXCEPT ![c] = i]
       /\ arcs' = [arcs EXCEPT ![c] = {i}]
  /\ Goto(c, "touch")
  /\ UNCHANGED <<registry, outcome, dropping, entries, reaper>>

\* get: stamp last_used, after the map lock is gone.
Touch(c) ==
  /\ pc[c] = "touch" /\ probe # target[c]
  /\ stale' = [stale EXCEPT ![target[c]] = FALSE]
  /\ Goto(c, IF kind[c] = "blocked" THEN "leaving" ELSE "want")
  /\ UNCHANGED <<registry, kind, target, outcome, arcs, dropping, holder, dead,
                 shell, closes, reaper>>

\* A blocked or malformed exec returns from the async handler, which drops its
\* Arc right there.
Leave(c) ==
  /\ pc[c] = "leaving"
  /\ DropArcs(c, "dropped_on_executor")
  /\ Answer(c)
  /\ UNCHANGED <<registry, dropping, holder, stale, dead, closes,
                 reaper>>

LockSession(c) ==
  /\ pc[c] = "want" /\ Unlocked(target[c])
  /\ holder' = [holder EXCEPT ![target[c]] = c]
  /\ Goto(c, "running")
  /\ UNCHANGED <<registry, kind, target, outcome, arcs, dropping, stale, dead,
                 shell, closes, reaper>>

\* The blocking command returns. A dead Session only ever reports its death to
\* exec; the checkpoint calls report it as one more error.
CommandDone(c) ==
  /\ pc[c] = "running"
  /\ \E o \in Outcomes :
       /\ dead[target[c]] /\ kind[c] = "exec" => o = "dead"
       /\ outcome' = [outcome EXCEPT ![c] = o]
       /\ dead' = [dead EXCEPT ![target[c]] = @ \/ o = "dead"]
  /\ Goto(c, "finish")
  /\ UNCHANGED <<registry, kind, target, arcs, dropping, holder, stale, shell,
                 closes, reaper>>

\* exec stamps last_used before it unlocks the session; then the closure ends
\* on its blocking thread and drops its Arc.
ExecFinish(c) ==
  /\ pc[c] = "finish" /\ kind[c] = "exec" /\ probe # target[c]
  /\ stale' = [stale EXCEPT ![target[c]] = FALSE]
  /\ holder' = [holder EXCEPT ![target[c]] = None]
  /\ DropArcs(c, "dropped")
  /\ Goto(c, "report")
  /\ UNCHANGED <<registry, kind, target, outcome, dropping, dead, closes, reaper>>

\* The checkpoint calls unlock without a stamp and return the result as it is.
MaintenanceFinish(c) ==
  /\ pc[c] = "finish" /\ kind[c] = "maintenance"
  /\ holder' = [holder EXCEPT ![target[c]] = None]
  /\ DropArcs(c, "dropped")
  /\ Answer(c)
  /\ UNCHANGED <<registry, dropping, stale, dead, closes, reaper>>

\* exec answers: with the result, with an ordinary error, or, when the session
\* is dead, after closing it if it is still registered. The guard of the map
\* lives to the end of the `if let`, so removal, counter and audit are one step.
ReportAlive(c) ==
  /\ pc[c] = "report" /\ outcome[c] # "dead"
  /\ Answer(c)
  /\ UNCHANGED <<registry, arcs, dropping, entries, reaper>>

\* Mutant: the slot is released even if another call has closed the session.
CloseDeadUnchecked(c) ==
  /\ pc[c] = "report" /\ outcome[c] = "dead" /\ MapFree
  /\ sessions' = sessions \ {target[c]}
  /\ live' = live - 1
  /\ dropping' = IF target[c] \in sessions THEN dropping \cup {target[c]} ELSE dropping
  /\ closes' = IF target[c] \in sessions THEN [closes EXCEPT ![target[c]] = @ + 1] ELSE closes
  /\ Answer(c)
  /\ UNCHANGED <<mapLock, arcs, holder, stale, dead, shell, reaper>>

\* Mutant: every exec that sees the dead session audits its close.
CloseDeadTwice(c) ==
  /\ pc[c] = "report" /\ outcome[c] = "dead" /\ MapFree
  /\ closes' = [closes EXCEPT ![target[c]] = @ + 1]
  /\ IF target[c] \in sessions
       THEN /\ sessions' = sessions \ {target[c]}
            /\ live' = live - 1
            /\ dropping' = dropping \cup {target[c]}
       ELSE UNCHANGED <<sessions, live, dropping>>
  /\ Answer(c)
  /\ UNCHANGED <<mapLock, arcs, holder, stale, dead, shell, reaper>>

\* Mutant: one of the fatal errors is missing from the list of dead ones.
CloseDeadForgotten(c) ==
  /\ pc[c] = "report" /\ outcome[c] = "dead" /\ MapFree
  /\ Answer(c)
  /\ UNCHANGED <<registry, arcs, dropping, entries, reaper>>

CloseDead(c) ==
  /\ pc[c] = "report" /\ outcome[c] = "dead" /\ MapFree
  /\ \/ /\ target[c] \in sessions
        /\ sessions' = sessions \ {target[c]}
        /\ live' = live - 1
        /\ closes' = [closes EXCEPT ![target[c]] = @ + 1]
        /\ dropping' = dropping \cup {target[c]}
     \/ /\ target[c] \notin sessions
        /\ UNCHANGED <<sessions, live, closes, dropping>>
  /\ Answer(c)
  /\ UNCHANGED <<mapLock, arcs, holder, stale, dead, shell, reaper>>
-----------------------------------------------------------------------------
(***************************************************************************)
(* session_destroy, the spawned drop tasks, and the passage of time.       *)
(***************************************************************************)

\* An id that is not in the map is answered {"destroyed":false}, no state kept.
Destroy(c) ==
  /\ pc[c] = "idle" /\ MapFree
  /\ \E i \in sessions :
       /\ sessions' = sessions \ {i}
       /\ target' = [target EXCEPT ![c] = i]
       /\ arcs' = [arcs EXCEPT ![c] = {i}]
  /\ Goto(c, "releasing")
  /\ UNCHANGED <<live, mapLock, kind, outcome, dropping, entries, reaper>>

\* The map lock is gone by now: the slot is released and the close audited.
DestroyRelease(c) ==
  /\ pc[c] = "releasing"
  /\ live' = live - 1
  /\ closes' = [closes EXCEPT ![target[c]] = @ + 1]
  /\ dropping' = dropping \cup arcs[c]
  /\ arcs' = [arcs EXCEPT ![c] = {}]
  /\ target' = [target EXCEPT ![c] = None]
  /\ Goto(c, "idle")
  /\ UNCHANGED <<sessions, mapLock, kind, outcome, holder, stale, dead, shell,
                 reaper>>

\* Mutant: closing a session tears its shell down under a running command.
SpawnedKill(i) ==
  /\ i \in dropping
  /\ dropping' = dropping \ {i}
  /\ shell' = [shell EXCEPT ![i] = "dropped"]
  /\ UNCHANGED <<registry, pc, kind, target, outcome, arcs, holder, stale, dead,
                 closes, reaper>>

\* spawn_blocking(move || drop(entry)): the Session goes with its last Arc.
SpawnedDrop(i) ==
  /\ i \in dropping
  /\ dropping' = dropping \ {i}
  /\ shell' = [shell EXCEPT ![i] =
                 IF i \in sessions \/ \E c \in Calls : i \in arcs[c]
                 THEN @ ELSE "dropped"]
  /\ UNCHANGED <<registry, pc, kind, target, outcome, arcs, holder, stale, dead,
                 closes, reaper>>

\* session_ttl passes without a stamp on a registered entry.
Age(i) ==
  /\ HasTtl /\ i \in sessions /\ ~stale[i]
  /\ stale' = [stale EXCEPT ![i] = TRUE]
  /\ UNCHANGED <<registry, pc, kind, target, outcome, arcs, dropping, holder,
                 dead, shell, closes, reaper>>
-----------------------------------------------------------------------------
Create(c) ==
  \/ CreateStart(c)
  \/ ReapProbe(c) \/ ReapTry(c) \/ ReapSelected(c) \/ ReapRemove(c) \/ ReapDone(c)
  \/ Reserve(c) \/ Reject(c) \/ BuildFailed(c) \/ Built(c) \/ Insert(c)

Use(c) ==
  \/ Lookup(c) \/ Touch(c) \/ Leave(c) \/ LockSession(c) \/ CommandDone(c)
  \/ ExecFinish(c) \/ MaintenanceFinish(c) \/ ReportAlive(c) \/ CloseDead(c)

Next ==
  \/ \E c \in Calls : Create(c) \/ Use(c) \/ Destroy(c) \/ DestroyRelease(c)
  \/ \E i \in Ids : SpawnedDrop(i) \/ Age(i)

Spec == Init /\ [][Next]_vars

\* What the runtime owes a call that is past its first step: every thread that
\* can go on does. A waiter on the map mutex is not starved by reapers.
Progress(c) ==
  \/ ReapProbe(c) \/ ReapTry(c) \/ ReapSelected(c) \/ ReapRemove(c) \/ ReapDone(c)
  \/ Reserve(c) \/ Reject(c) \/ Touch(c) \/ Leave(c) \/ LockSession(c)
  \/ ExecFinish(c) \/ MaintenanceFinish(c) \/ ReportAlive(c) \/ DestroyRelease(c)

RuntimeFairness ==
  /\ \A c \in Calls : WF_vars(Progress(c)) /\ SF_vars(Insert(c)) /\ SF_vars(CloseDead(c))
  /\ \A i \in Ids : WF_vars(SpawnedDrop(i))

\* A command may run for an hour, so nothing here says that it ends.
FairSpec == Spec /\ RuntimeFairness
-----------------------------------------------------------------------------
(***************************************************************************)
(* Properties.                                                             *)
(***************************************************************************)

\* The types of the variables.
TypeOK ==
  /\ sessions \subseteq Ids
  /\ live \in Nat
  /\ mapLock \in Calls \cup {None}
  /\ pc \in [Calls -> Points]
  /\ kind \in [Calls -> Kinds]
  /\ target \in [Calls -> Ids \cup {None}]
  /\ outcome \in [Calls -> Outcomes]
  /\ arcs \in [Calls -> SUBSET Ids]
  /\ dropping \subseteq Ids
  /\ holder \in [Ids -> Calls \cup {None}]
  /\ stale \in [Ids -> BOOLEAN]
  /\ dead \in [Ids -> BOOLEAN]
  /\ shell \in [Ids -> Shells]
  /\ closes \in [Ids -> Nat]
  /\ scan \subseteq Ids /\ victims \subseteq Ids
  /\ probe \in Ids \cup {None}

\* Calls that hold a unit of `live` which no map entry stands for.
Claimants == {c \in Calls : pc[c] \in {"rejecting", "building", "inserting", "releasing"}}

\* Claimants that passed admission; a rejected create only over-reserves.
Admitted == {c \in Calls : pc[c] \in {"building", "inserting", "releasing"}}

\* Admission accounting of session_create, destroy, close and reap: the counter
\* is the number of registered sessions plus the units in transit, so that no
\* interleaving of removals leaks a slot or releases one twice.
LiveAccounting == live = Cardinality(sessions) + Cardinality(Claimants)

\* The cap of session_create: registered sessions, connects in flight and slots
\* not yet released never exceed max_sessions together.
CapRespected == Cardinality(sessions) + Cardinality(Admitted) <= MaxSessions

\* The audit log closes a session once, when it leaves the map, whichever of
\* destroy, reaper and dead-session cleanup gets there first.
ClosedOnce ==
  \A i \in Ids :
    closes[i] = IF \/ shell[i] = "none" \/ i \in sessions
                   \/ \E c \in Calls : target[c] = i /\ pc[c] \in {"inserting", "releasing"}
                THEN 0 ELSE 1

\* The shell behind a Session outlives its registration and every command: it
\* is dropped only when neither the map nor a running command refers to it.
NoUseAfterDrop ==
  \A i \in Ids : i \in sessions \/ holder[i] # None => shell[i] = "up"

\* The strengthening that makes the two admission properties inductive. The map
\* lock belongs to the one call that reaps, and what that call still has to
\* examine or remove stays registered until it does.
ReaperInv ==
  /\ \A c \in Calls : pc[c] \in {"reaping", "sweeping"} <=> mapLock = c
  /\ mapLock = None => scan = {} /\ victims = {} /\ probe = None
  /\ scan \subseteq sessions /\ victims \subseteq sessions
  /\ scan \cap victims = {}
  /\ probe # None => probe \in scan
  /\ \A c \in Calls : pc[c] = "sweeping" => scan = {} /\ probe = None

\* A Session that is built but not yet inserted belongs to one call only.
InsertInv ==
  \A c \in Calls :
    pc[c] = "inserting" =>
      /\ target[c] \in Ids \ sessions
      /\ \A d \in Calls \ {c} : target[d] # target[c]

\* Ids still to be minted have left no trace in the registry.
FreshInv ==
  \A i \in Ids :
    shell[i] = "none" => i \notin sessions /\ \A c \in Calls : target[c] # i

\* The inductive invariant of the admission counter: no removal of an entry,
\* by whichever handler, makes the counter disagree with the registry.
AdmissionInv ==
  /\ TypeOK /\ ReaperInv /\ InsertInv /\ FreshInv
  /\ LiveAccounting /\ CapRespected

\* A Session is up as long as the registry, a drop task or a call refers to it.
RefsUp ==
  \A i \in Ids :
    i \in sessions \cup dropping \/ (\E c \in Calls : i \in arcs[c]) => shell[i] = "up"

\* A call between its lookup and its answer holds one Arc, that of its target, and
\* outside the reaper's loop no other call holds any.
ArcsInv ==
  \A c \in Calls :
    /\ pc[c] \in {"touch", "want", "running", "finish", "leaving", "inserting", "releasing"} =>
         target[c] \in Ids /\ arcs[c] = {target[c]}
    /\ pc[c] = "report" => target[c] \in Ids
    /\ pc[c] \in {"idle", "reaping", "reserve", "rejecting", "building", "report"} => arcs[c] = {}

\* The lock of a session is held by a call that runs a command in it.
HolderInv ==
  \A i \in Ids, c \in Calls :
    holder[i] = c => pc[c] \in {"running", "finish"} /\ target[c] = i

\* A destroyed session that still has its slot belongs to one call only.
ReleaseInv ==
  \A c \in Calls :
    pc[c] = "releasing" =>
      /\ target[c] \notin sessions
      /\ \A d \in Calls \ {c} : pc[d] = "releasing" => target[d] # target[c]

\* The inductive invariant of the whole registry: beyond the counter, who refers
\* to a Session, who may close it and when it may be dropped.
RegistryInv ==
  AdmissionInv /\ RefsUp /\ ArcsInv /\ HolderInv /\ ReleaseInv /\ ClosedOnce

\* A session that left the registry loses its shell in the end (session_destroy
\* "frees its resources"), or a command that never ends is running in it.
RemovedShellEnds ==
  \A i \in Ids :
    closes[i] > 0 ~> \/ shell[i] \notin {"none", "up"}
                     \/ \E c \in Calls : pc[c] = "running" /\ target[c] = i

\* An exec that finds its session dead gets it out of the registry, so that a
\* retry sees an unknown id and not the same dead end.
DeadSessionClosed ==
  \A i \in Ids :
    (\E c \in Calls : pc[c] = "report" /\ outcome[c] = "dead" /\ target[c] = i)
      ~> i \notin sessions

\* The reaper never keeps the registry locked for the length of a command: it
\* releases the map even when no command ever ends.
MapLockReleased == mapLock # None ~> mapLock = None

\* What the call that has the map still has to do before it gives it back, in steps.
StepsLeft ==
  3 * Cardinality(scan) + Cardinality(victims)
    + (IF probe = None THEN 1 ELSE 0)
    + (IF \E c \in Calls : pc[c] = "reaping" THEN 1 ELSE 0)

\* The core of it, without fairness: while a call has the map locked, whatever it does
\* brings it nearer to giving it back, and no other call touches what it has to do.
\* A busy session is passed over once; none is waited for or tried again.
ReaperAdvances ==
  [][mapLock # None =>
       \/ mapLock' = None
       \/ mapLock' = mapLock /\ StepsLeft' < StepsLeft
       \/ mapLock' = mapLock /\ UNCHANGED reaper /\ pc'[mapLock] = pc[mapLock]]_vars
=============================================================================
