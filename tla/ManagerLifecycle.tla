--------------------------- MODULE ManagerLifecycle ---------------------------
(***************************************************************************)
(* SessionManager's table of workers (src/src/session/manager.py) and every *)
(* task that creates, revives, restarts or removes a worker: requests in    *)
(* get_or_create, spawn_account, the restarter, the operator's restart      *)
(* (api/admin.py) and stop_account.  Two levels of asyncio locks: the       *)
(* manager's, and one per session object.  Of a session only its process is *)
(* kept here; Session has its insides.                                      *)
(*                                                                          *)
(* A session object is <<u, g>>, the g-th ClaudeSession made for user_id u. *)
(***************************************************************************)
EXTENDS Naturals, Sequences, FiniteSets, Functions

CONSTANTS
  Users,      (* user_ids, one worker each                               *)
  Requests,   (* API requests, one get_or_create each                    *)
  Actors,     (* which of AllActors may run, once each                   *)
  MaxActors,  (* bound: how many of them do                              *)
  MaxFails,   (* bound: spawns that fail by themselves                   *)
  MaxCrashes  (* bound: workers that die by themselves                   *)

AllActors == {"spawn", "restarter", "operator", "force", "retire"}

ASSUME LifecycleAssumption ==
  /\ Actors \subseteq AllActors
  /\ Requests \cap AllActors = {}
  /\ MaxActors \in Nat /\ MaxFails \in Nat /\ MaxCrashes \in Nat

VARIABLES
  mlockq,   \* the manager's lock: holder first, then its waiters in order
  table,    \* self.sessions: the generation in it, 0 for none
  gen,      \* objects made for each user
  proc,     \* each object's process, as self.proc and returncode show it
  warm,     \* whether each object's process has had its prewarm
  lockq,    \* each object's lock
  pc,       \* where each task is
  want,     \* the user a request asks for
  mine,     \* the object a task works on
  todo,     \* spawn_account's chain; the restarter's snapshot
  retiring, \* how far stop_account is with each object
  fails, crashes, dropped  \* spawns failed, workers died, users popped

registry == <<mlockq, table, gen, dropped>>
plans == <<want, mine, todo>>
counts == <<fails, crashes>>
vars == <<registry, proc, warm, lockq, pc, plans, retiring, counts>>

MaxGen == MaxFails + 3   \* bound: objects made for a user
Objects == Users \X (1 .. MaxGen)
Tasks == Requests \cup {"spawn", "restarter", "operator", "force"}
Live == {"booting", "up", "dying"}   \* returncode is None
NoObject == <<>>
Places == {"idle", "mlock", "wait", "stop", "exec", "boot", "cold_exec", "cold_boot",
           "prewarm", "have", "queued", "next", "served", "lost", "refused", "failed",
           "aborted", "done"}

TypeOK ==
  /\ mlockq \in Seq(Requests \cup {"spawn"})
  /\ table \in [Users -> 0 .. MaxGen]
  /\ gen \in [Users -> 0 .. MaxGen]
  /\ \A u \in Users : table[u] <= gen[u]
  /\ proc \in [Objects -> {"none", "booting", "up", "dying", "dead"}]
  /\ warm \in [Objects -> {"no", "skipped", "yes"}]
  /\ lockq \in [Objects -> Seq(Tasks)]
  /\ pc \in [Tasks -> Places]
  /\ want \in [Requests -> Users \cup {"none"}]
  /\ mine \in [Tasks -> Objects \cup {NoObject}]
  /\ todo \in [{"spawn", "restarter"} -> SUBSET Objects]
  /\ retiring \in [Objects -> {"no", "begun", "killed", "done"}]
  /\ fails \in 0 .. MaxFails /\ crashes \in 0 .. MaxCrashes
  /\ dropped \in SUBSET Users
  \* an asyncio lock is not reentrant: nobody waits for it twice
  /\ IsInjective(mlockq) /\ \A o \in Objects : IsInjective(lockq[o])

InTable(o) == table[o[1]] = o[2]
MHolds(t) == mlockq # <<>> /\ Head(mlockq) = t
Holds(t) == lockq[mine[t]] # <<>> /\ Head(lockq[mine[t]]) = t
Goto(t, place) == pc' = [pc EXCEPT ![t] = place]
Retiring == \E o \in Objects : retiring[o] # "no"
\* Actor a may begin.
MayBegin(a) ==
  /\ a \in Actors
  /\ IF a = "retire" THEN ~Retiring ELSE pc[a] = "idle"
  /\ Cardinality({b \in AllActors \ {"retire"} : pc[b] # "idle"}
                  \cup {b \in {"retire"} : Retiring}) < MaxActors
Enqueue(o, t) == lockq' = [lockq EXCEPT ![o] = Append(@, t)]
Release(o) == lockq' = [lockq EXCEPT ![o] = Tail(@)]
\* self.sessions.pop(user_id): whatever object is there
Drop(u) == table' = [table EXCEPT ![u] = 0] /\ dropped' = dropped \cup {u}

\* After start() of the service: some users have a warm worker.
Init ==
  /\ mlockq = <<>>
  /\ table \in [Users -> {0, 1}]
  /\ gen = table
  /\ proc = [o \in Objects |-> IF InTable(o) THEN "up" ELSE "none"]
  /\ warm = [o \in Objects |-> IF InTable(o) THEN "yes" ELSE "no"]
  /\ lockq = [o \in Objects |-> <<>>]
  /\ pc = [t \in Tasks |-> "idle"]
  /\ want = [r \in Requests |-> "none"]
  /\ mine = [t \in Tasks |-> NoObject]
  /\ todo = [t \in {"spawn", "restarter"} |-> {}]
  /\ retiring = [o \in Objects |-> "no"]
  /\ fails = 0 /\ crashes = 0 /\ dropped = {}

-----------------------------------------------------------------------------
(* get_or_create, up to the liveness test.                                 *)

Ask(r) ==
  /\ pc[r] = "idle"
  /\ \E u \in Users : want' = [want EXCEPT ![r] = u]
  /\ Goto(r, "mlock")
  /\ mlockq' = Append(mlockq, r)
  /\ UNCHANGED <<counts, table, gen, proc, warm, lockq, mine, todo, retiring, dropped>>

\* A new ClaudeSession, not in the table before it has started.
Create(r) ==
  /\ gen[want[r]] < MaxGen
  /\ gen' = [gen EXCEPT ![want[r]] = @ + 1]
  /\ mine' = [mine EXCEPT ![r] = <<want[r], gen[want[r]] + 1>>]
  /\ Goto(r, "cold_exec")

LookNone(r) ==
  /\ pc[r] = "mlock" /\ MHolds(r)
  /\ table[want[r]] = 0
  /\ Create(r)
  /\ UNCHANGED <<counts, mlockq, table, proc, warm, lockq, want, todo, retiring, dropped>>

LookLive(r) ==
  LET o == <<want[r], table[want[r]]>> IN
  /\ pc[r] = "mlock" /\ MHolds(r)
  /\ table[want[r]] # 0 /\ proc[o] \in Live
  /\ mine' = [mine EXCEPT ![r] = o]
  /\ Goto(r, "have")
  /\ mlockq' = Tail(mlockq)
  /\ UNCHANGED <<counts, table, gen, proc, warm, lockq, want, todo, retiring, dropped>>

\* Mutant: a dead session is left to the garbage collector and replaced.
LookDeadReplaces(r) ==
  LET o == <<want[r], table[want[r]]>> IN
  /\ pc[r] = "mlock" /\ MHolds(r)
  /\ table[want[r]] # 0 /\ proc[o] \notin Live
  /\ Create(r)
  /\ UNCHANGED <<counts, mlockq, table, proc, warm, lockq, want, todo, retiring, dropped>>

\* Dead, or never started: wait for its lock with the manager's lock held.
LookDead(r) ==
  LET o == <<want[r], table[want[r]]>> IN
  /\ pc[r] = "mlock" /\ MHolds(r)
  /\ table[want[r]] # 0 /\ proc[o] \notin Live
  /\ mine' = [mine EXCEPT ![r] = o]
  /\ Goto(r, "wait")
  /\ Enqueue(o, r)
  /\ UNCHANGED <<registry, counts, proc, warm, want, todo, retiring>>

-----------------------------------------------------------------------------
(* restart() and start(), for a task that holds the object's lock, and      *)
(* start() of an object that is not in the table yet.                       *)

RestartBegin(t) ==
  LET o == mine[t] IN
  /\ pc[t] = "wait" /\ Holds(t)
  /\ proc' = [proc EXCEPT ![o] = IF @ \in Live THEN "dying" ELSE @]
  /\ Goto(t, "stop")
  /\ UNCHANGED <<registry, plans, counts, warm, lockq, retiring>>

\* The old process is gone; self.proc is None until the new one exists.
RestartStopped(t) ==
  LET o == mine[t] IN
  /\ pc[t] = "stop" /\ proc[o] # "dying"
  /\ proc' = [proc EXCEPT ![o] = "none"]
  /\ warm' = [warm EXCEPT ![o] = "no"]
  /\ Goto(t, "exec")
  /\ UNCHANGED <<registry, plans, counts, lockq, retiring>>

Exec(t) ==
  LET o == mine[t] IN
  /\ pc[t] \in {"exec", "cold_exec"}
  /\ proc' = [proc EXCEPT ![o] = "booting"]
  /\ Goto(t, IF pc[t] = "exec" THEN "boot" ELSE "cold_boot")
  /\ UNCHANGED <<registry, plans, counts, warm, lockq, retiring>>

\* start() raises: before there is a process (its home cannot be made or seeded,
\* the exec fails); without a first line in time (the process is killed, and
\* exits a moment later); or at end of file, for which stop_account may be the
\* reason.  A process that says something else first is in Session.
Fails(o) ==
  \/ /\ fails < MaxFails
     /\ fails' = fails + 1
     /\ \/ proc[o] = "none" /\ UNCHANGED proc
        \/ /\ proc[o] = "booting"
           /\ \E p \in {"dying", "dead"} : proc' = [proc EXCEPT ![o] = p]
  \/ /\ proc[o] \in {"dying", "dead"}
     /\ UNCHANGED <<fails, proc>>

\* The first line says ready, though the process may be terminated by now.
Boots(o) ==
  /\ proc' = [proc EXCEPT ![o] = IF @ = "booting" THEN "up" ELSE @]
  /\ UNCHANGED fails

\* Mutant: the prewarm takes the lock its caller holds (call, not _submit).
ReadyReenters(t) ==
  /\ t # "force" /\ pc[t] = "boot" /\ Boots(mine[t])
  /\ Enqueue(mine[t], t)
  /\ Goto(t, "prewarm")
  /\ mlockq' = IF t \in Requests THEN Tail(mlockq) ELSE mlockq
  /\ UNCHANGED <<plans, table, gen, warm, retiring, crashes, dropped>>

\* Mutant: a revived worker goes to the caller without its prewarm.
ReadyUnwarmed(t) ==
  /\ t # "force" /\ pc[t] = "boot" /\ Boots(mine[t])
  /\ IF t \in Requests THEN Goto(t, "have") /\ Release(mine[t]) /\ mlockq' = Tail(mlockq)
     ELSE Goto(t, "prewarm") /\ UNCHANGED <<lockq, mlockq>>
  /\ UNCHANGED <<plans, table, gen, warm, retiring, crashes, dropped>>

\* Ready on an object whose lock the task holds; a request gives the
\* manager's lock back first.
Ready(t) ==
  /\ t # "force" /\ pc[t] = "boot" /\ Boots(mine[t])
  /\ Goto(t, "prewarm")
  /\ mlockq' = IF t \in Requests THEN Tail(mlockq) ELSE mlockq
  /\ UNCHANGED <<plans, table, gen, warm, lockq, retiring, crashes, dropped>>

\* Cold creation: into the table, locked, then the manager's lock is free.
ColdReady(r) ==
  LET o == mine[r] IN
  /\ pc[r] = "cold_boot" /\ Boots(o)
  /\ table' = [table EXCEPT ![o[1]] = o[2]]
  /\ Enqueue(o, r)
  /\ Goto(r, "prewarm")
  /\ mlockq' = Tail(mlockq)
  /\ UNCHANGED <<plans, gen, warm, retiring, crashes, dropped>>

ColdFails(r) ==
  /\ pc[r] \in {"cold_exec", "cold_boot"} /\ Fails(mine[r])
  /\ Goto(r, "failed")
  /\ mlockq' = Tail(mlockq)
  /\ UNCHANGED <<plans, table, gen, warm, lockq, retiring, crashes, dropped>>

\* Mutant: the failed revive keeps the lock of the session it drops.
ReviveFailsLocked(r) ==
  /\ pc[r] \in {"exec", "boot"} /\ Fails(mine[r])
  /\ Drop(want[r])
  /\ Create(r)
  /\ UNCHANGED <<mlockq, warm, lockq, want, todo, retiring, crashes>>

\* In-place revive failed: drop the session, create a new one.
ReviveFails(r) ==
  LET o == mine[r] IN
  /\ pc[r] \in {"exec", "boot"} /\ Fails(o)
  /\ Release(o)
  /\ Drop(want[r])
  /\ Create(r)
  /\ UNCHANGED <<mlockq, warm, want, todo, retiring, crashes>>

\* spawn_account and the restarter drop the session and go on; the operator's
\* endpoint and the forced restart leave it as it is, without a process if the
\* failure came before there was one.
ActorFails(t) ==
  LET o == mine[t] IN
  /\ t \notin Requests
  /\ pc[t] \in {"exec", "boot"} /\ Fails(o)
  /\ Release(o)
  /\ IF t \in {"operator", "force"}
     THEN /\ Goto(t, IF pc[t] = "exec" THEN "aborted" ELSE "done")
          /\ UNCHANGED <<table, dropped>>
     ELSE Goto(t, "next") /\ Drop(o[1])
  /\ UNCHANGED <<plans, mlockq, gen, warm, retiring, crashes>>

\* _safe_prewarm ends, well or not; the lock was held since the spawn.
PrewarmEnd(t) ==
  LET o == mine[t] IN
  /\ pc[t] = "prewarm"
  /\ warm' = [warm EXCEPT ![o] = "yes"]
  /\ Release(o)
  /\ Goto(t, IF t \in Requests THEN "have"
             ELSE IF t = "operator" THEN "done" ELSE "next")
  /\ UNCHANGED <<registry, plans, counts, proc, retiring>>

-----------------------------------------------------------------------------
(* ClaudeSession.call on the session get_or_create returned.               *)

Enter(r) ==
  /\ pc[r] = "have"
  /\ Enqueue(mine[r], r)
  /\ Goto(r, "queued")
  /\ UNCHANGED <<registry, plans, counts, proc, warm, retiring>>

\* A process that is going down still takes the line, and never answers it.
Submit(r) ==
  LET o == mine[r] IN
  /\ pc[r] = "queued" /\ Holds(r)
  /\ Release(o)
  /\ Goto(r, IF proc[o] = "up" THEN "served"
             ELSE IF proc[o] \in Live THEN "lost" ELSE "refused")
  /\ UNCHANGED <<registry, plans, counts, proc, warm, retiring>>

-----------------------------------------------------------------------------
(* spawn_account                                                           *)

SpawnAsk ==
  /\ MayBegin("spawn")
  /\ Goto("spawn", "mlock")
  /\ mlockq' = Append(mlockq, "spawn")
  /\ UNCHANGED <<plans, counts, table, gen, proc, warm, lockq, retiring, dropped>>

\* Mutant: the placeholders are registered unlocked and locked one by one.
SpawnRegisterUnlocked ==
  LET missing == {u \in Users : table[u] = 0} IN
  /\ pc["spawn"] = "mlock" /\ MHolds("spawn")
  /\ gen' = [u \in Users |-> IF u \in missing THEN gen[u] + 1 ELSE gen[u]]
  /\ table' = [u \in Users |-> IF u \in missing THEN gen[u] + 1 ELSE table[u]]
  /\ todo' = [todo EXCEPT !["spawn"] = {<<u, gen[u] + 1>> : u \in missing}]
  /\ mlockq' = Tail(mlockq)
  /\ Goto("spawn", "next")
  /\ UNCHANGED <<counts, proc, warm, lockq, want, mine, retiring, dropped>>

\* Placeholders for every missing user, each with its lock held.
SpawnRegister ==
  LET missing == {u \in Users : table[u] = 0}
      made == {<<u, gen[u] + 1>> : u \in missing}
  IN /\ pc["spawn"] = "mlock" /\ MHolds("spawn")
     /\ \A u \in missing : gen[u] < MaxGen
     /\ gen' = [u \in Users |-> IF u \in missing THEN gen[u] + 1 ELSE gen[u]]
     /\ table' = [u \in Users |-> IF u \in missing THEN gen[u] + 1 ELSE table[u]]
     /\ lockq' = [o \in Objects |-> IF o \in made THEN <<"spawn">> ELSE lockq[o]]
     /\ todo' = [todo EXCEPT !["spawn"] = made]
     /\ mlockq' = Tail(mlockq)
     /\ Goto("spawn", "next")
     /\ UNCHANGED <<counts, proc, warm, want, mine, retiring, dropped>>

\* One after the other, whether or not the one before came up.
SpawnNext ==
  /\ pc["spawn"] = "next"
  /\ \/ /\ todo["spawn"] = {} /\ Goto("spawn", "done") /\ UNCHANGED <<mine, todo>>
     \/ \E o \in todo["spawn"] :
          /\ mine' = [mine EXCEPT !["spawn"] = o]
          /\ todo' = [todo EXCEPT !["spawn"] = @ \ {o}]
          /\ Goto("spawn", "exec")
  /\ UNCHANGED <<registry, counts, proc, warm, lockq, want, retiring>>

-----------------------------------------------------------------------------
(* The restarter, the operator and the forced restart of a session.        *)

\* One pass over a copy of the table.
RestarterPass ==
  /\ MayBegin("restarter")
  /\ todo' = [todo EXCEPT !["restarter"] = {o \in Objects : InTable(o)}]
  /\ Goto("restarter", "next")
  /\ UNCHANGED <<registry, counts, proc, warm, lockq, want, mine, retiring>>

\* An overdue one, or none of those left.
RestarterNext ==
  /\ pc["restarter"] = "next"
  /\ \/ Goto("restarter", "done") /\ UNCHANGED <<mine, todo, lockq>>
     \/ \E o \in todo["restarter"] :
          /\ mine' = [mine EXCEPT !["restarter"] = o]
          /\ todo' = [todo EXCEPT !["restarter"] = @ \ {o}]
          /\ Enqueue(o, "restarter")
          /\ Goto("restarter", "wait")
  /\ UNCHANGED <<registry, counts, proc, warm, want, retiring>>

\* /admin/workers/{user_id}/restart
OperatorRestart ==
  /\ MayBegin("operator")
  /\ \E o \in Objects :
       /\ InTable(o)
       /\ mine' = [mine EXCEPT !["operator"] = o]
       /\ Enqueue(o, "operator")
  /\ Goto("operator", "wait")
  /\ UNCHANGED <<registry, counts, proc, warm, want, todo, retiring>>

\* mark_intercept_failure: replies of the object ended without a byte.
ForceRestart ==
  /\ MayBegin("force")
  /\ \E r \in Requests :
       /\ pc[r] \in {"served", "lost"}
       /\ mine' = [mine EXCEPT !["force"] = mine[r]]
       /\ Enqueue(mine[r], "force")
  /\ Goto("force", "wait")
  /\ UNCHANGED <<registry, counts, proc, warm, want, todo, retiring>>

\* _force_restart_async lets the callers in without a prewarm.
ForceReady ==
  LET o == mine["force"] IN
  /\ pc["force"] = "boot" /\ Boots(o)
  /\ warm' = [warm EXCEPT ![o] = "skipped"]
  /\ Release(o)
  /\ Goto("force", "done")
  /\ UNCHANGED <<registry, plans, retiring, crashes>>

-----------------------------------------------------------------------------
(* stop_account: all its sessions in parallel.  The lock is waited for at   *)
(* most drain_seconds and given back at once, so it orders nothing here.    *)

RetireAll ==
  /\ MayBegin("retire")
  /\ \E u \in Users : table[u] # 0
  /\ retiring' = [o \in Objects |-> IF InTable(o) THEN "begun" ELSE "no"]
  /\ UNCHANGED <<registry, plans, counts, proc, warm, lockq, pc>>

\* terminate(), then wait for the exit ...
RetireKill(o) ==
  /\ retiring[o] = "begun" /\ proc[o] \in Live
  /\ proc' = [proc EXCEPT ![o] = "dying"]
  /\ retiring' = [retiring EXCEPT ![o] = "killed"]
  /\ UNCHANGED <<registry, plans, counts, warm, lockq, pc>>

\* ... or at once, when there is no process to stop.
RetireEnd(o) ==
  /\ \/ retiring[o] = "killed" /\ proc[o] # "dying"
     \/ retiring[o] = "begun" /\ proc[o] \notin Live
  /\ retiring' = [retiring EXCEPT ![o] = "done"]
  /\ Drop(o[1])
  /\ UNCHANGED <<plans, counts, mlockq, gen, proc, warm, lockq, pc>>

-----------------------------------------------------------------------------
(* Processes.                                                              *)

Crash(o) ==
  /\ proc[o] = "up" /\ crashes < MaxCrashes
  /\ proc' = [proc EXCEPT ![o] = "dead"]
  /\ crashes' = crashes + 1
  /\ UNCHANGED <<registry, plans, warm, lockq, pc, retiring, fails>>

Exit(o) ==
  /\ proc[o] = "dying"
  /\ proc' = [proc EXCEPT ![o] = "dead"]
  /\ UNCHANGED <<registry, plans, counts, warm, lockq, pc, retiring>>

Request(r) ==
  \/ LookNone(r) \/ LookLive(r) \/ LookDead(r)
  \/ ColdReady(r) \/ ColdFails(r) \/ ReviveFails(r)
  \/ Enter(r) \/ Submit(r)

Work(t) ==
  \/ RestartBegin(t) \/ RestartStopped(t) \/ Exec(t) \/ Ready(t) \/ ActorFails(t)
  \/ PrewarmEnd(t)

Next ==
  \/ \E r \in Requests : Ask(r)
  \/ \E r \in Requests : Request(r)
  \/ \E t \in Tasks : Work(t)
  \/ SpawnAsk \/ SpawnRegister \/ SpawnNext
  \/ RestarterPass \/ RestarterNext \/ OperatorRestart
  \/ ForceRestart \/ ForceReady
  \/ RetireAll
  \/ \E o \in Objects : RetireKill(o)
  \/ \E o \in Objects : RetireEnd(o)
  \/ \E o \in Objects : Crash(o)
  \/ \E o \in Objects : Exit(o)

Spec == Init /\ [][Next]_vars

\* The loop runs every task that can run; a spawn ends within
\* worker_ready_seconds, a prewarm within prewarm_seconds, a terminated
\* process exits (it is killed after 5 s).
Fairness ==
  /\ \A r \in Requests : WF_vars(Request(r))
  /\ \A t \in Tasks : WF_vars(Work(t))
  /\ WF_vars(SpawnRegister) /\ WF_vars(SpawnNext) /\ WF_vars(RestarterNext)
  /\ WF_vars(ForceReady)
  /\ \A o \in Objects : WF_vars(RetireKill(o)) /\ WF_vars(RetireEnd(o))
                        /\ WF_vars(Exit(o))

FairSpec == Spec /\ Fairness

-----------------------------------------------------------------------------
(* Properties.                                                             *)

\* The operator's or the forced restart of o found no way to exec a new process.
AbortedAt(o) == \E t \in {"operator", "force"} : mine[t] = o /\ pc[t] = "aborted"

\* Task t is the one that starts a process for o, or has it on its list.
Starts(t, o) ==
  \/ mine[t] = o /\ pc[t] \in {"exec", "boot"}
  \/ t = "spawn" /\ o \in todo["spawn"]

\* A session in the table whose process does not exist yet, or is not ready, is
\* locked by the task that starts it: a request that finds it waits and is not
\* told that the worker is not running.  The one exception is a session that the
\* operator's or the forced restart left without a process, because the exec
\* itself failed: until its next start it has neither process nor lock.
PlaceholderLocked ==
  \A o \in Objects :
    InTable(o) /\ proc[o] \in {"none", "booting"} =>
      \/ \E t \in Tasks : Starts(t, o) /\ lockq[o] # <<>> /\ Head(lockq[o]) = t
      \/ proc[o] = "none" /\ AbortedAt(o)

\* No request enters a worker that has not had its prewarm, unless a forced
\* restart skipped it: the first request of a fresh CLI would set off the burst
\* of bootstrap calls.
WarmFirst ==
  [][\A r \in Requests :
       pc[r] # "served" /\ pc'[r] = "served" => warm[mine[r]] # "no"]_vars

\* As long as nobody dropped the user's session, the user has one process at
\* most, and it is the one in the table or the one being created for it.
OneWorker ==
  \A u \in Users \ dropped :
    \A o, q \in {p \in Objects : p[1] = u /\ proc[p] \in {"booting", "up"}} : o = q

\* Every request that asks for a worker is served, refused or told that none
\* could be started: the two locks are never taken in a circle, and no holder
\* keeps one for ever.
RequestsEnd ==
  \A r \in Requests :
    pc[r] = "mlock" ~> pc[r] \in {"served", "lost", "refused", "failed"}

-----------------------------------------------------------------------------
(* What comments and docstrings say, and the code does not do.             *)

\* _prewarm_bootstrap: "By running this dummy call at startup / restart /
\* revive, the burst happens while no user is waiting".
AlwaysWarm ==
  [][\A r \in Requests :
       pc[r] # "served" /\ pc'[r] = "served" => warm[mine[r]] = "yes"]_vars

\* get_or_create: "this keeps the prewarm window short (other users
\* unaffected)": whoever holds the manager's lock does not wait for a prewarm.
OthersUnaffected ==
  \A r \in Requests, t \in Tasks :
    pc[r] = "wait" /\ MHolds(r) /\ mine[t] = mine[r] => pc[t] # "prewarm"

\* get_or_create: "worker dead; reviving in place": it restarts dead workers.
OnlyDeadRevived ==
  [][\A r \in Requests :
       pc[r] = "wait" /\ pc'[r] = "stop" => proc[mine[r]] \notin Live]_vars

\* Restarts, revivals and stop_account leave no process behind that no entry
\* of the table leads to.
NoOrphan ==
  \A o \in Objects :
    proc[o] = "up" => \/ InTable(o) \/ retiring[o] \in {"begun", "killed"}
                      \/ \E t \in Tasks : mine[t] = o /\ pc[t] \notin
                             {"served", "lost", "refused", "failed", "aborted",
                              "done", "next"}
=============================================================================
