------------------------ MODULE ManagerLifecycleProofs ------------------------
(***************************************************************************)
(* Theorems about ManagerLifecycle, for any users, requests, failing       *)
(* spawns, dying workers and any of the actors.                            *)
(*                                                                         *)
(* The argument: a task is in the queue of a lock only where its place     *)
(* says so (LockInv), so whoever restarts an object is alone at it; only   *)
(* the holder of the manager's lock creates a session (MLockInv, ColdInv); *)
(* and as long as nobody dropped a user's session, everybody who works on  *)
(* an object of the user works on the one in the table (KeptInv).          *)
(***************************************************************************)
EXTENDS ManagerLifecycle, TLAPS

In(t, q) == \E i \in DOMAIN q : q[i] = t

\* Places of a task that holds its object's lock and works on it, of a request
\* that creates an object, and of a request that holds the manager's lock.
Working == {"stop", "exec", "boot", "prewarm"}
Cold == {"cold_exec", "cold_boot"}
Deciding == {"wait", "stop", "exec", "boot"} \cup Cold

\* Places: spawn_account never waits for an object's lock, and only requests
\* create one.
PlaceInv ==
  /\ pc["spawn"] \in {"idle", "mlock", "next", "exec", "boot", "prewarm", "done"}
  /\ pc["spawn"] \in {"idle", "mlock"} => todo["spawn"] = {}
  /\ \A t \in {"restarter", "operator", "force"} :
       pc[t] \in {"idle", "next", "wait", "aborted", "done"} \cup Working
  /\ \A r \in Requests :
       /\ pc[r] \notin {"next", "aborted", "done"}
       /\ IF pc[r] = "idle" THEN mine[r] \notin Objects ELSE want[r] \in Users
       /\ mine[r] \in Objects => mine[r][1] = want[r]
  /\ \A t \in Tasks :
       pc[t] \notin {"idle", "mlock", "next", "done"} => mine[t] \in Objects

\* Who is in the queue of the manager's lock, and who holds it.
MLockInv ==
  /\ \A t : In(t, mlockq) => IF t = "spawn" THEN pc[t] = "mlock"
                             ELSE pc[t] \in {"mlock"} \cup Deciding
  /\ \A r \in Requests : pc[r] \in Deciding => MHolds(r)

Queued(t, o) ==
  \/ mine[t] = o /\ pc[t] \in {"wait", "queued"} \cup Working
  \/ t = "spawn" /\ o \in todo["spawn"]

\* Who is in the queue of an object's lock, and who holds it.
LockInv ==
  /\ \A o \in Objects : \A t \in Tasks : In(t, lockq[o]) => Queued(t, o)
  /\ \A t \in Tasks : pc[t] \in Working => Holds(t)
  /\ \A o \in todo["spawn"] : lockq[o] # <<>> /\ Head(lockq[o]) = "spawn"
  /\ pc["spawn"] \in Working => mine["spawn"] \notin todo["spawn"]

Made(o) == o[2] <= gen[o[1]]

\* Nobody knows an object before it is made.
FreshInv ==
  /\ \A t \in Tasks : mine[t] \in Objects => Made(mine[t])
  /\ \A t \in {"spawn", "restarter"} : \A o \in todo[t] : Made(o)
  /\ \A o \in Objects : proc[o] # "none" => Made(o)

\* Nobody but its creator knows an object that is not in the table yet.
ColdInv ==
  \A r \in Tasks :
    pc[r] \in Cold =>
      /\ r \in Requests
      /\ ~InTable(mine[r])
      /\ mine[r] \notin todo["spawn"] \cup todo["restarter"]
      /\ \A t \in Tasks \ {r} : mine[t] # mine[r]
      /\ want[r] \notin dropped => table[want[r]] = 0
      /\ pc[r] = "cold_boot" => proc[mine[r]] # "none"

\* As long as nobody dropped a user's session, everybody works on that one.
KeptInv ==
  /\ \A t \in Tasks :
       mine[t] \in Objects /\ mine[t][1] \notin dropped
         => InTable(mine[t]) \/ pc[t] \in Cold \cup {"failed"}
  /\ \A t \in {"spawn", "restarter"} : \A o \in todo[t] :
       o[1] \notin dropped => InTable(o)
  /\ \A o \in Objects :
       o[1] \notin dropped /\ proc[o] \in {"booting", "up"}
         => InTable(o) \/ \E r \in Tasks : pc[r] = "cold_boot" /\ mine[r] = o

BootInv == \A t \in Tasks : pc[t] = "boot" => proc[mine[t]] # "none"

\* A worker that answers and has had no prewarm is locked by the task that is
\* about to do it.
WarmInv ==
  \A o \in Objects :
    proc[o] = "up" /\ warm[o] = "no" =>
      \E t \in Tasks : /\ lockq[o] # <<>> /\ Head(lockq[o]) = t
                       /\ mine[t] = o /\ pc[t] = "prewarm"

LifecycleInv ==
  /\ TypeOK /\ PlaceInv /\ MLockInv /\ LockInv /\ FreshInv /\ ColdInv /\ KeptInv
  /\ BootInv /\ PlaceholderLocked /\ WarmInv

-----------------------------------------------------------------------------
(* Queues and objects.                                                     *)

\* Somebody new at the end of a queue.
LEMMA AppendQueue ==
  ASSUME NEW S, NEW q \in Seq(S), IsInjective(q), NEW t \in S, ~In(t, q)
  PROVE  /\ Append(q, t) \in Seq(S) /\ IsInjective(Append(q, t))
         /\ Append(q, t) # <<>>
         /\ Head(Append(q, t)) = IF q = <<>> THEN t ELSE Head(q)
         /\ \A x : In(x, Append(q, t)) <=> In(x, q) \/ x = t
  <1>1. /\ Append(q, t) \in Seq(S) /\ Append(q, t) # <<>>
        /\ Len(Append(q, t)) = Len(q) + 1
        /\ \A i \in 1 .. Len(q) : Append(q, t)[i] = q[i]
        /\ Append(q, t)[Len(q) + 1] = t
    OBVIOUS
  <1>2. IsInjective(Append(q, t))
    BY <1>1 DEF IsInjective, In
  <1>3. Head(Append(q, t)) = IF q = <<>> THEN t ELSE Head(q)
    OBVIOUS
  <1>4. ASSUME NEW x
        PROVE  In(x, Append(q, t)) <=> In(x, q) \/ x = t
    BY <1>1 DEF In
  <1> QED
    BY <1>1, <1>2, <1>3, <1>4

\* The head leaves a queue.
LEMMA TailQueue ==
  ASSUME NEW S, NEW q \in Seq(S), IsInjective(q), q # <<>>
  PROVE  /\ Tail(q) \in Seq(S) /\ IsInjective(Tail(q))
         /\ \A x : In(x, Tail(q)) <=> In(x, q) /\ x # Head(q)
         /\ In(Head(q), q)
  <1>1. /\ Tail(q) \in Seq(S) /\ Len(Tail(q)) = Len(q) - 1
        /\ \A i \in 1 .. Len(q) - 1 : Tail(q)[i] = q[i + 1]
        /\ Len(q) \in Nat \ {0} /\ Head(q) = q[1]
        /\ DOMAIN Tail(q) = 1 .. Len(q) - 1 /\ 1 \in DOMAIN q
    OBVIOUS
  <1>2. IsInjective(Tail(q))
    BY <1>1 DEF IsInjective
  <1>3. ASSUME NEW x, In(x, Tail(q))
        PROVE  In(x, q) /\ x # Head(q)
    BY <1>1, <1>3 DEF In, IsInjective
  <1>4. ASSUME NEW x, In(x, q), x # Head(q)
        PROVE  In(x, Tail(q))
    <2>1. PICK i \in 1 .. Len(q) : q[i] = x
      BY <1>4 DEF In
    <2>2. i - 1 \in 1 .. Len(q) - 1 /\ Tail(q)[i - 1] = x
      BY <1>1, <1>4, <2>1
    <2> QED
      BY <1>1, <2>2 DEF In
  <1>5. In(Head(q), q)
    BY <1>1 DEF In
  <1> QED
    BY <1>1, <1>2, <1>3, <1>4, <1>5

\* Objects are pairs, and no object is none.
LEMMA ObjectPairs ==
  /\ \A o \in Objects : o[1] \in Users /\ o[2] \in 1 .. MaxGen /\ o = <<o[1], o[2]>>
  /\ \A u \in Users, g \in 1 .. MaxGen :
       <<u, g>> \in Objects /\ <<u, g>>[1] = u /\ <<u, g>>[2] = g
  /\ NoObject \notin Objects
  /\ MaxGen \in Nat
  BY LifecycleAssumption DEF Objects, NoObject, MaxGen

\* No request is one of the actors.
LEMMA TaskNames ==
  /\ {"spawn", "restarter", "operator", "force"} \cap Requests = {}
  /\ Tasks = Requests \cup {"spawn", "restarter", "operator", "force"}
  BY LifecycleAssumption DEF AllActors, Tasks

\* A task joins the queue of an object's lock.
LEMMA EnqueueStep ==
  ASSUME TypeOK, NEW o \in Objects, NEW t \in Tasks, ~In(t, lockq[o]), Enqueue(o, t)
  PROVE  /\ lockq' \in [Objects -> Seq(Tasks)]
         /\ \A p \in Objects : IsInjective(lockq'[p])
         /\ \A p \in Objects, x \in Tasks :
              In(x, lockq'[p]) <=> In(x, lockq[p]) \/ (p = o /\ x = t)
         /\ \A p \in Objects :
              lockq[p] # <<>> => lockq'[p] # <<>> /\ Head(lockq'[p]) = Head(lockq[p])
         /\ lockq'[o] # <<>> /\ (lockq[o] = <<>> => Head(lockq'[o]) = t)
  <1>1. lockq[o] \in Seq(Tasks) /\ IsInjective(lockq[o])
    BY DEF TypeOK
  <1>2. lockq' = [lockq EXCEPT ![o] = Append(lockq[o], t)]
    BY DEF Enqueue
  <1>3. lockq'[o] = Append(lockq[o], t) /\ \A p \in Objects \ {o} : lockq'[p] = lockq[p]
    BY <1>2 DEF TypeOK
  <1>4. /\ lockq'[o] \in Seq(Tasks) /\ IsInjective(lockq'[o]) /\ lockq'[o] # <<>>
        /\ Head(lockq'[o]) = IF lockq[o] = <<>> THEN t ELSE Head(lockq[o])
        /\ \A x : In(x, lockq'[o]) <=> In(x, lockq[o]) \/ x = t
    BY <1>1, <1>3, AppendQueue
  <1>5. lockq' \in [Objects -> Seq(Tasks)]
    BY <1>2, <1>3, <1>4 DEF TypeOK
  <1> QED
    BY <1>3, <1>4, <1>5 DEF TypeOK

\* The holder of an object's lock gives it back.
LEMMA ReleaseStep ==
  ASSUME TypeOK, NEW o \in Objects, lockq[o] # <<>>, Release(o)
  PROVE  /\ lockq' \in [Objects -> Seq(Tasks)]
         /\ \A p \in Objects : IsInjective(lockq'[p])
         /\ \A p \in Objects, x \in Tasks :
              In(x, lockq'[p]) <=> In(x, lockq[p]) /\ ~(p = o /\ x = Head(lockq[o]))
         /\ \A p \in Objects \ {o} : lockq'[p] = lockq[p]
  <1>1. lockq[o] \in Seq(Tasks) /\ IsInjective(lockq[o])
    BY DEF TypeOK
  <1>2. lockq' = [lockq EXCEPT ![o] = Tail(lockq[o])]
    BY DEF Release
  <1>3. lockq'[o] = Tail(lockq[o]) /\ \A p \in Objects \ {o} : lockq'[p] = lockq[p]
    BY <1>2 DEF TypeOK
  <1>4. /\ lockq'[o] \in Seq(Tasks) /\ IsInjective(lockq'[o])
        /\ \A x : In(x, lockq'[o]) <=> In(x, lockq[o]) /\ x # Head(lockq[o])
    BY <1>1, <1>3, TailQueue
  <1>5. lockq' \in [Objects -> Seq(Tasks)]
    BY <1>2, <1>3, <1>4 DEF TypeOK
  <1> QED
    BY <1>3, <1>4, <1>5 DEF TypeOK

-----------------------------------------------------------------------------
(* Where the tasks are, and what they work on.                             *)

PlanType ==
  /\ pc \in [Tasks -> Places]
  /\ want \in [Requests -> Users \cup {"none"}]
  /\ mine \in [Tasks -> Objects \cup {NoObject}]
  /\ todo \in [{"spawn", "restarter"} -> SUBSET Objects]

\* What a step may do to a task: send it to place p, to work on object m.
Moves(t, p, m) ==
  /\ pc' = [pc EXCEPT ![t] = p]
  /\ mine' = [mine EXCEPT ![t] = m]

USE DEF registry, plans, counts

\* One task moves, and the places stay right.
LEMMA Move ==
  ASSUME LifecycleInv, NEW t \in Tasks, NEW p \in Places,
         NEW m \in Objects \cup {NoObject}, Moves(t, p, m), PlanType',
         \A r \in Requests \ {t} : want'[r] = want[r],
         t # "spawn" => todo'["spawn"] = todo["spawn"],
         t = "spawn" =>
           /\ p \in {"mlock", "next", "exec", "boot", "prewarm", "done"}
           /\ p = "mlock" => todo'["spawn"] = {},
         t \in {"restarter", "operator", "force"} =>
           p \in {"next", "wait", "aborted", "done"} \cup Working,
         t \in Requests => /\ p \notin {"idle", "next", "aborted", "done"}
                           /\ want'[t] \in Users
                           /\ m \in Objects => m[1] = want'[t],
         p \notin {"idle", "mlock", "next", "done"} => m \in Objects
  PROVE  PlaceInv'
  <1> USE TaskNames DEF LifecycleInv, TypeOK, PlanType, PlaceInv, Moves
  <1>1. /\ pc'[t] = p /\ mine'[t] = m
        /\ \A s \in Tasks \ {t} : pc'[s] = pc[s] /\ mine'[s] = mine[s]
    OBVIOUS
  <1>2. /\ pc'["spawn"] \in {"idle", "mlock", "next", "exec", "boot", "prewarm", "done"}
        /\ pc'["spawn"] \in {"idle", "mlock"} => todo'["spawn"] = {}
    BY <1>1
  <1>3. \A s \in {"restarter", "operator", "force"} :
          pc'[s] \in {"idle", "next", "wait", "aborted", "done"} \cup Working
    BY <1>1
  <1>4. \A r \in Requests :
          /\ pc'[r] \notin {"next", "aborted", "done"}
          /\ IF pc'[r] = "idle" THEN mine'[r] \notin Objects ELSE want'[r] \in Users
          /\ mine'[r] \in Objects => mine'[r][1] = want'[r]
    BY <1>1
  <1>5. \A s \in Tasks :
          pc'[s] \notin {"idle", "mlock", "next", "done"} => mine'[s] \in Objects
    BY <1>1
  <1> QED
    BY <1>2, <1>3, <1>4, <1>5

\* Types and places, of a request's own steps.
LEMMA RequestPlaces ==
  ASSUME LifecycleInv, NEW r \in Requests, Ask(r) \/ Request(r)
  PROVE  (PlanType /\ PlaceInv)'
  <1> USE TaskNames DEF LifecycleInv, TypeOK, PlanType, Goto, Places
  <1>t. /\ pc[r] # "idle" => want[r] \in Users
        /\ mine[r] \in Objects => mine[r][1] = want[r]
        /\ pc[r] \notin {"idle", "mlock", "next", "done"} => mine[r] \in Objects
    BY DEF PlaceInv
  <1>1. CASE Ask(r)
    <2>1. PICK u \in Users : want' = [want EXCEPT ![r] = u]
      BY <1>1 DEF Ask
    <2>2. PlanType' /\ Moves(r, "mlock", mine[r])
      BY <1>1, <2>1 DEF Ask, Moves
    <2>3. mine[r] \notin Objects
      BY <1>1 DEF Ask, PlaceInv
    <2> QED
      BY <1>1, <2>1, <2>2, <2>3, Move DEF Ask
  <1>2. CASE LookNone(r) \/ ReviveFails(r)
    <2>1. want[r] \in Users /\ gen[want[r]] + 1 \in 1 .. MaxGen
      BY <1>t, <1>2, ObjectPairs DEF LookNone, ReviveFails, Create
    <2> DEFINE m == <<want[r], gen[want[r]] + 1>>
    <2>2. m \in Objects /\ m[1] = want[r]
      BY <2>1, ObjectPairs
    <2>3. Moves(r, "cold_exec", m) /\ want' = want /\ todo' = todo
      BY <1>2 DEF LookNone, ReviveFails, Create, Moves
    <2> HIDE DEF m
    <2>4. PlanType'
      BY <2>2, <2>3 DEF Moves
    <2> QED
      BY <2>1, <2>2, <2>3, <2>4, Move
  <1>3. CASE LookLive(r) \/ LookDead(r)
    <2>1. want[r] \in Users /\ table[want[r]] \in 1 .. MaxGen
      BY <1>t, <1>3, ObjectPairs DEF LookLive, LookDead
    <2> DEFINE m == <<want[r], table[want[r]]>>
    <2>2. m \in Objects /\ m[1] = want[r]
      BY <2>1, ObjectPairs
    <2>3. PICK p \in {"have", "wait"} : Moves(r, p, m) /\ want' = want /\ todo' = todo
      BY <1>3 DEF LookLive, LookDead, Moves
    <2> HIDE DEF m
    <2>4. PlanType'
      BY <2>2, <2>3 DEF Moves
    <2>5. p \in Places \ {"idle", "next", "aborted", "done"}
      BY <2>3
    <2> HIDE DEF LifecycleInv, TypeOK, PlanType, Places
    <2> QED
      BY <2>1, <2>2, <2>3, <2>4, <2>5, Move
  <1>4. CASE ColdReady(r) \/ ColdFails(r) \/ Enter(r) \/ Submit(r)
    <2>1. PICK p \in Places \ {"idle", "mlock", "next", "aborted", "done"} :
            Moves(r, p, mine[r]) /\ want' = want /\ todo' = todo
      BY <1>4 DEF ColdReady, ColdFails, Enter, Submit, Moves
    <2>2. PlanType'
      BY <2>1 DEF Moves
    <2>3. want[r] \in Users /\ mine[r] \in Objects
      BY <1>t, <1>4 DEF ColdReady, ColdFails, Enter, Submit
    <2>4. p \in Places
      BY <2>1
    <2> HIDE DEF LifecycleInv, TypeOK, PlanType, Places
    <2> QED
      BY <1>t, <2>1, <2>2, <2>3, <2>4, Move
  <1> QED
    BY <1>1, <1>2, <1>3, <1>4 DEF Request

\* Types and places, of the steps of a restart.
LEMMA WorkPlaces ==
  ASSUME LifecycleInv, NEW t \in Tasks, Work(t)
  PROVE  (PlanType /\ PlaceInv)'
  <1> USE TaskNames DEF LifecycleInv, TypeOK, PlanType, Goto, Places
  <1>1. /\ t = "spawn" => pc[t] \in {"idle", "mlock", "next", "exec", "boot", "prewarm",
                                     "done"}
        /\ t \in {"restarter", "operator", "force"} =>
             pc[t] \in {"idle", "next", "wait", "aborted", "done"} \cup Working
        /\ t \in Requests => /\ pc[t] # "idle" => want[t] \in Users
                             /\ mine[t] \in Objects => mine[t][1] = want[t]
        /\ pc[t] \notin {"idle", "mlock", "next", "done"} => mine[t] \in Objects
    BY DEF PlaceInv
  <1>2. want' = want /\ todo' = todo /\ pc[t] \in {"wait", "cold_exec"} \cup Working
    BY DEF Work, RestartBegin, RestartStopped, Exec, Ready, ActorFails, PrewarmEnd, Working
  <1>3. PICK p \in Places :
          /\ Moves(t, p, mine[t])
          /\ p \in {"have", "next", "aborted", "done", "cold_boot"} \cup Working
          /\ p = "cold_boot" => pc[t] = "cold_exec"
          /\ p = "stop" => pc[t] = "wait"
          /\ p = "aborted" => t \in {"operator", "force"}
          /\ IF t \in Requests THEN p \notin {"next", "done"} ELSE p # "have"
    BY DEF Work, RestartBegin, RestartStopped, Exec, Ready, ActorFails, PrewarmEnd,
       Working, Moves
  <1>4. PlanType'
    BY <1>2, <1>3 DEF Moves
  <1> HIDE DEF LifecycleInv, TypeOK, PlanType, Places
  <1> QED
    BY <1>1, <1>2, <1>3, <1>4, Move DEF Working

\* Types and places, of the other steps.
LEMMA ActorPlaces ==
  ASSUME LifecycleInv, [Next]_vars,
         ~ \E r \in Requests : Ask(r) \/ Request(r),
         ~ \E t \in Tasks : Work(t)
  PROVE  (PlanType /\ PlaceInv)'
  <1> USE TaskNames DEF LifecycleInv, TypeOK, PlanType, Goto, Places
  <1>1. CASE SpawnAsk
    <2>1. Moves("spawn", "mlock", mine["spawn"]) /\ want' = want /\ todo' = todo
      BY <1>1 DEF SpawnAsk, Moves
    <2>2. todo["spawn"] = {}
      BY <1>1 DEF SpawnAsk, MayBegin, PlaceInv
    <2> QED
      BY <2>1, <2>2, Move DEF Moves
  <1>2. CASE SpawnRegister
    <2> DEFINE made == {<<u, gen[u] + 1>> : u \in {v \in Users : table[v] = 0}}
    <2>1. \A u \in Users : table[u] = 0 => gen[u] + 1 \in 1 .. MaxGen
      BY <1>2, ObjectPairs DEF SpawnRegister
    <2>2. made \subseteq Objects
      BY <2>1, ObjectPairs
    <2>3. /\ todo' = [todo EXCEPT !["spawn"] = made] /\ want' = want
          /\ Moves("spawn", "next", mine["spawn"])
      BY <1>2 DEF SpawnRegister, Moves
    <2> HIDE DEF made
    <2> QED
      BY <2>2, <2>3, Move DEF Moves
  <1>3. CASE SpawnNext
    <2>1. CASE todo["spawn"] = {} /\ Goto("spawn", "done") /\ UNCHANGED <<mine, todo>>
      <3>1. Moves("spawn", "done", mine["spawn"]) /\ want' = want /\ todo' = todo
        BY <1>3, <2>1 DEF SpawnNext, Moves
      <3> QED
        BY <3>1, Move DEF Moves
    <2>2. ASSUME NEW o \in todo["spawn"], mine' = [mine EXCEPT !["spawn"] = o],
                 todo' = [todo EXCEPT !["spawn"] = @ \ {o}], Goto("spawn", "exec")
          PROVE  (PlanType /\ PlaceInv)'
      <3>1. Moves("spawn", "exec", o) /\ want' = want /\ o \in Objects
        BY <1>3, <2>2 DEF SpawnNext, Moves
      <3>2. PlanType'
        BY <2>2, <3>1 DEF Moves
      <3> QED
        BY <3>1, <3>2, Move
    <2> QED
      BY <1>3, <2>1, <2>2 DEF SpawnNext
  <1>4. CASE RestarterPass
    <2>1. Moves("restarter", "next", mine["restarter"]) /\ want' = want
      BY <1>4 DEF RestarterPass, Moves
    <2>2. PlanType' /\ todo'["spawn"] = todo["spawn"]
      BY <1>4, <2>1 DEF RestarterPass, Moves
    <2> QED
      BY <2>1, <2>2, Move
  <1>5. CASE RestarterNext
    <2>1. CASE Goto("restarter", "done") /\ UNCHANGED <<mine, todo, lockq>>
      <3>1. Moves("restarter", "done", mine["restarter"]) /\ want' = want /\ todo' = todo
        BY <1>5, <2>1 DEF RestarterNext, Moves
      <3> QED
        BY <3>1, Move DEF Moves
    <2>2. ASSUME NEW o \in todo["restarter"], mine' = [mine EXCEPT !["restarter"] = o],
                 todo' = [todo EXCEPT !["restarter"] = @ \ {o}], Goto("restarter", "wait")
          PROVE  (PlanType /\ PlaceInv)'
      <3>1. Moves("restarter", "wait", o) /\ want' = want /\ o \in Objects
        BY <1>5, <2>2 DEF RestarterNext, Moves
      <3>2. PlanType' /\ todo'["spawn"] = todo["spawn"]
        BY <2>2, <3>1 DEF Moves
      <3> QED
        BY <3>1, <3>2, Move
    <2> QED
      BY <1>5, <2>1, <2>2 DEF RestarterNext
  <1>6. CASE OperatorRestart
    <2>1. PICK o \in Objects : Moves("operator", "wait", o)
      BY <1>6 DEF OperatorRestart, Moves
    <2>2. want' = want /\ todo' = todo
      BY <1>6 DEF OperatorRestart
    <2> QED
      BY <2>1, <2>2, Move DEF Moves
  <1>7. CASE ForceRestart
    <2>1. PICK o \in Objects : Moves("force", "wait", o)
      BY <1>7 DEF ForceRestart, Moves, PlaceInv
    <2>2. want' = want /\ todo' = todo
      BY <1>7 DEF ForceRestart
    <2> QED
      BY <2>1, <2>2, Move DEF Moves
  <1>8. CASE ForceReady
    <2>1. Moves("force", "done", mine["force"]) /\ want' = want /\ todo' = todo
      BY <1>8 DEF ForceReady, Moves
    <2> QED
      BY <2>1, Move DEF Moves
  <1>9. CASE UNCHANGED <<pc, plans>>
    BY <1>9 DEF PlaceInv
  <1>10. UNCHANGED <<pc, plans>> \/ SpawnAsk \/ SpawnRegister \/ SpawnNext
           \/ RestarterPass \/ RestarterNext \/ OperatorRestart
           \/ ForceRestart \/ ForceReady
    BY DEF Next, RetireAll, RetireKill, RetireEnd, Crash, Exit, vars
  <1> QED
    BY <1>1, <1>2, <1>3, <1>4, <1>5, <1>6, <1>7, <1>8, <1>9, <1>10

-----------------------------------------------------------------------------
(* The manager's lock.                                                     *)

\* What a step may do to its queue: a task joins it, its holder leaves it, or
\* the holder goes on deciding, if it is not another task that moves.
Joins(t) ==
  /\ t \in Requests \cup {"spawn"} /\ pc[t] = "idle"
  /\ pc' = [pc EXCEPT ![t] = "mlock"]
  /\ mlockq' = Append(mlockq, t)

Leaves(t) ==
  /\ t \in Requests \cup {"spawn"} /\ MHolds(t)
  /\ \E p \in Places \ ({"mlock"} \cup Deciding) : pc' = [pc EXCEPT ![t] = p]
  /\ mlockq' = Tail(mlockq)

Decides ==
  /\ mlockq' = mlockq
  /\ \A r \in Requests :
       \/ pc'[r] = pc[r]
       \/ MHolds(r) /\ pc'[r] \in Deciding
       \/ pc[r] \notin {"mlock"} \cup Deciding /\ pc'[r] \notin {"mlock"} \cup Deciding
  /\ pc'["spawn"] = pc["spawn"] \/ pc["spawn"] # "mlock"

\* No step does anything else to it.
LEMMA QueueStep ==
  ASSUME LifecycleInv, [Next]_vars
  PROVE  Decides \/ \E t \in Tasks : Joins(t) \/ Leaves(t)
  <1> USE TaskNames DEF LifecycleInv, TypeOK, Goto
  <1>1. ASSUME NEW r \in Requests, Ask(r)
        PROVE  Joins(r)
    BY <1>1 DEF Ask, Joins
  <1>2. ASSUME NEW r \in Requests, LookLive(r) \/ ColdReady(r) \/ ColdFails(r)
        PROVE  Leaves(r)
    BY <1>2 DEF LookLive, ColdReady, ColdFails, Leaves, MLockInv, Deciding, Cold, Places
  <1>3. ASSUME NEW r \in Requests,
               LookNone(r) \/ LookDead(r) \/ ReviveFails(r) \/ Enter(r) \/ Submit(r)
        PROVE  Decides
    <2>1. \A s \in Tasks \ {r} : pc'[s] = pc[s]
      BY <1>3 DEF LookNone, LookDead, ReviveFails, Enter, Submit, Create
    <2>2. mlockq' = mlockq
      BY <1>3 DEF LookNone, LookDead, ReviveFails, Enter, Submit
    <2>3. \/ MHolds(r) /\ pc'[r] \in Deciding
          \/ pc[r] \notin {"mlock"} \cup Deciding /\ pc'[r] \notin {"mlock"} \cup Deciding
      BY <1>3 DEF LookNone, LookDead, ReviveFails, Enter, Submit, Create, MLockInv,
         Deciding, Cold
    <2> QED
      BY <2>1, <2>2, <2>3 DEF Decides
  <1>4. ASSUME NEW r \in Requests, Ready(r)
        PROVE  Leaves(r)
    BY <1>4 DEF Ready, Leaves, MLockInv, Deciding, Cold, Places
  <1>5. ASSUME NEW t \in Tasks, RestartBegin(t) \/ RestartStopped(t) \/ Exec(t)
        PROVE  Decides
    <2>1. /\ mlockq' = mlockq /\ \A s \in Tasks \ {t} : pc'[s] = pc[s]
          /\ pc[t] \in Deciding /\ pc'[t] \in Deciding
      BY <1>5 DEF RestartBegin, RestartStopped, Exec, Deciding, Cold
    <2>2. t \in Requests => MHolds(t)
      BY <2>1 DEF MLockInv
    <2>3. pc[t] # "mlock"
      BY <2>1 DEF Deciding, Cold
    <2> QED
      BY <2>1, <2>2, <2>3 DEF Decides
  <1>6. ASSUME NEW t \in Tasks, (Ready(t) /\ t \notin Requests) \/ ActorFails(t)
        PROVE  Decides
    BY <1>6 DEF Ready, ActorFails, Decides
  <1>7. ASSUME NEW t \in Tasks, PrewarmEnd(t)
        PROVE  Decides
    BY <1>7 DEF PrewarmEnd, Decides, Deciding, Cold
  <1>8. CASE SpawnAsk
    BY <1>8 DEF SpawnAsk, MayBegin, Joins
  <1>9. CASE SpawnRegister
    <2>1. Leaves("spawn")
      BY <1>9 DEF SpawnRegister, Leaves, Deciding, Cold, Places
    <2> QED
      BY <2>1
  <1>10. CASE SpawnNext \/ RestarterPass \/ RestarterNext \/ OperatorRestart
                \/ ForceRestart \/ ForceReady
    BY <1>10 DEF SpawnNext, RestarterPass, RestarterNext, OperatorRestart,
       ForceRestart, ForceReady, Decides
  <1>11. CASE UNCHANGED <<pc, mlockq>>
    BY <1>11 DEF Decides
  <1>12. \/ \E r \in Requests : Ask(r) \/ Request(r)
         \/ \E t \in Tasks : Work(t)
         \/ SpawnAsk \/ SpawnRegister \/ SpawnNext \/ RestarterPass \/ RestarterNext
         \/ OperatorRestart \/ ForceRestart \/ ForceReady
         \/ UNCHANGED <<pc, mlockq>>
    BY DEF Next, RetireAll, RetireKill, RetireEnd, Crash, Exit, vars
  <1> QED
    BY <1>1, <1>2, <1>3, <1>4, <1>5, <1>6, <1>7, <1>8, <1>9, <1>10, <1>11, <1>12
       DEF Request, Work

\* So whoever decides about the table holds the manager's lock.
LEMMA MLockStep ==
  ASSUME LifecycleInv, [Next]_vars, PlanType'
  PROVE  /\ mlockq' \in Seq(Requests \cup {"spawn"}) /\ IsInjective(mlockq')
         /\ MLockInv'
  <1> DEFINE Askers == Requests \cup {"spawn"}
  <1> USE TaskNames
  <1>1. /\ mlockq \in Seq(Askers) /\ IsInjective(mlockq) /\ pc \in [Tasks -> Places]
        /\ \A t : In(t, mlockq) => IF t = "spawn" THEN pc[t] = "mlock"
                                   ELSE pc[t] \in {"mlock"} \cup Deciding
        /\ \A r \in Requests : pc[r] \in Deciding => MHolds(r)
        /\ \A t : In(t, mlockq) => t \in Askers
        /\ "idle" \notin {"mlock"} \cup Deciding
    BY DEF LifecycleInv, TypeOK, MLockInv, In, Deciding, Cold
  <1> HIDE DEF Askers
  <1>2. CASE Decides
    <2>1. \A t : In(t, mlockq') => IF t = "spawn" THEN pc'[t] = "mlock"
                                   ELSE pc'[t] \in {"mlock"} \cup Deciding
      BY <1>1, <1>2 DEF Decides, Askers
    <2>2. \A r \in Requests : pc'[r] \in Deciding => MHolds(r)
      BY <1>1, <1>2 DEF Decides
    <2>3. MLockInv'
      BY <1>2, <2>1, <2>2 DEF Decides, MLockInv, MHolds, In
    <2> QED
      BY <1>1, <1>2, <2>3 DEF Decides, Askers
  <1>3. ASSUME NEW t \in Tasks, Joins(t)
        PROVE  /\ mlockq' \in Seq(Askers) /\ IsInjective(mlockq') /\ MLockInv'
    <2>1. t \in Askers /\ ~In(t, mlockq) /\ pc'[t] = "mlock" /\ mlockq' = Append(mlockq, t)
          /\ \A s \in Tasks \ {t} : pc'[s] = pc[s]
      BY <1>1, <1>3 DEF Joins, Askers
    <2>2. /\ mlockq' \in Seq(Askers) /\ IsInjective(mlockq') /\ mlockq' # <<>>
          /\ mlockq # <<>> => Head(mlockq') = Head(mlockq)
          /\ \A x : In(x, mlockq') <=> In(x, mlockq) \/ x = t
      BY <1>1, <2>1, AppendQueue
    <2>3. \A r \in Requests : pc'[r] \in Deciding => MHolds(r)'
      BY <1>1, <2>1, <2>2 DEF MHolds, Deciding, Cold
    <2>4. \A x : In(x, mlockq') => IF x = "spawn" THEN pc'[x] = "mlock"
                                   ELSE pc'[x] \in {"mlock"} \cup Deciding
      BY <1>1, <2>1, <2>2 DEF Askers
    <2> QED
      BY <2>2, <2>3, <2>4 DEF MLockInv, In
  <1>4. ASSUME NEW t \in Tasks, Leaves(t)
        PROVE  /\ mlockq' \in Seq(Askers) /\ IsInjective(mlockq') /\ MLockInv'
    <2>1. /\ t \in Askers /\ mlockq # <<>> /\ Head(mlockq) = t /\ mlockq' = Tail(mlockq)
          /\ pc'[t] \notin {"mlock"} \cup Deciding
          /\ \A s \in Tasks \ {t} : pc'[s] = pc[s]
      BY <1>1, <1>4 DEF Leaves, MHolds, Askers
    <2>2. /\ mlockq' \in Seq(Askers) /\ IsInjective(mlockq')
          /\ \A x : In(x, mlockq') <=> In(x, mlockq) /\ x # t
      BY <1>1, <2>1, TailQueue
    <2>3. \A r \in Requests : pc'[r] \notin Deciding
      BY <1>1, <2>1 DEF MHolds
    <2>4. \A x : In(x, mlockq') => IF x = "spawn" THEN pc'[x] = "mlock"
                                   ELSE pc'[x] \in {"mlock"} \cup Deciding
      BY <1>1, <2>1, <2>2 DEF Askers
    <2> QED
      BY <2>2, <2>3, <2>4 DEF MLockInv, In
  <1> QED
    BY <1>2, <1>3, <1>4, QueueStep DEF Askers

-----------------------------------------------------------------------------
(* The locks of the objects.                                               *)

InQueue == {"wait", "queued"} \cup Working

\* What a step may do to these locks: a task other than spawn_account enters
\* the queue of one, a holder leaves, or the queues stay.
Enters(t, o) ==
  /\ t # "spawn" /\ pc[t] \notin InQueue
  /\ \E p \in {"wait", "queued", "prewarm"} :
       Moves(t, p, o) /\ (p = "prewarm" => lockq[o] = <<>>)
  /\ Enqueue(o, t)
  /\ todo'["spawn"] = todo["spawn"]

Frees(t) ==
  /\ Holds(t) /\ pc[t] \in InQueue /\ mine[t] \in Objects
  /\ \E p \in Places \ InQueue : \E m \in Objects \cup {NoObject} : Moves(t, p, m)
  /\ Release(mine[t])
  /\ todo' = todo

Stays ==
  /\ lockq' = lockq
  /\ \A t \in Tasks, o \in Objects : Queued(t, o) => Queued(t, o)'
  /\ \A t \in Tasks : pc'[t] \in Working => Holds(t)'
  /\ todo'["spawn"] \subseteq todo["spawn"]
  /\ pc'["spawn"] \in Working => mine'["spawn"] \notin todo'["spawn"]

\* Nobody waits for the lock of an object that is not in the table yet.
LEMMA ColdUnlocked ==
  ASSUME LifecycleInv, NEW r \in Tasks, pc[r] \in Cold
  PROVE  lockq[mine[r]] = <<>>
  <1>1. mine[r] \in Objects
    BY DEF LifecycleInv, PlaceInv, Cold
  <1>2. \A t \in Tasks : ~Queued(t, mine[r])
    BY DEF LifecycleInv, ColdInv, Queued, Working, Cold
  <1>3. lockq[mine[r]] \in Seq(Tasks) /\ \A t \in Tasks : ~In(t, lockq[mine[r]])
    BY <1>1, <1>2 DEF LifecycleInv, TypeOK, LockInv
  <1> QED
    BY <1>3 DEF In

\* The steps of a request.
LEMMA RequestLocks ==
  ASSUME LifecycleInv, NEW r \in Requests, Ask(r) \/ Request(r), PlanType'
  PROVE  Stays \/ \E t \in Tasks : Frees(t) \/ \E o \in Objects : Enters(t, o)
  <1> USE TaskNames DEF LifecycleInv, TypeOK, Goto
  <1>1. CASE Ask(r) \/ LookNone(r) \/ LookLive(r) \/ ColdFails(r)
    <2>1. /\ \A t \in Tasks \ {r} : pc'[t] = pc[t] /\ mine'[t] = mine[t]
          /\ pc[r] \notin InQueue /\ pc'[r] \notin InQueue
          /\ lockq' = lockq /\ todo' = todo
      BY <1>1 DEF Ask, LookNone, LookLive, ColdFails, Create, InQueue, Working
    <2>2. /\ \A t \in Tasks : pc[t] \in Working => Holds(t)
          /\ pc["spawn"] \in Working => mine["spawn"] \notin todo["spawn"]
      BY DEF LockInv
    <2> QED
      BY <2>1, <2>2 DEF Stays, Queued, Holds, InQueue
  <1>2. CASE LookDead(r)
    <2>1. want[r] \in Users /\ table[want[r]] \in 1 .. MaxGen
      BY <1>2, ObjectPairs DEF LookDead, PlaceInv
    <2> DEFINE o == <<want[r], table[want[r]]>>
    <2>2. o \in Objects
      BY <2>1, ObjectPairs
    <2>3. Moves(r, "wait", o) /\ Enqueue(o, r) /\ todo' = todo /\ pc[r] = "mlock"
      BY <1>2 DEF LookDead, Moves
    <2> HIDE DEF o
    <2>4. Enters(r, o)
      BY <2>3 DEF Enters, InQueue, Working
    <2> QED
      BY <2>2, <2>4
  <1>3. CASE ColdReady(r)
    <2>1. mine[r] \in Objects /\ lockq[mine[r]] = <<>>
      BY <1>3, ColdUnlocked DEF ColdReady, PlaceInv, Cold
    <2>2. Moves(r, "prewarm", mine[r]) /\ Enqueue(mine[r], r) /\ todo' = todo
      BY <1>3 DEF ColdReady, Moves
    <2>3. Enters(r, mine[r])
      BY <1>3, <2>1, <2>2 DEF Enters, InQueue, Working, ColdReady
    <2> QED
      BY <2>1, <2>3
  <1>4. CASE Enter(r)
    <2>1. mine[r] \in Objects
      BY <1>4 DEF Enter, PlaceInv
    <2>2. Moves(r, "queued", mine[r]) /\ Enqueue(mine[r], r) /\ todo' = todo
      BY <1>4 DEF Enter, Moves
    <2>3. Enters(r, mine[r])
      BY <1>4, <2>2 DEF Enters, InQueue, Working, Enter
    <2> QED
      BY <2>1, <2>3
  <1>5. CASE ReviveFails(r)
    <2>1. Holds(r) /\ mine[r] \in Objects /\ pc[r] \in {"exec", "boot"}
      BY <1>5 DEF ReviveFails, PlaceInv, LockInv, Working
    <2> DEFINE m == <<want[r], gen[want[r]] + 1>>
    <2>2. m \in Objects \cup {NoObject}
      BY <1>5 DEF ReviveFails, Create, PlanType
    <2>3. Moves(r, "cold_exec", m) /\ Release(mine[r]) /\ todo' = todo
      BY <1>5 DEF ReviveFails, Create, Moves
    <2> HIDE DEF m
    <2>4. Frees(r)
      BY <2>1, <2>2, <2>3 DEF Frees, InQueue, Working, Places
    <2> QED
      BY <2>4
  <1>6. CASE Submit(r)
    <2>1. Holds(r) /\ mine[r] \in Objects /\ pc[r] = "queued"
      BY <1>6 DEF Submit, PlaceInv
    <2>2. /\ \E p \in {"served", "lost", "refused"} : Moves(r, p, mine[r])
          /\ Release(mine[r]) /\ todo' = todo
      BY <1>6 DEF Submit, Moves
    <2>3. Frees(r)
      BY <2>1, <2>2 DEF Frees, InQueue, Working, Places
    <2> QED
      BY <2>3
  <1> QED
    BY <1>1, <1>2, <1>3, <1>4, <1>5, <1>6 DEF Request

\* The steps of a restart.
LEMMA WorkLocks ==
  ASSUME LifecycleInv, NEW t \in Tasks, Work(t)
  PROVE  Stays \/ Frees(t)
  <1> USE TaskNames DEF LifecycleInv, TypeOK, Goto
  <1>1. CASE RestartBegin(t) \/ RestartStopped(t) \/ Exec(t) \/ Ready(t)
    <2>1. /\ \A s \in Tasks \ {t} : pc'[s] = pc[s]
          /\ mine' = mine /\ lockq' = lockq /\ todo' = todo
      BY <1>1 DEF RestartBegin, RestartStopped, Exec, Ready
    <2>2. \/ pc[t] \in InQueue /\ pc'[t] \in InQueue /\ Holds(t)
          \/ pc[t] \notin InQueue /\ pc'[t] \notin InQueue
      BY <1>1 DEF RestartBegin, RestartStopped, Exec, Ready, LockInv, Working, InQueue
    <2>3. /\ \A s \in Tasks : pc[s] \in Working => Holds(s)
          /\ pc["spawn"] \in Working => mine["spawn"] \notin todo["spawn"]
      BY DEF LockInv
    <2>4. t = "spawn" => pc[t] \in Working
      BY <1>1 DEF RestartBegin, RestartStopped, Exec, Ready, PlaceInv, Working
    <2> QED
      BY <2>1, <2>2, <2>3, <2>4 DEF Stays, Queued, Holds, InQueue
  <1>2. CASE ActorFails(t) \/ PrewarmEnd(t)
    <2>1. Holds(t) /\ mine[t] \in Objects /\ pc[t] \in Working
      BY <1>2 DEF ActorFails, PrewarmEnd, PlaceInv, LockInv, Working
    <2>2. /\ \E p \in {"done", "next", "have", "aborted"} : Moves(t, p, mine[t])
          /\ Release(mine[t]) /\ todo' = todo
      BY <1>2 DEF ActorFails, PrewarmEnd, Moves
    <2> QED
      BY <2>1, <2>2 DEF Frees, InQueue, Working, Places
  <1> QED
    BY <1>1, <1>2 DEF Work

\* The other steps.
LEMMA ActorLocks ==
  ASSUME LifecycleInv, [Next]_vars, ~SpawnRegister,
         ~ \E r \in Requests : Ask(r) \/ Request(r),
         ~ \E t \in Tasks : Work(t)
  PROVE  Stays \/ \E t \in Tasks : Frees(t) \/ \E o \in Objects : Enters(t, o)
  <1> USE TaskNames DEF LifecycleInv, TypeOK, Goto
  <1>0. /\ \A t \in Tasks : pc[t] \in Working => Holds(t)
        /\ pc["spawn"] \in Working => mine["spawn"] \notin todo["spawn"]
        /\ \A o \in todo["spawn"] : lockq[o] # <<>> /\ Head(lockq[o]) = "spawn"
    BY DEF LockInv
  <1>1. CASE SpawnAsk \/ RestarterPass
    <2>1. /\ \A t \in Tasks :
               pc'[t] = pc[t] \/ (pc[t] \notin InQueue /\ pc'[t] \notin InQueue)
          /\ mine' = mine /\ lockq' = lockq /\ todo'["spawn"] = todo["spawn"]
      <3>0. \A a \in {"spawn", "restarter"} : MayBegin(a) => pc[a] = "idle" /\ a \in Tasks
        BY DEF MayBegin
      <3>1. CASE SpawnAsk
        <4>1. /\ pc["spawn"] = "idle" /\ pc' = [pc EXCEPT !["spawn"] = "mlock"]
              /\ mine' = mine /\ lockq' = lockq /\ todo' = todo
          BY <3>0, <3>1 DEF SpawnAsk
        <4>5. /\ \A t \in Tasks \ {"spawn"} : pc'[t] = pc[t]
              /\ pc["spawn"] \notin InQueue /\ pc'["spawn"] \notin InQueue
          BY <4>1 DEF InQueue, Working
        <4> HIDE DEF LifecycleInv, TypeOK
        <4> QED
          BY <4>1, <4>5
      <3>2. CASE RestarterPass
        <4>1. /\ pc["restarter"] = "idle" /\ pc' = [pc EXCEPT !["restarter"] = "next"]
              /\ mine' = mine /\ lockq' = lockq
          BY <3>0, <3>2 DEF RestarterPass
        <4>2. todo'["spawn"] = todo["spawn"]
          BY <3>2 DEF RestarterPass
        <4>5. /\ \A t \in Tasks \ {"restarter"} : pc'[t] = pc[t]
              /\ pc["restarter"] \notin InQueue /\ pc'["restarter"] \notin InQueue
          BY <4>1 DEF InQueue, Working
        <4> HIDE DEF LifecycleInv, TypeOK
        <4> QED
          BY <4>1, <4>5, <4>2
      <3> QED
        BY <1>1, <3>1, <3>2
    <2> QED
      BY <1>0, <2>1 DEF Stays, Queued, Holds, InQueue
  <1>2. CASE SpawnNext
    <2>1. /\ \A t \in Tasks \ {"spawn"} : pc'[t] = pc[t] /\ mine'[t] = mine[t]
          /\ lockq' = lockq /\ pc["spawn"] = "next"
      BY <1>2 DEF SpawnNext
    <2>2. \/ pc'["spawn"] = "done" /\ todo' = todo
          \/ \E o \in todo["spawn"] :
               /\ mine'["spawn"] = o /\ todo'["spawn"] = todo["spawn"] \ {o}
               /\ pc'["spawn"] = "exec"
      BY <1>2 DEF SpawnNext
    <2> QED
      BY <1>0, <2>1, <2>2 DEF Stays, Queued, Holds, Working
  <1>3. CASE RestarterNext
    <2>1. CASE Goto("restarter", "done") /\ UNCHANGED <<mine, todo, lockq>>
      <3>1. /\ \A t \in Tasks \ {"restarter"} : pc'[t] = pc[t]
            /\ pc["restarter"] = "next" /\ pc'["restarter"] = "done"
        BY <1>3, <2>1 DEF RestarterNext
      <3> QED
        BY <1>0, <2>1, <3>1 DEF Stays, Queued, Holds, Working
    <2>2. ASSUME NEW o \in todo["restarter"], mine' = [mine EXCEPT !["restarter"] = o],
                 todo' = [todo EXCEPT !["restarter"] = @ \ {o}],
                 Enqueue(o, "restarter"), Goto("restarter", "wait")
          PROVE  \E p \in Objects : Enters("restarter", p)
      <3>1. Moves("restarter", "wait", o) /\ o \in Objects /\ pc["restarter"] = "next"
        BY <1>3, <2>2 DEF RestarterNext, Moves
      <3>2. Enters("restarter", o)
        BY <2>2, <3>1 DEF Enters, InQueue, Working
      <3> QED
        BY <3>1, <3>2
    <2> QED
      BY <1>3, <2>1, <2>2 DEF RestarterNext
  <1>4. CASE OperatorRestart
    <2>1. PICK o \in Objects : Moves("operator", "wait", o) /\ Enqueue(o, "operator")
      BY <1>4 DEF OperatorRestart, Moves
    <2>2. Enters("operator", o)
      BY <1>4, <2>1 DEF OperatorRestart, MayBegin, Enters, InQueue, Working
    <2> QED
      BY <2>2
  <1>5. CASE ForceRestart
    <2>1. PICK o \in Objects : Moves("force", "wait", o) /\ Enqueue(o, "force")
      BY <1>5 DEF ForceRestart, Moves, PlaceInv
    <2>2. Enters("force", o)
      BY <1>5, <2>1 DEF ForceRestart, MayBegin, Enters, InQueue, Working
    <2> QED
      BY <2>2
  <1>6. CASE ForceReady
    <2>1. Holds("force") /\ mine["force"] \in Objects /\ pc["force"] = "boot"
      BY <1>6 DEF ForceReady, PlaceInv, LockInv, Working
    <2>2. Moves("force", "done", mine["force"]) /\ Release(mine["force"]) /\ todo' = todo
      BY <1>6 DEF ForceReady, Moves
    <2>3. Frees("force")
      BY <2>1, <2>2 DEF Frees, InQueue, Working, Places
    <2> QED
      BY <2>3
  <1>7. CASE UNCHANGED <<pc, mine, todo, lockq>>
    BY <1>0, <1>7 DEF Stays, Queued, Holds
  <1>8. \/ SpawnAsk \/ SpawnNext \/ RestarterPass \/ RestarterNext
        \/ OperatorRestart \/ ForceRestart \/ ForceReady
        \/ UNCHANGED <<pc, mine, todo, lockq>>
    BY DEF Next, RetireAll, RetireKill, RetireEnd, Crash, Exit, vars
  <1> QED
    BY <1>1, <1>2, <1>3, <1>4, <1>5, <1>6, <1>7, <1>8

-----------------------------------------------------------------------------
\* So who is in the queue of a lock is where its place says, and whoever works on
\* an object holds its lock.
LEMMA LockStep ==
  ASSUME LifecycleInv, [Next]_vars, PlanType', PlaceInv'
  PROVE  /\ lockq' \in [Objects -> Seq(Tasks)]
         /\ \A o \in Objects : IsInjective(lockq'[o])
         /\ LockInv'
  <1> DEFINE Typed == /\ lockq' \in [Objects -> Seq(Tasks)]
                      /\ \A o \in Objects : IsInjective(lockq'[o])
  <1>0. /\ lockq \in [Objects -> Seq(Tasks)]
        /\ \A o \in Objects : IsInjective(lockq[o])
        /\ pc \in [Tasks -> Places]
        /\ mine \in [Tasks -> Objects \cup {NoObject}]
        /\ "spawn" \in Tasks
        /\ \A t \in Tasks : pc[t] \in Working => mine[t] \in Objects
        /\ todo["spawn"] \subseteq Objects
    BY TaskNames DEF LifecycleInv, TypeOK, PlaceInv, Working
  <1>1. /\ \A o \in Objects : \A t \in Tasks : In(t, lockq[o]) => Queued(t, o)
        /\ \A t \in Tasks : pc[t] \in Working => Holds(t)
        /\ \A o \in todo["spawn"] : lockq[o] # <<>> /\ Head(lockq[o]) = "spawn"
        /\ pc["spawn"] \in Working => mine["spawn"] \notin todo["spawn"]
    BY DEF LifecycleInv, LockInv
  <1>2. CASE Stays
    BY <1>0, <1>1, <1>2 DEF Stays, LockInv
  <1>3. ASSUME NEW t \in Tasks, NEW o \in Objects, Enters(t, o)
        PROVE  Typed /\ LockInv'
    <2>0. TypeOK
      BY DEF LifecycleInv
    <2>1. /\ t # "spawn" /\ pc[t] \notin InQueue
          /\ Enqueue(o, t) /\ todo'["spawn"] = todo["spawn"]
          /\ mine'[t] = o /\ pc'[t] \in {"wait", "queued", "prewarm"}
          /\ pc'[t] = "prewarm" => lockq[o] = <<>>
          /\ \A s \in Tasks \ {t} : pc'[s] = pc[s] /\ mine'[s] = mine[s]
      BY <1>0, <1>3 DEF Enters, Moves
    <2>2. \A p \in Objects : ~In(t, lockq[p])
      BY <1>1, <2>1 DEF Queued, InQueue
    <2>3. /\ Typed
          /\ \A p \in Objects, x \in Tasks :
               In(x, lockq'[p]) <=> In(x, lockq[p]) \/ (p = o /\ x = t)
          /\ \A p \in Objects :
               lockq[p] # <<>> => lockq'[p] # <<>> /\ Head(lockq'[p]) = Head(lockq[p])
          /\ lockq'[o] # <<>> /\ (lockq[o] = <<>> => Head(lockq'[o]) = t)
      BY <2>0, <2>1, <2>2, EnqueueStep
    <2>4. \A p \in Objects : \A x \in Tasks : In(x, lockq'[p]) => Queued(x, p)'
      BY <1>1, <2>1, <2>2, <2>3 DEF Queued, InQueue, Working
    <2>5. \A x \in Tasks : pc'[x] \in Working => Holds(x)'
      <3>1. ASSUME NEW x \in Tasks \ {t}, pc[x] \in Working
            PROVE  Holds(x)'
        BY <1>0, <1>1, <2>1, <2>3, <3>1 DEF Holds
      <3>2. pc'[t] \in Working => Holds(t)'
        BY <2>1, <2>3 DEF Holds, Working
      <3> QED
        BY <2>1, <3>1, <3>2
    <2>6. /\ \A p \in todo'["spawn"] : lockq'[p] # <<>> /\ Head(lockq'[p]) = "spawn"
          /\ pc'["spawn"] \in Working => mine'["spawn"] \notin todo'["spawn"]
      BY <1>0, <1>1, <2>1, <2>3
    <2> QED
      BY <2>3, <2>4, <2>5, <2>6 DEF LockInv
  <1>4. ASSUME NEW t \in Tasks, Frees(t)
        PROVE  Typed /\ LockInv'
    <2>0. TypeOK
      BY DEF LifecycleInv
    <2> DEFINE o == mine[t]
    <2>1. /\ o \in Objects /\ lockq[o] # <<>> /\ Head(lockq[o]) = t
          /\ Release(o) /\ todo' = todo
          /\ pc[t] \in InQueue /\ pc'[t] \notin InQueue
          /\ \A s \in Tasks \ {t} : pc'[s] = pc[s] /\ mine'[s] = mine[s]
      BY <1>0, <1>4 DEF Frees, Moves, Holds
    <2> HIDE DEF o
    <2>2. /\ Typed
          /\ \A p \in Objects, x \in Tasks :
               In(x, lockq'[p]) <=> In(x, lockq[p]) /\ ~(p = o /\ x = t)
          /\ \A p \in Objects \ {o} : lockq'[p] = lockq[p]
      BY <2>0, <2>1, ReleaseStep
    <2>3. \A p \in Objects : \A x \in Tasks : In(x, lockq'[p]) => Queued(x, p)'
      <3>1. ASSUME NEW p \in Objects, NEW x \in Tasks \ {t}, In(x, lockq'[p])
            PROVE  Queued(x, p)'
        BY <1>1, <2>1, <2>2, <3>1 DEF Queued
      <3>2. ASSUME NEW p \in Objects, In(t, lockq'[p])
            PROVE  Queued(t, p)'
        <4>1. Queued(t, p) /\ p # o
          BY <1>1, <2>2, <3>2
        <4>2. t = "spawn" /\ p \in todo["spawn"]
          BY <4>1 DEF Queued, o
        <4> QED
          BY <2>1, <4>2 DEF Queued
      <3> QED
        BY <3>1, <3>2
    <2>4. \A x \in Tasks : pc'[x] \in Working => Holds(x)'
      <3>1. ASSUME NEW x \in Tasks \ {t}, pc[x] \in Working
            PROVE  Holds(x)'
        <4>1. mine[x] \in Objects /\ lockq[mine[x]] # <<>> /\ Head(lockq[mine[x]]) = x
          BY <1>0, <1>1, <3>1 DEF Holds
        <4>2. mine[x] # o
          BY <2>1, <4>1
        <4> QED
          BY <2>1, <2>2, <4>1, <4>2 DEF Holds
      <3>2. Working \subseteq InQueue
        BY DEF InQueue
      <3> QED
        BY <2>1, <3>1, <3>2
    <2>5. o \notin todo["spawn"]
      <3>1. t = "spawn" => pc[t] \in Working
        BY <2>1 DEF LifecycleInv, PlaceInv, InQueue
      <3> QED
        BY <1>1, <2>1, <3>1 DEF o
    <2>6. /\ \A p \in todo'["spawn"] : lockq'[p] # <<>> /\ Head(lockq'[p]) = "spawn"
          /\ pc'["spawn"] \in Working => mine'["spawn"] \notin todo'["spawn"]
      BY <1>0, <1>1, <2>1, <2>2, <2>5 DEF InQueue
    <2> QED
      BY <2>2, <2>3, <2>4, <2>6 DEF LockInv
  <1>5. CASE SpawnRegister
    <2> DEFINE made == {<<u, gen[u] + 1>> : u \in {v \in Users : table[v] = 0}}
    <2>1. /\ lockq' = [o \in Objects |-> IF o \in made THEN <<"spawn">> ELSE lockq[o]]
          /\ pc["spawn"] = "mlock" /\ pc' = [pc EXCEPT !["spawn"] = "next"]
          /\ mine' = mine /\ todo' = [todo EXCEPT !["spawn"] = made]
      BY <1>5 DEF SpawnRegister, Goto
    <2>2. \A t \in Tasks : mine[t] \in Objects => mine[t] \notin made
      BY <1>5, ObjectPairs DEF LifecycleInv, FreshInv, Made, TypeOK, SpawnRegister
    <2> HIDE DEF made
    <2>3. /\ <<"spawn">> \in Seq(Tasks) /\ IsInjective(<<"spawn">>)
          /\ \A x : In(x, <<"spawn">>) => x = "spawn"
          /\ <<"spawn">> # <<>> /\ Head(<<"spawn">>) = "spawn"
      BY <1>0 DEF IsInjective, In
    <2>4. Typed
      BY <1>0, <2>1, <2>3
    <2>5. \A p \in Objects : \A x \in Tasks : In(x, lockq'[p]) => Queued(x, p)'
      <3>1. todo["spawn"] = {} /\ todo'["spawn"] = made
        BY <2>1 DEF LifecycleInv, PlaceInv, TypeOK
      <3>2. \A x \in Tasks \ {"spawn"} : pc'[x] = pc[x]
        BY <1>0, <2>1
      <3>3. \A p \in Objects : ~In("spawn", lockq[p])
        BY <1>0, <1>1, <2>1, <3>1 DEF Queued, Working
      <3> QED
        BY <1>0, <1>1, <2>1, <2>3, <3>1, <3>2, <3>3 DEF Queued
    <2>6. \A x \in Tasks : pc'[x] \in Working => Holds(x)'
      <3>1. ASSUME NEW x \in Tasks, pc'[x] \in Working
            PROVE  Holds(x)'
        <4>1. pc[x] \in Working
          BY <1>0, <2>1, <3>1 DEF Working
        <4> QED
          BY <1>0, <1>1, <2>1, <2>2, <4>1 DEF Holds
      <3> QED
        BY <3>1
    <2>7. /\ \A p \in todo'["spawn"] : lockq'[p] # <<>> /\ Head(lockq'[p]) = "spawn"
          /\ pc'["spawn"] \notin Working
      <3>1. todo'["spawn"] = made /\ made \subseteq Objects
        BY <2>1 DEF LifecycleInv, TypeOK, PlanType
      <3> QED
        BY <1>0, <2>1, <2>3, <3>1 DEF Working
    <2> QED
      BY <2>4, <2>5, <2>6, <2>7 DEF LockInv
  <1> QED
    BY <1>0, <1>2, <1>3, <1>4, <1>5, RequestLocks, WorkLocks, ActorLocks DEF Stays

-----------------------------------------------------------------------------
(* The table, and what is made.                                            *)

\* What a step may do to it: nothing, pop a user, begin to create a session for
\* a request, register the session a request has created, register placeholders.
Kept == table' = table /\ gen' = gen /\ dropped' = dropped

Popped == gen' = gen /\ \E u \in Users : Drop(u)

Creates(r) ==
  /\ MHolds(r) /\ want[r] \in Users /\ Create(r)
  /\ want' = want /\ todo' = todo
  /\ \/ table[want[r]] = 0 /\ table' = table /\ dropped' = dropped
     \/ Drop(want[r])

\* No step does anything else to it.
LEMMA RegistryStep ==
  ASSUME LifecycleInv, [Next]_vars
  PROVE  \/ Kept \/ Popped
         \/ \E r \in Requests : Creates(r)
         \/ \E r \in Requests : ColdReady(r)
         \/ SpawnRegister
  <1> USE TaskNames DEF LifecycleInv
  <1>1. ASSUME NEW r \in Requests, LookNone(r) \/ ReviveFails(r)
        PROVE  Creates(r)
    <2>1. want[r] \in Users
      BY <1>1 DEF LookNone, ReviveFails, PlaceInv
    <2>2. MHolds(r)
      BY <1>1 DEF LookNone, ReviveFails, MLockInv, Deciding
    <2> QED
      BY <1>1, <2>1, <2>2 DEF LookNone, ReviveFails, Creates
  <1>2. ASSUME NEW t \in Tasks, ActorFails(t)
        PROVE  Kept \/ Popped
    <2>1. mine[t] \in Objects
      BY <1>2 DEF ActorFails, PlaceInv
    <2>2. mine[t][1] \in Users
      BY <2>1, ObjectPairs
    <2> QED
      BY <1>2, <2>2 DEF ActorFails, Kept, Popped
  <1>3. ASSUME NEW o \in Objects, RetireEnd(o)
        PROVE  Popped
    BY <1>3, ObjectPairs DEF RetireEnd, Popped
  <1>4. ASSUME NEW r \in Requests,
               Ask(r) \/ LookLive(r) \/ LookDead(r) \/ ColdFails(r) \/ Enter(r) \/ Submit(r)
        PROVE  Kept
    BY <1>4 DEF Ask, LookLive, LookDead, ColdFails, Enter, Submit, Kept
  <1>5. ASSUME NEW t \in Tasks,
               RestartBegin(t) \/ RestartStopped(t) \/ Exec(t) \/ Ready(t) \/ PrewarmEnd(t)
        PROVE  Kept
    BY <1>5 DEF RestartBegin, RestartStopped, Exec, Ready, PrewarmEnd, Kept
  <1>6. CASE SpawnAsk \/ SpawnNext \/ RestarterPass \/ RestarterNext \/ OperatorRestart
             \/ ForceRestart \/ ForceReady \/ RetireAll
    BY <1>6 DEF SpawnAsk, SpawnNext, RestarterPass, RestarterNext, OperatorRestart,
       ForceRestart, ForceReady, RetireAll, Kept
  <1>7. ASSUME NEW o \in Objects, RetireKill(o) \/ Crash(o) \/ Exit(o)
        PROVE  Kept
    BY <1>7 DEF RetireKill, Crash, Exit, Kept
  <1>8. CASE UNCHANGED vars
    BY <1>8 DEF vars, Kept
  <1> QED
    BY <1>1, <1>2, <1>3, <1>4, <1>5, <1>6, <1>7, <1>8 DEF Next, Request, Work

\* The types of the table, and how far one step changes it: as long as nobody
\* dropped a user's session, the entry stays.
LEMMA TableStep ==
  ASSUME LifecycleInv, [Next]_vars
  PROVE  /\ table' \in [Users -> 0 .. MaxGen]
         /\ gen' \in [Users -> 0 .. MaxGen]
         /\ \A u \in Users : table'[u] <= gen'[u] /\ gen[u] <= gen'[u]
         /\ dropped' \in SUBSET Users /\ dropped \subseteq dropped'
         /\ \A u \in Users \ dropped' : table[u] # 0 => table'[u] = table[u]
         /\ \A u \in Users :
              \/ table'[u] \in {table[u], 0}
              \/ \E r \in Requests : MHolds(r) /\ pc'[r] \notin Cold
              \/ MHolds("spawn")
  <1> DEFINE Goal ==
        /\ table' \in [Users -> 0 .. MaxGen]
        /\ gen' \in [Users -> 0 .. MaxGen]
        /\ \A u \in Users : table'[u] <= gen'[u] /\ gen[u] <= gen'[u]
        /\ dropped' \in SUBSET Users /\ dropped \subseteq dropped'
        /\ \A u \in Users \ dropped' : table[u] # 0 => table'[u] = table[u]
        /\ \A u \in Users :
              \/ table'[u] \in {table[u], 0}
              \/ \E r \in Requests : MHolds(r) /\ pc'[r] \notin Cold
              \/ MHolds("spawn")
  <1>0. /\ table \in [Users -> 0 .. MaxGen] /\ gen \in [Users -> 0 .. MaxGen]
        /\ \A u \in Users : table[u] <= gen[u]
        /\ dropped \subseteq Users /\ MaxGen \in Nat
        /\ pc \in [Tasks -> Places] /\ Requests \subseteq Tasks
    BY ObjectPairs, TaskNames DEF LifecycleInv, TypeOK
  <1>1. CASE Kept
    BY <1>0, <1>1 DEF Kept
  <1>2. CASE Popped
    BY <1>0, <1>2 DEF Popped, Drop
  <1>3. ASSUME NEW r \in Requests, Creates(r)
        PROVE  Goal
    BY <1>0, <1>3 DEF Creates, Create, Drop
  <1>4. ASSUME NEW r \in Requests, ColdReady(r)
        PROVE  Goal
    <2> DEFINE o == mine[r]
    <2>1. /\ o \in Objects /\ Made(o) /\ want[r] = o[1] /\ pc[r] \in Cold
      BY <1>4, TaskNames DEF ColdReady, LifecycleInv, PlaceInv, FreshInv, Cold
    <2>2. MHolds(r) /\ (o[1] \notin dropped => table[o[1]] = 0)
      BY <1>0, <2>1 DEF LifecycleInv, MLockInv, ColdInv, Deciding
    <2>3. /\ table' = [table EXCEPT ![o[1]] = o[2]]
          /\ gen' = gen /\ dropped' = dropped /\ pc' = [pc EXCEPT ![r] = "prewarm"]
      BY <1>4 DEF ColdReady, Goto
    <2>4. o[1] \in Users /\ o[2] \in 1 .. MaxGen /\ o[2] <= gen[o[1]]
      BY <2>1, ObjectPairs DEF Made
    <2>5. pc'[r] \notin Cold
      BY <1>0, <2>3 DEF Cold
    <2> HIDE DEF o
    <2> QED
      BY <1>0, <2>2, <2>3, <2>4, <2>5
  <1>5. CASE SpawnRegister
    <2>1. /\ \A u \in Users : table[u] = 0 => gen[u] + 1 \in 0 .. MaxGen
          /\ gen' = [u \in Users |-> IF table[u] = 0 THEN gen[u] + 1 ELSE gen[u]]
          /\ table' = [u \in Users |-> IF table[u] = 0 THEN gen[u] + 1 ELSE table[u]]
          /\ MHolds("spawn") /\ dropped' = dropped
      BY <1>0, <1>5 DEF SpawnRegister
    <2> QED
      BY <1>0, <2>1
  <1> QED
    BY <1>1, <1>2, <1>3, <1>4, <1>5, RegistryStep

-----------------------------------------------------------------------------
(* The processes, and the tasks that start them.                           *)

\* start() fails: the process is dead or dying, or there never was one.
LEMMA FailsStep ==
  ASSUME TypeOK, NEW o \in Objects, Fails(o)
  PROVE  /\ proc' \in [Objects -> {"none", "booting", "up", "dying", "dead"}]
         /\ IF proc[o] = "none" THEN proc'[o] = "none" ELSE proc'[o] \in {"dying", "dead"}
         /\ \A p \in Objects \ {o} : proc'[p] = proc[p]
         /\ fails' \in 0 .. MaxFails
  <1>1. CASE proc[o] \in {"none", "booting"} /\ fails < MaxFails
    <2>1. /\ fails' = fails + 1
          /\ \/ proc[o] = "none" /\ proc' = proc
             \/ proc[o] = "booting" /\ \E p \in {"dying", "dead"} : proc' = [proc EXCEPT ![o] = p]
      BY <1>1 DEF Fails
    <2>2. /\ proc \in [Objects -> {"none", "booting", "up", "dying", "dead"}]
          /\ fails \in 0 .. MaxFails /\ MaxFails \in Nat
      BY LifecycleAssumption DEF TypeOK
    <2> QED
      BY <1>1, <2>1, <2>2
  <1>2. CASE proc[o] \in {"dying", "dead"} /\ UNCHANGED <<fails, proc>>
    BY <1>2 DEF TypeOK
  <1> QED
    BY <1>1, <1>2 DEF Fails

\* start() succeeds: the process is up, unless it has been stopped or died since.
LEMMA BootsStep ==
  ASSUME TypeOK, NEW o \in Objects, Boots(o)
  PROVE  /\ proc' \in [Objects -> {"none", "booting", "up", "dying", "dead"}]
         /\ proc'[o] = IF proc[o] = "booting" THEN "up" ELSE proc[o]
         /\ \A p \in Objects \ {o} : proc'[p] = proc[p]
         /\ fails' \in 0 .. MaxFails
  BY DEF Boots, TypeOK

\* Task t works on object o, and goes from one place to another.
Goes(t, o, from, to) ==
  mine[t] = o /\ mine'[t] = o /\ pc[t] = from /\ pc'[t] = to

\* What a step may do to the process of an object.
ProcMoves(o) ==
  /\ proc[o] = "none" => proc'[o] \in {"none", "booting"}
  /\ proc'[o] = "none" =>
       proc[o] = "none" \/ \E t \in Tasks : Goes(t, o, "stop", "exec")
  /\ proc'[o] = "booting" =>
       \/ proc[o] = "booting"
       \/ \E t \in Tasks : Goes(t, o, "exec", "boot")
                           \/ Goes(t, o, "cold_exec", "cold_boot")
  /\ proc'[o] = "up" => proc[o] \in {"up", "booting"}
  /\ proc'[o] = "up" /\ warm'[o] = "no" =>
       \/ proc[o] = "up" /\ warm[o] = "no"
       \/ \E t \in Tasks : Goes(t, o, "boot", "prewarm")
                           \/ Goes(t, o, "cold_boot", "prewarm")

ProcType ==
  /\ proc \in [Objects -> {"none", "booting", "up", "dying", "dead"}]
  /\ warm \in [Objects -> {"no", "skipped", "yes"}]
  /\ retiring \in [Objects -> {"no", "begun", "killed", "done"}]
  /\ fails \in 0 .. MaxFails /\ crashes \in 0 .. MaxCrashes

\* No step does anything else to it.
LEMMA ProcStep ==
  ASSUME LifecycleInv, [Next]_vars
  PROVE  ProcType' /\ \A o \in Objects : ProcMoves(o)
  <1> DEFINE Goal == ProcType' /\ \A o \in Objects : ProcMoves(o)
  <1>0. /\ TypeOK /\ ProcType
        /\ pc \in [Tasks -> Places] /\ mine \in [Tasks -> Objects \cup {NoObject}]
        /\ \A t \in Tasks :
             pc[t] \notin {"idle", "mlock", "next", "done"} => mine[t] \in Objects
        /\ Requests \subseteq Tasks /\ "force" \in Tasks
    BY TaskNames DEF LifecycleInv, TypeOK, PlaceInv, ProcType
  <1>1. ASSUME NEW t \in Tasks, RestartBegin(t)
        PROVE  Goal
    BY <1>0, <1>1 DEF RestartBegin, ProcType, ProcMoves, Live
  <1>2. ASSUME NEW t \in Tasks, RestartStopped(t)
        PROVE  Goal
    <2>1. mine[t] \in Objects /\ Goes(t, mine[t], "stop", "exec")
      BY <1>0, <1>2 DEF RestartStopped, Goto, Goes
    <2> QED
      BY <1>0, <1>2, <2>1 DEF RestartStopped, ProcType, ProcMoves
  <1>3. ASSUME NEW t \in Tasks, Exec(t)
        PROVE  Goal
    <2>1. /\ mine[t] \in Objects
          /\ Goes(t, mine[t], "exec", "boot") \/ Goes(t, mine[t], "cold_exec", "cold_boot")
      BY <1>0, <1>3 DEF Exec, Goto, Goes
    <2> QED
      BY <1>0, <1>3, <2>1 DEF Exec, ProcType, ProcMoves
  <1>4. ASSUME NEW t \in Tasks, ActorFails(t) \/ ColdFails(t) \/ ReviveFails(t)
        PROVE  Goal
    <2>1. mine[t] \in Objects /\ Fails(mine[t]) /\ UNCHANGED <<warm, retiring, crashes>>
      BY <1>0, <1>4 DEF ActorFails, ColdFails, ReviveFails
    <2> QED
      BY <1>0, <2>1, FailsStep DEF ProcType, ProcMoves
  <1>5. ASSUME NEW t \in Tasks, Ready(t) \/ ColdReady(t)
        PROVE  Goal
    <2>1. /\ mine[t] \in Objects /\ Boots(mine[t]) /\ UNCHANGED <<warm, retiring, crashes>>
          /\ Goes(t, mine[t], "boot", "prewarm") \/ Goes(t, mine[t], "cold_boot", "prewarm")
      BY <1>0, <1>5 DEF Ready, ColdReady, Goto, Goes
    <2> QED
      BY <1>0, <2>1, BootsStep DEF ProcType, ProcMoves
  <1>6. CASE ForceReady
    <2>1. /\ mine["force"] \in Objects /\ Boots(mine["force"])
          /\ warm' = [warm EXCEPT ![mine["force"]] = "skipped"]
          /\ UNCHANGED <<retiring, crashes>>
      BY <1>0, <1>6 DEF ForceReady
    <2> QED
      BY <1>0, <2>1, BootsStep DEF ProcType, ProcMoves
  <1>7. ASSUME NEW t \in Tasks, PrewarmEnd(t)
        PROVE  Goal
    BY <1>0, <1>7 DEF PrewarmEnd, ProcType, ProcMoves
  <1>8. ASSUME NEW o \in Objects, RetireKill(o) \/ RetireEnd(o) \/ Crash(o) \/ Exit(o)
        PROVE  Goal
    <2>1. CASE RetireKill(o)
      BY <1>0, <2>1 DEF RetireKill, ProcType, ProcMoves, Live
    <2>2. CASE RetireEnd(o)
      BY <1>0, <2>2 DEF RetireEnd, ProcType, ProcMoves
    <2>3. CASE Crash(o)
      <3>1. crashes' \in 0 .. MaxCrashes
        BY <1>0, <2>3, LifecycleAssumption DEF Crash, ProcType
      <3> QED
        BY <1>0, <2>3, <3>1 DEF Crash, ProcType, ProcMoves
    <2>4. CASE Exit(o)
      BY <1>0, <2>4 DEF Exit, ProcType, ProcMoves
    <2> QED
      BY <1>8, <2>1, <2>2, <2>3, <2>4
  <1>9. CASE RetireAll
    BY <1>0, <1>9 DEF RetireAll, ProcType, ProcMoves
  <1>10. CASE UNCHANGED <<proc, warm, retiring, fails, crashes>>
    BY <1>0, <1>10 DEF ProcType, ProcMoves
  <1>11. ASSUME NEW r \in Requests,
                \/ Ask(r) \/ LookNone(r) \/ LookLive(r) \/ LookDead(r)
                \/ Enter(r) \/ Submit(r)
         PROVE  UNCHANGED <<proc, warm, retiring, fails, crashes>>
    BY <1>11 DEF Ask, LookNone, LookLive, LookDead, Enter, Submit
  <1>12. ASSUME SpawnAsk \/ SpawnRegister \/ SpawnNext \/ RestarterPass \/ RestarterNext
                \/ OperatorRestart \/ ForceRestart \/ UNCHANGED vars
         PROVE  UNCHANGED <<proc, warm, retiring, fails, crashes>>
    BY <1>12 DEF SpawnAsk, SpawnRegister, SpawnNext, RestarterPass, RestarterNext,
       OperatorRestart, ForceRestart, vars
  <1> QED
    BY <1>0, <1>1, <1>2, <1>3, <1>4, <1>5, <1>6, <1>7, <1>8, <1>9, <1>10, <1>11, <1>12
       DEF Next, Request, Work

-----------------------------------------------------------------------------
\* What somebody other than its creator knows of the table.
Known(o) ==
  \/ InTable(o)
  \/ o \in todo["spawn"] \cup todo["restarter"]
  \/ \E t \in Tasks : mine[t] = o /\ pc[t] \in {"served", "lost"}

\* What a step may do to a task.
TaskMoves(t) ==
  /\ pc[t] = "exec" => \/ Goes(t, mine[t], "exec", "exec")
                       \/ Goes(t, mine[t], "exec", "boot")
                       \/ /\ t \in {"operator", "force"} /\ proc'[mine[t]] # "booting"
                          /\ Goes(t, mine[t], "exec", "aborted")
                       \/ table'[mine[t][1]] # mine[t][2]
  /\ pc[t] = "aborted" => Goes(t, mine[t], "aborted", "aborted")
  /\ pc[t] = "boot" => \/ Goes(t, mine[t], "boot", "boot")
                       \/ proc'[mine[t]] \notin {"none", "booting"}
  /\ pc[t] = "prewarm" => \/ Goes(t, mine[t], "prewarm", "prewarm")
                          \/ warm'[mine[t]] = "yes"
  /\ pc[t] = "cold_boot" => \/ Goes(t, mine[t], "cold_boot", "cold_boot")
                            \/ proc'[mine[t]] \notin {"none", "booting", "up"}
                            \/ /\ InTable(mine[t])'
                               /\ proc'[mine[t]] \notin {"none", "booting"}
  /\ pc'[t] = "boot" => \/ Goes(t, mine[t], "boot", "boot")
                        \/ proc'[mine'[t]] = "booting"
  /\ pc'[t] = "cold_boot" => \/ Goes(t, mine[t], "cold_boot", "cold_boot")
                             \/ proc'[mine'[t]] = "booting"
  /\ pc[t] \in Cold \cup {"failed"} =>
       /\ mine'[t] = mine[t]
       /\ pc'[t] \in Cold \cup {"failed"} \/ InTable(mine[t])'
  /\ pc'[t] \in Cold => \/ t \in Requests /\ Creates(t)
                        \/ /\ t \in Requests /\ pc[t] \in Cold
                           /\ mine'[t] = mine[t] /\ want'[t] = want[t]
  /\ mine'[t] \in Objects => \/ mine'[t] = mine[t] \/ Known(mine'[t])
                             \/ t \in Requests /\ Creates(t)
  /\ pc'[t] = "served" => \/ pc[t] = "served"
                          \/ pc[t] = "queued" /\ Holds(t) /\ proc[mine[t]] = "up"

\* Only task t moves.
Only(t) ==
  \A s \in Tasks \ {t} :
    pc'[s] = pc[s] /\ mine'[s] = mine[s] /\ (s \in Requests => want'[s] = want[s])

\* A task that does not move.
LEMMA StillMoves ==
  ASSUME LifecycleInv, NEW t \in Tasks, pc'[t] = pc[t], mine'[t] = mine[t],
         t \in Requests => want'[t] = want[t]
  PROVE  TaskMoves(t)
  <1>1. pc[t] \in Cold => t \in Requests
    BY DEF LifecycleInv, ColdInv
  <1> QED
    BY <1>1 DEF TaskMoves, Goes

\* A request's own steps.
LEMMA RequestMoves ==
  ASSUME LifecycleInv, NEW r \in Requests, Ask(r) \/ Request(r)
  PROVE  Only(r) /\ TaskMoves(r)
  <1>0. /\ TypeOK /\ r \in Tasks /\ Requests \subseteq Tasks
        /\ pc \in [Tasks -> Places] /\ mine \in [Tasks -> Objects \cup {NoObject}]
        /\ want \in [Requests -> Users \cup {"none"}]
        /\ table \in [Users -> 0 .. MaxGen]
        /\ pc[r] # "idle" => want[r] \in Users
        /\ pc[r] \notin {"idle", "mlock", "next", "done"} => mine[r] \in Objects
        /\ pc[r] = "boot" => proc[mine[r]] # "none"
        /\ pc[r] = "cold_boot" => proc[mine[r]] # "none"
    BY TaskNames DEF LifecycleInv, TypeOK, PlaceInv, BootInv, ColdInv, Cold
  <1> USE DEF Goto, Goes, Cold
  <1>1. CASE Ask(r)
    BY <1>0, <1>1 DEF Ask, Only, TaskMoves
  <1>2. CASE LookNone(r)
    <2>1. Creates(r)
      BY <1>0, <1>2 DEF LookNone, Creates
    <2> QED
      BY <1>0, <1>2, <2>1 DEF LookNone, Create, Only, TaskMoves
  <1>3. CASE LookLive(r) \/ LookDead(r)
    <2> DEFINE o == <<want[r], table[want[r]]>>
    <2>1. o[1] = want[r] /\ o[2] = table[want[r]]
      OBVIOUS
    <2>2. Known(o)
      BY <2>1 DEF Known, InTable
    <2>3. /\ mine' = [mine EXCEPT ![r] = o] /\ want' = want /\ pc[r] = "mlock"
          /\ \E p \in {"have", "wait"} : pc' = [pc EXCEPT ![r] = p]
      BY <1>3 DEF LookLive, LookDead
    <2> HIDE DEF o
    <2> QED
      BY <1>0, <2>2, <2>3 DEF Only, TaskMoves
  <1>4. CASE ColdReady(r)
    <2> DEFINE o == mine[r]
    <2>1. o \in Objects /\ Boots(o) /\ proc[o] # "none"
      BY <1>0, <1>4 DEF ColdReady
    <2>2. proc'[o] \notin {"none", "booting"}
      BY <1>0, <2>1, BootsStep
    <2>3. /\ table' = [table EXCEPT ![o[1]] = o[2]] /\ want' = want /\ mine' = mine
          /\ pc[r] = "cold_boot" /\ pc' = [pc EXCEPT ![r] = "prewarm"]
      BY <1>4 DEF ColdReady
    <2>4. table'[o[1]] = o[2]
      BY <1>0, <2>1, <2>3, ObjectPairs
    <2> QED
      BY <1>0, <2>2, <2>3, <2>4 DEF Only, TaskMoves, InTable
  <1>5. CASE ColdFails(r)
    <2>1. mine[r] \in Objects /\ Fails(mine[r])
      BY <1>0, <1>5 DEF ColdFails
    <2>2. pc[r] = "cold_boot" => proc'[mine[r]] \in {"dying", "dead"}
      BY <1>0, <2>1, FailsStep
    <2> QED
      BY <1>0, <1>5, <2>2 DEF ColdFails, Only, TaskMoves
  <1>6. CASE ReviveFails(r)
    <2>1. mine[r] \in Objects /\ Fails(mine[r]) /\ want[r] \in Users
      BY <1>0, <1>6 DEF ReviveFails
    <2>2. pc[r] = "boot" => proc'[mine[r]] \in {"dying", "dead"}
      BY <1>0, <2>1, FailsStep
    <2>5. table'[mine[r][1]] # mine[r][2]
      BY <1>0, <1>6, <2>1, ObjectPairs DEF ReviveFails, Drop, LifecycleInv, PlaceInv
    <2>3. MHolds(r)
      BY <1>6 DEF ReviveFails, LifecycleInv, MLockInv, Deciding
    <2>4. Creates(r)
      BY <1>6, <2>1, <2>3 DEF ReviveFails, Creates
    <2> QED
      BY <1>0, <1>6, <2>2, <2>4, <2>5 DEF ReviveFails, Create, Only, TaskMoves
  <1>7. CASE Enter(r) \/ Submit(r)
    BY <1>0, <1>7 DEF Enter, Submit, Only, TaskMoves
  <1> QED
    BY <1>1, <1>2, <1>3, <1>4, <1>5, <1>6, <1>7 DEF Request

\* The steps of a restart.
LEMMA WorkMoves ==
  ASSUME LifecycleInv, NEW t \in Tasks, Work(t)
  PROVE  Only(t) /\ TaskMoves(t)
  <1>0. /\ TypeOK /\ pc \in [Tasks -> Places] /\ mine \in [Tasks -> Objects \cup {NoObject}]
        /\ proc \in [Objects -> {"none", "booting", "up", "dying", "dead"}]
        /\ warm \in [Objects -> {"no", "skipped", "yes"}]
        /\ pc[t] \notin {"idle", "mlock", "next", "done"} => mine[t] \in Objects
        /\ pc[t] = "boot" => proc[mine[t]] # "none"
        /\ pc[t] \in Cold => t \in Requests
    BY TaskNames DEF LifecycleInv, TypeOK, PlaceInv, BootInv, ColdInv
  <1> USE DEF Goto, Goes, Cold
  <1>1. CASE RestartBegin(t) \/ RestartStopped(t)
    BY <1>0, <1>1 DEF RestartBegin, RestartStopped, Only, TaskMoves
  <1>2. CASE Exec(t)
    BY <1>0, <1>2 DEF Exec, Only, TaskMoves
  <1>3. CASE Ready(t)
    <2>1. mine[t] \in Objects /\ Boots(mine[t]) /\ proc[mine[t]] # "none"
      BY <1>0, <1>3 DEF Ready
    <2>2. proc'[mine[t]] \notin {"none", "booting"}
      BY <1>0, <2>1, BootsStep
    <2> QED
      BY <1>0, <1>3, <2>2 DEF Ready, Only, TaskMoves
  <1>4. CASE ActorFails(t)
    <2>1. mine[t] \in Objects /\ Fails(mine[t])
      BY <1>0, <1>4 DEF ActorFails
    <2>2. /\ pc[t] = "boot" => proc'[mine[t]] \in {"dying", "dead"}
          /\ proc'[mine[t]] # "booting"
      BY <1>0, <2>1, FailsStep
    <2>3. t \in {"operator", "force"} \/ table'[mine[t][1]] # mine[t][2]
      BY <1>0, <1>4, <2>1, ObjectPairs DEF ActorFails, Drop, LifecycleInv, TypeOK
    <2> QED
      BY <1>0, <1>4, <2>2, <2>3 DEF ActorFails, Only, TaskMoves
  <1>5. CASE PrewarmEnd(t)
    BY <1>0, <1>5 DEF PrewarmEnd, Only, TaskMoves
  <1> QED
    BY <1>1, <1>2, <1>3, <1>4, <1>5 DEF Work

\* Every step, for every task.
LEMMA TaskStep ==
  ASSUME LifecycleInv, [Next]_vars
  PROVE  \A t \in Tasks : TaskMoves(t)
  <1>0. /\ pc \in [Tasks -> Places] /\ mine \in [Tasks -> Objects \cup {NoObject}]
        /\ "spawn" \in Tasks /\ "restarter" \in Tasks /\ "operator" \in Tasks
        /\ "force" \in Tasks /\ Requests \subseteq Tasks
        /\ "force" \notin Requests
        /\ proc[mine["force"]] # "none" \/ pc["force"] # "boot"
        /\ pc["force"] = "boot" => mine["force"] \in Objects
        /\ TypeOK
    BY TaskNames DEF LifecycleInv, TypeOK, PlaceInv, BootInv
  <1>1. ASSUME NEW t \in Tasks, Only(t), TaskMoves(t)
        PROVE  \A s \in Tasks : TaskMoves(s)
    BY <1>1, StillMoves DEF Only
  <1> USE DEF Goto, Goes, Cold
  <1>2. ASSUME NEW a \in Tasks, MayBegin(a), a # "retire"
        PROVE  pc[a] = "idle"
    BY <1>2 DEF MayBegin
  <1>3. CASE SpawnAsk
    <2>1. pc["spawn"] = "idle"
      BY <1>0, <1>2, <1>3 DEF SpawnAsk
    <2>2. Only("spawn") /\ TaskMoves("spawn")
      BY <1>0, <1>3, <2>1 DEF SpawnAsk, Only, TaskMoves
    <2> QED
      BY <1>0, <1>1, <2>2
  <1>4. CASE SpawnRegister
    <2>1. Only("spawn") /\ TaskMoves("spawn")
      BY <1>0, <1>4 DEF SpawnRegister, Only, TaskMoves
    <2> QED
      BY <1>0, <1>1, <2>1
  <1>5. CASE SpawnNext
    <2>1. Only("spawn") /\ TaskMoves("spawn")
      BY <1>0, <1>5 DEF SpawnNext, Only, TaskMoves, Known
    <2> QED
      BY <1>0, <1>1, <2>1
  <1>6. CASE RestarterPass
    <2>1. pc["restarter"] = "idle"
      BY <1>0, <1>2, <1>6 DEF RestarterPass
    <2>2. Only("restarter") /\ TaskMoves("restarter")
      BY <1>0, <1>6, <2>1 DEF RestarterPass, Only, TaskMoves
    <2> QED
      BY <1>0, <1>1, <2>2
  <1>7. CASE RestarterNext
    <2>1. Only("restarter") /\ TaskMoves("restarter")
      BY <1>0, <1>7 DEF RestarterNext, Only, TaskMoves, Known
    <2> QED
      BY <1>0, <1>1, <2>1
  <1>8. CASE OperatorRestart
    <2>1. pc["operator"] = "idle"
      BY <1>0, <1>2, <1>8 DEF OperatorRestart
    <2>2. Only("operator") /\ TaskMoves("operator")
      BY <1>0, <1>8, <2>1 DEF OperatorRestart, Only, TaskMoves, Known
    <2> QED
      BY <1>0, <1>1, <2>2
  <1>9. CASE ForceRestart
    <2>1. pc["force"] = "idle"
      BY <1>0, <1>2, <1>9 DEF ForceRestart
    <2>2. Only("force") /\ TaskMoves("force")
      BY <1>0, <1>9, <2>1 DEF ForceRestart, Only, TaskMoves, Known
    <2> QED
      BY <1>0, <1>1, <2>2
  <1>10. CASE ForceReady
    <2>1. mine["force"] \in Objects /\ Boots(mine["force"]) /\ proc[mine["force"]] # "none"
      BY <1>0, <1>10 DEF ForceReady
    <2>2. proc'[mine["force"]] \notin {"none", "booting"}
      BY <1>0, <2>1, BootsStep
    <2>3. Only("force") /\ TaskMoves("force")
      BY <1>0, <1>10, <2>2 DEF ForceReady, Only, TaskMoves
    <2> QED
      BY <1>0, <1>1, <2>3
  <1>11. CASE UNCHANGED <<pc, mine, want>>
    BY <1>11, StillMoves
  <1>12. \/ \E r \in Requests : Ask(r) \/ Request(r)
         \/ \E t \in Tasks : Work(t)
         \/ SpawnAsk \/ SpawnRegister \/ SpawnNext \/ RestarterPass \/ RestarterNext
         \/ OperatorRestart \/ ForceRestart \/ ForceReady
         \/ UNCHANGED <<pc, mine, want>>
    BY DEF Next, RetireAll, RetireKill, RetireEnd, Crash, Exit, vars
  <1> QED
    BY <1>0, <1>1, <1>3, <1>4, <1>5, <1>6, <1>7, <1>8, <1>9, <1>10, <1>11, <1>12,
       RequestMoves, WorkMoves

-----------------------------------------------------------------------------
\* What a step may do to the plans of spawn_account and the restarter.
LEMMA TodoStep ==
  ASSUME LifecycleInv, [Next]_vars
  PROVE  /\ \A o \in todo["spawn"] :
              o \in todo'["spawn"] \/ (mine'["spawn"] = o /\ pc'["spawn"] = "exec")
         /\ \A x \in {"spawn", "restarter"} : \A o \in todo'[x] :
              \/ o \in todo[x] \/ InTable(o)
              \/ MHolds("spawn") /\ InTable(o)'
  <1> DEFINE Goal ==
        /\ \A o \in todo["spawn"] :
             o \in todo'["spawn"] \/ (mine'["spawn"] = o /\ pc'["spawn"] = "exec")
        /\ \A x \in {"spawn", "restarter"} : \A o \in todo'[x] :
             \/ o \in todo[x] \/ InTable(o)
             \/ MHolds("spawn") /\ InTable(o)'
  <1>0. /\ todo \in [{"spawn", "restarter"} -> SUBSET Objects]
        /\ pc \in [Tasks -> Places] /\ mine \in [Tasks -> Objects \cup {NoObject}]
        /\ "spawn" \in Tasks /\ "restarter" \in Tasks
        /\ pc["spawn"] = "mlock" => todo["spawn"] = {}
    BY TaskNames DEF LifecycleInv, TypeOK, PlaceInv
  <1>1. CASE SpawnRegister
    <2> DEFINE made == {<<u, gen[u] + 1>> : u \in {v \in Users : table[v] = 0}}
    <2>1. /\ todo' = [todo EXCEPT !["spawn"] = made] /\ pc["spawn"] = "mlock"
          /\ table' = [u \in Users |-> IF table[u] = 0 THEN gen[u] + 1 ELSE table[u]]
          /\ MHolds("spawn")
      BY <1>1 DEF SpawnRegister
    <2>2. \A o \in made : InTable(o)'
      BY <2>1 DEF InTable
    <2> HIDE DEF made
    <2> QED
      BY <1>0, <2>1, <2>2
  <1>2. CASE SpawnNext
    BY <1>0, <1>2 DEF SpawnNext, Goto
  <1>3. CASE RestarterPass
    BY <1>0, <1>3 DEF RestarterPass
  <1>4. CASE RestarterNext
    BY <1>0, <1>4 DEF RestarterNext
  <1>5. CASE UNCHANGED todo
    BY <1>0, <1>5
  <1>6. ASSUME NEW r \in Requests, Ask(r) \/ Request(r)
        PROVE  UNCHANGED todo
    BY <1>6 DEF Ask, Request, LookNone, LookLive, LookDead, ColdReady, ColdFails,
       ReviveFails, Enter, Submit
  <1>7. ASSUME NEW t \in Tasks, Work(t)
        PROVE  UNCHANGED todo
    BY <1>7 DEF Work, RestartBegin, RestartStopped, Exec, Ready, ActorFails, PrewarmEnd
  <1>8. ASSUME NEW o \in Objects, RetireKill(o) \/ RetireEnd(o) \/ Crash(o) \/ Exit(o)
        PROVE  UNCHANGED todo
    BY <1>8 DEF RetireKill, RetireEnd, Crash, Exit
  <1>9. ASSUME SpawnAsk \/ OperatorRestart \/ ForceRestart \/ ForceReady \/ RetireAll
               \/ UNCHANGED vars
        PROVE  UNCHANGED todo
    BY <1>9 DEF SpawnAsk, OperatorRestart, ForceRestart, ForceReady, RetireAll, vars
  <1> QED
    BY <1>1, <1>2, <1>3, <1>4, <1>5, <1>6, <1>7, <1>8, <1>9 DEF Next

\* What is new in the table is a placeholder or has said ready.
LEMMA NewEntries ==
  ASSUME LifecycleInv, [Next]_vars, NEW o \in Objects, InTable(o)', ~InTable(o)
  PROVE  o \in todo'["spawn"] \/ proc'[o] \notin {"none", "booting"}
  <1>0. /\ table \in [Users -> 0 .. MaxGen] /\ gen \in [Users -> 0 .. MaxGen]
        /\ o[1] \in Users /\ o[2] # 0 /\ o = <<o[1], o[2]>>
        /\ todo \in [{"spawn", "restarter"} -> SUBSET Objects]
    BY ObjectPairs DEF LifecycleInv, TypeOK
  <1>1. CASE Kept \/ Popped
    BY <1>0, <1>1 DEF Kept, Popped, Drop, InTable
  <1>2. ASSUME NEW r \in Requests, Creates(r)
        PROVE  FALSE
    BY <1>0, <1>2 DEF Creates, Drop, InTable
  <1>3. ASSUME NEW r \in Requests, ColdReady(r)
        PROVE  proc'[o] \notin {"none", "booting"}
    <2>1. /\ mine[r] \in Objects /\ proc[mine[r]] # "none" /\ TypeOK
      BY <1>3, TaskNames DEF ColdReady, LifecycleInv, PlaceInv, ColdInv, Cold
    <2>2. table' = [table EXCEPT ![mine[r][1]] = mine[r][2]] /\ Boots(mine[r])
      BY <1>3 DEF ColdReady
    <2>3. o = mine[r]
      BY <1>0, <2>1, <2>2, ObjectPairs DEF InTable
    <2> QED
      BY <2>1, <2>2, <2>3, BootsStep
  <1>4. CASE SpawnRegister
    <2>1. table'[o[1]] = IF table[o[1]] = 0 THEN gen[o[1]] + 1 ELSE table[o[1]]
      BY <1>0, <1>4 DEF SpawnRegister
    <2>2. table[o[1]] = 0 /\ o[2] = gen[o[1]] + 1
      BY <2>1 DEF InTable
    <2> DEFINE made == {<<u, gen[u] + 1>> : u \in {v \in Users : table[v] = 0}}
    <2>3. o \in made
      BY <1>0, <2>2
    <2>4. todo' = [todo EXCEPT !["spawn"] = made]
      BY <1>4 DEF SpawnRegister
    <2> HIDE DEF made
    <2> QED
      BY <1>0, <2>3, <2>4
  <1> QED
    BY <1>1, <1>2, <1>3, <1>4, RegistryStep

-----------------------------------------------------------------------------
(* The invariants.                                                         *)

\* Two tasks at work hold different locks, and so work on different objects; and
\* nobody else works on the object a task creates.
LEMMA WorkApart ==
  ASSUME LifecycleInv, NEW s \in Tasks, NEW t \in Tasks, s # t, mine[s] = mine[t]
  PROVE  /\ pc[s] \notin Working \/ pc[t] \notin Working
         /\ pc[s] \notin Cold
  BY DEF LifecycleInv, LockInv, Holds, ColdInv

\* Who decides or registers is the only one to.
LEMMA DecideApart ==
  ASSUME LifecycleInv, NEW t, MHolds(t), NEW r \in Requests, pc[r] \in Deciding
  PROVE  t = r
  BY DEF LifecycleInv, MLockInv, MHolds

\* Tasks come to know an object from the table, a plan, a request it served, or
\* by making it: so what they know is made.
LEMMA FreshStep ==
  ASSUME LifecycleInv, [Next]_vars, PlanType'
  PROVE  FreshInv'
  <1>0. /\ table \in [Users -> 0 .. MaxGen] /\ gen \in [Users -> 0 .. MaxGen]
        /\ \A u \in Users : table[u] <= gen[u]
        /\ gen' \in [Users -> 0 .. MaxGen]
        /\ \A u \in Users : table'[u] <= gen'[u] /\ gen[u] <= gen'[u]
        /\ \A o \in Objects : o[1] \in Users /\ o[2] \in 1 .. MaxGen
        /\ todo \in [{"spawn", "restarter"} -> SUBSET Objects]
        /\ todo' \in [{"spawn", "restarter"} -> SUBSET Objects]
        /\ MaxGen \in Nat
    BY TableStep, ObjectPairs DEF LifecycleInv, TypeOK, PlanType
  <1>1. /\ \A t \in Tasks : mine[t] \in Objects => Made(mine[t])
        /\ \A t \in {"spawn", "restarter"} : \A o \in todo[t] : Made(o)
        /\ \A o \in Objects : proc[o] # "none" => Made(o)
    BY DEF LifecycleInv, FreshInv
  <1>2. /\ \A o \in Objects : Made(o) => Made(o)'
        /\ \A o \in Objects : InTable(o) => Made(o)'
        /\ \A o \in Objects : InTable(o)' => Made(o)'
    BY <1>0 DEF Made, InTable
  <1>3. \A t \in Tasks : mine'[t] \in Objects => Made(mine[t])'
    <2>1. ASSUME NEW t \in Tasks, mine'[t] \in Objects
          PROVE  Made(mine[t])'
      <3>0. PICK o \in Objects : o = mine'[t]
        BY <2>1
      <3>1. mine'[t] = mine[t] \/ Known(o) \/ (t \in Requests /\ Creates(t))
        BY <2>1, <3>0, TaskStep DEF TaskMoves
      <3>2. CASE mine'[t] = mine[t]
        <4>1. Made(o)'
          BY <1>1, <1>2, <3>0, <3>2
        <4> QED
          BY <3>0, <4>1 DEF Made
      <3>3. CASE Known(o)
        <4>1. InTable(o) \/ Made(o)
          BY <1>1, <3>0, <3>3 DEF Known
        <4>2. Made(o)'
          BY <1>2, <4>1
        <4> QED
          BY <3>0, <4>2 DEF Made
      <3>4. CASE t \in Requests /\ Creates(t)
        <4>1. /\ want[t] \in Users /\ gen' = [gen EXCEPT ![want[t]] = @ + 1]
              /\ mine' = [mine EXCEPT ![t] = <<want[t], gen[want[t]] + 1>>]
          BY <3>4 DEF Creates, Create
        <4>2. o = <<want[t], gen[want[t]] + 1>> /\ gen'[want[t]] = gen[want[t]] + 1
          BY <1>0, <3>0, <4>1 DEF LifecycleInv, TypeOK
        <4> QED
          BY <1>0, <3>0, <4>1, <4>2 DEF Made
      <3> QED
        BY <3>1, <3>2, <3>3, <3>4
    <2> QED
      BY <2>1
  <1>4. \A t \in {"spawn", "restarter"} : \A o \in todo'[t] : Made(o)'
    BY <1>0, <1>1, <1>2, TodoStep
  <1>5. \A o \in Objects : proc'[o] # "none" => Made(o)'
    <2>1. ASSUME NEW o \in Objects, proc'[o] # "none"
          PROVE  Made(o)
      <3>1. ProcMoves(o)
        BY ProcStep
      <3>2. proc[o] # "none" \/ \E t \in Tasks : mine[t] = o
        BY <2>1, <3>1 DEF ProcMoves, Goes
      <3> QED
        BY <1>1, <3>2
    <2> QED
      BY <1>2, <2>1
  <1> QED
    BY <1>3, <1>4, <1>5 DEF FreshInv

\* While a request creates an object, it holds the manager's lock, so the object
\* stays its own and the table stays without an entry for the user.
LEMMA ColdStep ==
  ASSUME LifecycleInv, [Next]_vars, PlanType', PlaceInv'
  PROVE  ColdInv'
  <1>0. /\ table \in [Users -> 0 .. MaxGen] /\ gen \in [Users -> 0 .. MaxGen]
        /\ \A u \in Users : table[u] <= gen[u]
        /\ mine \in [Tasks -> Objects \cup {NoObject}]
        /\ todo \in [{"spawn", "restarter"} -> SUBSET Objects]
        /\ todo' \in [{"spawn", "restarter"} -> SUBSET Objects]
        /\ pc \in [Tasks -> Places] /\ pc' \in [Tasks -> Places]
        /\ Requests \subseteq Tasks /\ "spawn" \notin Requests
    BY TaskNames DEF LifecycleInv, TypeOK, PlanType
  <1>1. SUFFICES ASSUME NEW r \in Tasks, pc'[r] \in Cold
                 PROVE  /\ r \in Requests
                        /\ ~InTable(mine[r])'
                        /\ mine'[r] \notin todo'["spawn"] \cup todo'["restarter"]
                        /\ \A t \in Tasks \ {r} : mine'[t] # mine'[r]
                        /\ want'[r] \notin dropped' => table'[want'[r]] = 0
                        /\ pc'[r] = "cold_boot" => proc'[mine'[r]] # "none"
    BY DEF ColdInv
  <1>2. CASE r \in Requests /\ Creates(r)
    <2> DEFINE u == want[r]
               o == <<u, gen[u] + 1>>
    <2>1. /\ u \in Users /\ gen[u] < MaxGen /\ want' = want /\ todo' = todo
          /\ mine' = [mine EXCEPT ![r] = o] /\ pc' = [pc EXCEPT ![r] = "cold_exec"]
          /\ \/ table[u] = 0 /\ table' = table /\ dropped' = dropped
             \/ Drop(u)
      BY <1>2 DEF Creates, Create, Goto
    <2>2. o \in Objects /\ o[1] = u /\ o[2] = gen[u] + 1 /\ o[2] # 0
      BY <1>0, <2>1, ObjectPairs
    <2>3. ~Made(o)
      BY <1>0, <2>1, <2>2 DEF Made
    <2> HIDE DEF o
    <2>4. /\ \A t \in Tasks : mine[t] # o
          /\ o \notin todo["spawn"] \cup todo["restarter"]
      BY <2>2, <2>3 DEF LifecycleInv, FreshInv
    <2>5. table'[u] = 0
      BY <1>0, <2>1 DEF Drop
    <2>6. mine'[r] = o /\ pc'[r] = "cold_exec" /\ \A t \in Tasks \ {r} : mine'[t] = mine[t]
      BY <1>0, <2>1
    <2>7. ~InTable(mine[r])'
      BY <2>2, <2>5, <2>6 DEF InTable
    <2> QED
      BY <1>2, <2>1, <2>4, <2>5, <2>6, <2>7
  <1>3. CASE r \in Requests /\ pc[r] \in Cold /\ mine'[r] = mine[r] /\ want'[r] = want[r]
    <2>0. PICK o : o = mine[r]
      OBVIOUS
    <2>1. /\ ~InTable(o) /\ o \notin todo["spawn"] \cup todo["restarter"]
          /\ \A t \in Tasks \ {r} : mine[t] # o
          /\ want[r] \notin dropped => table[want[r]] = 0
          /\ pc[r] = "cold_boot" => proc[o] # "none"
      BY <1>3, <2>0 DEF LifecycleInv, ColdInv
    <2>2. o \in Objects /\ o[1] \in Users /\ o[2] # 0 /\ want[r] = o[1]
      BY <1>3, <2>0, ObjectPairs DEF LifecycleInv, PlaceInv, Cold
    <2>3. \A t : MHolds(t) => t = r
      BY <1>3, DecideApart DEF Deciding
    <2>4. table'[o[1]] \in {table[o[1]], 0}
      BY <1>0, <1>1, <1>3, <2>2, <2>3, TableStep
    <2>5. ~InTable(o)'
      BY <2>1, <2>2, <2>4 DEF InTable
    <2>6. o \notin todo'["spawn"] \cup todo'["restarter"]
      BY <1>3, <1>0, <2>1, <2>3, TodoStep
    <2>7. ASSUME NEW t \in Tasks \ {r}
          PROVE  mine'[t] # o
      <3>1. ~Known(o)
        BY <1>3, <2>0, <2>1 DEF Known, Cold
      <3>2. ~Creates(t)
        BY <2>3 DEF Creates
      <3>3. mine'[t] \in Objects => mine'[t] = mine[t] \/ Known(mine'[t])
        BY <3>2, TaskStep DEF TaskMoves
      <3> QED
        BY <2>1, <2>2, <3>1, <3>3
    <2>8. want'[r] \notin dropped' => table'[want'[r]] = 0
      BY <1>3, <2>1, <2>2, <2>4, TableStep
    <2>9. pc'[r] = "cold_boot" => proc'[o] # "none"
      <3>1. ASSUME pc[r] = "cold_boot"
            PROVE  proc'[o] # "none"
        <4>1. \A t \in Tasks : ~Goes(t, o, "stop", "exec")
          BY <2>1, <3>1 DEF Goes
        <4>2. ProcMoves(o)
          BY <2>2, ProcStep
        <4> QED
          BY <2>1, <3>1, <4>1, <4>2 DEF ProcMoves
      <3>2. TaskMoves(r)
        BY TaskStep
      <3>3. pc'[r] = "cold_boot" => pc[r] = "cold_boot" \/ proc'[o] = "booting"
        BY <1>3, <2>0, <3>2 DEF TaskMoves, Goes
      <3> QED
        BY <3>1, <3>3
    <2>10. mine'[r] = o /\ (InTable(mine[r])' <=> InTable(o)')
      BY <1>3, <2>0 DEF InTable
    <2> QED
      BY <1>3, <2>5, <2>6, <2>7, <2>8, <2>9, <2>10
  <1> QED
    BY <1>1, <1>2, <1>3, TaskStep DEF TaskMoves

\* An entry of a user nobody dropped stays, and so everybody stays with it.
LEMMA KeptStep ==
  ASSUME LifecycleInv, [Next]_vars, PlanType', PlaceInv'
  PROVE  KeptInv'
  <1>0. /\ table \in [Users -> 0 .. MaxGen]
        /\ \A o \in Objects : o[1] \in Users /\ o[2] # 0
        /\ mine \in [Tasks -> Objects \cup {NoObject}]
        /\ todo' \in [{"spawn", "restarter"} -> SUBSET Objects]
        /\ dropped \subseteq dropped'
        /\ "idle" \notin Cold \cup {"failed"} /\ NoObject \notin Objects
    BY TableStep, ObjectPairs DEF LifecycleInv, TypeOK, PlanType, Cold
  <1>1. /\ \A t \in Tasks :
             mine[t] \in Objects /\ mine[t][1] \notin dropped
               => InTable(mine[t]) \/ pc[t] \in Cold \cup {"failed"}
        /\ \A t \in {"spawn", "restarter"} : \A o \in todo[t] :
             o[1] \notin dropped => InTable(o)
        /\ \A o \in Objects :
             o[1] \notin dropped /\ proc[o] \in {"booting", "up"}
               => InTable(o) \/ \E r \in Tasks : pc[r] = "cold_boot" /\ mine[r] = o
    BY DEF LifecycleInv, KeptInv
  <1>2. ASSUME NEW o \in Objects, InTable(o), o[1] \notin dropped'
        PROVE  InTable(o)'
    BY <1>0, <1>2, TableStep DEF InTable
  <1>3. ASSUME NEW t \in Tasks, mine'[t] \in Objects, mine'[t][1] \notin dropped'
        PROVE  InTable(mine[t])' \/ pc'[t] \in Cold \cup {"failed"}
    <2>0. PICK o \in Objects : o = mine'[t]
      BY <1>3
    <2>1. /\ o[1] \notin dropped' /\ o[1] \notin dropped
          /\ InTable(mine[t])' <=> InTable(o)'
      BY <1>0, <1>3, <2>0 DEF InTable
    <2>2. TaskMoves(t)
      BY TaskStep
    <2>3. CASE mine[t] = o /\ pc[t] \in Cold \cup {"failed"}
      BY <2>2, <2>3 DEF TaskMoves
    <2>4. CASE mine[t] = o /\ pc[t] \notin Cold \cup {"failed"}
      BY <1>1, <1>2, <2>1, <2>4
    <2>5. CASE Known(o)
      <3>1. InTable(o)
        BY <1>1, <2>1, <2>5 DEF Known, Cold
      <3> QED
        BY <1>2, <2>1, <3>1
    <2>6. CASE t \in Requests /\ Creates(t)
      BY <2>6, TaskNames DEF Creates, Create, Goto, Cold, LifecycleInv, TypeOK
    <2> QED
      BY <1>3, <2>0, <2>2, <2>3, <2>4, <2>5, <2>6 DEF TaskMoves
  <1>4. ASSUME NEW t \in {"spawn", "restarter"}, NEW o \in todo'[t], o[1] \notin dropped'
        PROVE  InTable(o)'
    <2>1. o \in Objects /\ o[1] \notin dropped
      BY <1>0, <1>4
    <2>2. InTable(o) \/ InTable(o)'
      BY <1>1, <2>1, TodoStep
    <2> QED
      BY <1>2, <1>4, <2>1, <2>2
  <1>5. ASSUME NEW o \in Objects, o[1] \notin dropped', proc'[o] \in {"booting", "up"}
        PROVE  InTable(o)' \/ \E r \in Tasks : pc'[r] = "cold_boot" /\ mine'[r] = o
    <2>1. o[1] \notin dropped /\ ProcMoves(o)
      BY <1>0, <1>5, ProcStep
    <2>2. CASE proc[o] \in {"booting", "up"}
      <3>1. CASE InTable(o)
        BY <1>2, <1>5, <3>1
      <3>2. ASSUME NEW r \in Tasks, pc[r] = "cold_boot", mine[r] = o
            PROVE  InTable(o)' \/ (pc'[r] = "cold_boot" /\ mine'[r] = o)
        <4>1. TaskMoves(r) /\ mine'[r] = mine[r]
          BY <3>2, TaskStep DEF TaskMoves, Cold
        <4>2. InTable(mine[r])' <=> InTable(o)'
          BY <3>2, <4>1 DEF InTable
        <4> QED
          BY <1>5, <3>2, <4>1, <4>2 DEF TaskMoves, Goes
      <3> QED
        BY <1>1, <2>1, <2>2, <3>1, <3>2
    <2>3. ASSUME NEW t \in Tasks, Goes(t, o, "exec", "boot")
          PROVE  InTable(o)'
      <3>1. InTable(o)
        BY <1>1, <2>1, <2>3 DEF Goes, Cold
      <3> QED
        BY <1>2, <1>5, <3>1
    <2>4. ASSUME NEW t \in Tasks, Goes(t, o, "cold_exec", "cold_boot")
          PROVE  pc'[t] = "cold_boot" /\ mine'[t] = o
      BY <2>4 DEF Goes
    <2> QED
      BY <1>5, <2>1, <2>2, <2>3, <2>4 DEF ProcMoves
  <1> QED
    BY <1>3, <1>4, <1>5 DEF KeptInv

\* Only a restart sets self.proc to None, and it holds the object's lock.
LEMMA BootStep ==
  ASSUME LifecycleInv, [Next]_vars, PlanType', PlaceInv'
  PROVE  BootInv'
  <1>1. SUFFICES ASSUME NEW t \in Tasks, pc'[t] = "boot"
                 PROVE  proc'[mine'[t]] # "none"
    BY DEF BootInv
  <1>2. TaskMoves(t)
    BY TaskStep
  <1>3. CASE Goes(t, mine[t], "boot", "boot")
    <2>1. PICK o : o = mine[t] /\ o = mine'[t] /\ pc[t] = "boot"
      BY <1>3 DEF Goes
    <2>2. o \in Objects /\ proc[o] # "none"
      BY <2>1 DEF LifecycleInv, PlaceInv, BootInv
    <2>3. \A s \in Tasks : ~Goes(s, o, "stop", "exec")
      BY <2>1, WorkApart DEF Goes, Working
    <2>4. ProcMoves(o)
      BY <2>2, ProcStep
    <2> QED
      BY <2>1, <2>2, <2>3, <2>4 DEF ProcMoves
  <1> QED
    BY <1>1, <1>2, <1>3 DEF TaskMoves

\* Whoever takes the process away, or registers an object without one, goes on to
\* start one before it gives the lock back, or finds that it cannot.
LEMMA PlaceholderStep ==
  ASSUME LifecycleInv, [Next]_vars, PlanType', PlaceInv', LockInv'
  PROVE  PlaceholderLocked'
  <1>0. "spawn" \in Tasks /\ "spawn" \in {"spawn", "restarter"}
        /\ "operator" \in Tasks /\ "force" \in Tasks
    BY TaskNames
  <1>1. SUFFICES ASSUME NEW o \in Objects, InTable(o)', proc'[o] \in {"none", "booting"}
                 PROVE  \/ \E t \in Tasks : Starts(t, o)'
                        \/ proc'[o] = "none" /\ AbortedAt(o)'
    <2>1. ASSUME NEW o \in Objects, NEW t \in Tasks, Starts(t, o)'
          PROVE  lockq'[o] # <<>> /\ Head(lockq'[o]) = t
      BY <2>1 DEF LockInv, Starts, Holds, Working
    <2> QED
      BY <1>1, <2>1 DEF PlaceholderLocked
  <1>2. ProcMoves(o) /\ \A t \in Tasks : TaskMoves(t)
    BY ProcStep, TaskStep
  <1>3. ASSUME NEW t \in Tasks, Starts(t, o)
        PROVE  Starts(t, o)' \/ (proc'[o] = "none" /\ AbortedAt(o)')
    <2>1. CASE t = "spawn" /\ o \in todo["spawn"]
      BY <1>0, <2>1, TodoStep DEF Starts
    <2>2. CASE mine[t] = o /\ pc[t] = "exec"
      <3>1. table'[mine[t][1]] = mine[t][2]
        BY <1>1, <2>2 DEF InTable
      <3> QED
        BY <1>1, <1>2, <2>2, <3>1 DEF TaskMoves, Goes, Starts, AbortedAt
    <2>3. CASE mine[t] = o /\ pc[t] = "boot"
      BY <1>1, <1>2, <2>3 DEF TaskMoves, Goes, Starts
    <2> QED
      BY <1>3, <2>1, <2>2, <2>3 DEF Starts
  <1>4. AbortedAt(o) => AbortedAt(o)'
    BY <1>0, <1>2 DEF AbortedAt, TaskMoves, Goes
  <1>5. CASE ~InTable(o)
    BY <1>0, <1>1, <1>5, NewEntries DEF Starts
  <1>6. ASSUME InTable(o), proc'[o] = "booting", proc[o] # "booting"
        PROVE  \E t \in Tasks : Starts(t, o)'
    <2>1. \A t \in Tasks : ~Goes(t, o, "cold_exec", "cold_boot")
      BY <1>6 DEF Goes, Cold, LifecycleInv, ColdInv
    <2> QED
      BY <1>2, <1>6, <2>1 DEF ProcMoves, Goes, Starts
  <1>7. CASE InTable(o) /\ proc[o] \in {"none", "booting"}
    <2>1. (\E t \in Tasks : Starts(t, o)) \/ (proc[o] = "none" /\ AbortedAt(o))
      BY <1>7 DEF LifecycleInv, PlaceholderLocked
    <2> QED
      BY <1>1, <1>3, <1>4, <1>6, <1>7, <2>1
  <1>8. CASE InTable(o) /\ proc[o] \notin {"none", "booting"}
    BY <1>1, <1>2, <1>6, <1>8 DEF ProcMoves, Goes, Starts
  <1> QED
    BY <1>5, <1>7, <1>8

\* A process that comes up is handed to a prewarm by the task that started it.
LEMMA WarmStep ==
  ASSUME LifecycleInv, [Next]_vars, PlanType', PlaceInv', LockInv'
  PROVE  WarmInv'
  <1>1. SUFFICES ASSUME NEW o \in Objects, proc'[o] = "up", warm'[o] = "no"
                 PROVE  \E t \in Tasks : mine'[t] = o /\ pc'[t] = "prewarm"
    <2>1. ASSUME NEW t \in Tasks, pc'[t] = "prewarm"
          PROVE  lockq'[mine'[t]] # <<>> /\ Head(lockq'[mine'[t]]) = t
      BY <2>1 DEF LockInv, Holds, Working
    <2> QED
      BY <1>1, <2>1 DEF WarmInv
  <1>2. ProcMoves(o) /\ \A t \in Tasks : TaskMoves(t)
    BY ProcStep, TaskStep
  <1>3. CASE proc[o] = "up" /\ warm[o] = "no"
    <2>1. PICK t \in Tasks : mine[t] = o /\ pc[t] = "prewarm"
      BY <1>3 DEF LifecycleInv, WarmInv
    <2> QED
      BY <1>1, <1>2, <2>1 DEF TaskMoves, Goes
  <1> QED
    BY <1>1, <1>2, <1>3 DEF ProcMoves, Goes

-----------------------------------------------------------------------------
(* The theorems.                                                           *)

\* The service starts with every lock free and a warm process in each entry.
LEMMA InitInv ==
  ASSUME Init
  PROVE  LifecycleInv
  <1>0. /\ mlockq = <<>> /\ gen = table /\ dropped = {}
        /\ pc = [t \in Tasks |-> "idle"] /\ mine = [t \in Tasks |-> NoObject]
        /\ todo = [t \in {"spawn", "restarter"} |-> {}]
        /\ lockq = [o \in Objects |-> <<>>]
        /\ proc = [o \in Objects |-> IF InTable(o) THEN "up" ELSE "none"]
        /\ warm = [o \in Objects |-> IF InTable(o) THEN "yes" ELSE "no"]
        /\ table \in [Users -> {0, 1}]
    BY DEF Init
  <1>1. MaxGen \in Nat /\ MaxGen >= 1 /\ MaxFails \in Nat /\ MaxCrashes \in Nat
    BY LifecycleAssumption DEF MaxGen
  <1>2. TypeOK
    <2>1. table \in [Users -> 0 .. MaxGen] /\ gen \in [Users -> 0 .. MaxGen]
          /\ \A u \in Users : table[u] <= gen[u]
      BY <1>0, <1>1
    <2>2. /\ proc \in [Objects -> {"none", "booting", "up", "dying", "dead"}]
          /\ warm \in [Objects -> {"no", "skipped", "yes"}]
      BY <1>0
    <2>3. /\ lockq \in [Objects -> Seq(Tasks)] /\ \A o \in Objects : IsInjective(lockq[o])
          /\ mlockq \in Seq(Requests \cup {"spawn"}) /\ IsInjective(mlockq)
      BY <1>0 DEF IsInjective
    <2>4. /\ pc \in [Tasks -> Places] /\ want \in [Requests -> Users \cup {"none"}]
          /\ mine \in [Tasks -> Objects \cup {NoObject}]
          /\ todo \in [{"spawn", "restarter"} -> SUBSET Objects]
          /\ retiring \in [Objects -> {"no", "begun", "killed", "done"}]
      BY <1>0 DEF Init, Places
    <2>5. fails \in 0 .. MaxFails /\ crashes \in 0 .. MaxCrashes
          /\ dropped \in SUBSET Users
      BY <1>1 DEF Init
    <2> QED
      BY <2>1, <2>2, <2>3, <2>4, <2>5 DEF TypeOK
  <1>3. PlaceInv /\ BootInv
    BY <1>0, TaskNames, ObjectPairs DEF PlaceInv, BootInv
  <1>4. MLockInv
    BY <1>0, TaskNames DEF MLockInv, In, Deciding, Cold
  <1>5. LockInv
    BY <1>0, TaskNames DEF LockInv, In, Working
  <1>6. FreshInv
    BY <1>0, ObjectPairs DEF FreshInv, Made, InTable
  <1>7. ColdInv
    BY <1>0 DEF ColdInv, Cold
  <1>8. KeptInv
    BY <1>0, ObjectPairs DEF KeptInv
  <1>9. PlaceholderLocked /\ WarmInv
    BY <1>0 DEF PlaceholderLocked, WarmInv
  <1> QED
    BY <1>2, <1>3, <1>4, <1>5, <1>6, <1>7, <1>8, <1>9 DEF LifecycleInv

\* Every step keeps the invariant.
LEMMA StepInv ==
  ASSUME LifecycleInv, [Next]_vars
  PROVE  LifecycleInv'
  <1>1. (PlanType /\ PlaceInv)'
    <2>1. CASE \E r \in Requests : Ask(r) \/ Request(r)
      BY <2>1, RequestPlaces
    <2>2. CASE \E t \in Tasks : Work(t)
      BY <2>2, WorkPlaces
    <2> QED
      BY <2>1, <2>2, ActorPlaces
  <1>2. /\ mlockq' \in Seq(Requests \cup {"spawn"}) /\ IsInjective(mlockq')
        /\ MLockInv'
    BY <1>1, MLockStep
  <1>3. /\ lockq' \in [Objects -> Seq(Tasks)]
        /\ \A o \in Objects : IsInjective(lockq'[o])
        /\ LockInv'
    BY <1>1, LockStep
  <1>4. TypeOK'
    BY <1>1, <1>2, <1>3, TableStep, ProcStep DEF TypeOK, PlanType, ProcType
  <1>5. FreshInv' /\ ColdInv' /\ KeptInv' /\ BootInv'
    BY <1>1, FreshStep, ColdStep, KeptStep, BootStep
  <1>6. PlaceholderLocked' /\ WarmInv'
    BY <1>1, <1>3, PlaceholderStep, WarmStep
  <1> QED
    BY <1>1, <1>2, <1>3, <1>4, <1>5, <1>6 DEF LifecycleInv

\* So it always holds.
LEMMA Invariance == Spec => []LifecycleInv
  <1>1. Init => LifecycleInv
    BY InitInv
  <1>2. LifecycleInv /\ [Next]_vars => LifecycleInv'
    BY StepInv
  <1> QED
    BY <1>1, <1>2, PTL DEF Spec

\* The state always has its type, for any number of users, requests, failures and
\* deaths: in particular no task ever waits for a lock it is already waiting for
\* or holds (an asyncio.Lock is not reentrant).
THEOREM TypeCorrect == Spec => []TypeOK
  <1>1. LifecycleInv => TypeOK
    BY DEF LifecycleInv
  <1> QED
    BY <1>1, Invariance, PTL

\* A session in the table without a ready process is locked by the task that starts
\* it, whatever spawn_account, the restarter, the operator, the forced restart,
\* stop_account and any number of requests do at the same time, and wherever their
\* starts fail; except one the operator's or the forced restart could not exec.
THEOREM PlaceholdersLocked == Spec => []PlaceholderLocked
  <1>1. LifecycleInv => PlaceholderLocked
    BY DEF LifecycleInv
  <1> QED
    BY <1>1, Invariance, PTL

\* A user whose session nobody dropped has one process at most: what no lock
\* alone shows, since creating and reviving take different ones.
THEOREM OneWorkerEach == Spec => []OneWorker
  <1>1. ASSUME LifecycleInv
        PROVE  OneWorker
    <2>1. SUFFICES ASSUME NEW u \in Users, u \notin dropped,
                          NEW o \in Objects, NEW q \in Objects, o[1] = u, q[1] = u,
                          proc[o] \in {"booting", "up"}, proc[q] \in {"booting", "up"}
                   PROVE  o = q
      BY DEF OneWorker
    <2>2. \A p \in {o, q} : InTable(p) \/ \E r \in Tasks : pc[r] = "cold_boot" /\ mine[r] = p
      BY <1>1, <2>1 DEF LifecycleInv, KeptInv
    <2>3. ASSUME NEW r \in Tasks, pc[r] = "cold_boot", mine[r] \in Objects,
                 mine[r][1] = u
          PROVE  r \in Requests /\ table[u] = 0
      BY <1>1, <2>1, <2>3 DEF LifecycleInv, ColdInv, PlaceInv, Cold
    <2>4. ASSUME NEW r \in Requests, NEW s \in Requests,
                 pc[r] = "cold_boot", pc[s] = "cold_boot"
          PROVE  r = s
      BY <1>1, <2>4 DEF LifecycleInv, MLockInv, MHolds, Deciding, Cold
    <2>5. /\ o[2] # 0 /\ q[2] # 0 /\ o = <<o[1], o[2]>> /\ q = <<q[1], q[2]>>
      BY ObjectPairs
    <2> QED
      BY <2>1, <2>2, <2>3, <2>4, <2>5 DEF InTable
  <1> QED
    BY <1>1, Invariance, PTL

\* No request is ever the first to use a fresh CLI, unless a forced restart
\* skipped the prewarm: a worker that answers and has had none is locked.
THEOREM WarmBeforeServed == Spec => WarmFirst
  <1>1. ASSUME LifecycleInv, [Next]_vars, NEW r \in Requests,
               pc[r] # "served", pc'[r] = "served"
        PROVE  warm[mine[r]] # "no"
    <2>1. r \in Tasks /\ pc[r] = "queued" /\ Holds(r) /\ proc[mine[r]] = "up"
      BY <1>1, TaskStep, TaskNames DEF TaskMoves
    <2>2. mine[r] \in Objects
      BY <1>1, <2>1 DEF LifecycleInv, PlaceInv
    <2> QED
      BY <1>1, <2>1, <2>2 DEF LifecycleInv, WarmInv, Holds
  <1>2. LifecycleInv /\ [Next]_vars =>
          [\A r \in Requests :
             pc[r] # "served" /\ pc'[r] = "served" => warm[mine[r]] # "no"]_vars
    BY <1>1
  <1> QED
    BY <1>2, Invariance, PTL DEF Spec, WarmFirst
=============================================================================
