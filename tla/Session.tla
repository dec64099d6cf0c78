------------------------------- MODULE Session -------------------------------
(***************************************************************************)
(* One ClaudeSession (src/src/session/session.py): the asyncio lock, the   *)
(* table of response channels, the reader task and the worker subprocess,  *)
(* driven by every task that touches them: callers, the keepalive          *)
(* self-test, the forced restart, the restarts of the manager and the      *)
(* admin API, the /usage probe and stop_account (session/manager.py,       *)
(* api/admin.py).                                                          *)
(*                                                                         *)
(* An action is one stretch of a task between two awaits.  The asyncio     *)
(* lock is its FIFO queue: the head holds it.  The pipe to the worker is   *)
(* folded into the worker's steps, because one reader drains it in order.  *)
(***************************************************************************)
EXTENDS Naturals, Sequences

CONSTANTS
  Callers,    (* calls of ClaudeSession.call, one each                     *)
  Ops,        (* scheduled, operator and revive restarts, one each         *)
  THRESHOLD,  (* _FORCE_RESTART_THRESHOLD                                  *)
  Faults      (* which of FaultKinds may happen                            *)

\* crash: the worker dies; late_reap: its exit status is seen after its EOF;
\* reader: the read loop raises; start: a spawn fails or is not ready in time;
\* bad_line: a spawn fails after a wrong first line; retire: stop_account runs.
FaultKinds == {"crash", "late_reap", "reader", "start", "bad_line", "retire"}

ASSUME SessionAssumption ==
  /\ THRESHOLD \in Nat \ {0}
  /\ Faults \subseteq FaultKinds
  /\ Callers \cap Ops = {}
  /\ {"keepalive", "force", "probe", "retire"} \cap (Callers \cup Ops) = {}

VARIABLES
  lockq,       \* the lock: holder first, then its waiters in order
  pc,          \* where each task is
  proc,        \* self.proc, as returncode shows it
  reader,      \* a reader task is attached to self.proc
  registered,  \* the channels in self._channels
  owed,        \* requests the current process took and has not ended
  chan,        \* what was put on each channel
  failures,    \* consecutive_intercept_failures, up to the threshold
  forcing      \* _force_restart_in_progress

vars == <<lockq, pc, proc, reader, registered, owed, chan, failures, forcing>>

Restarters == Ops \cup {"force"}
Tasks == Callers \cup Restarters \cup {"keepalive", "probe", "retire"}
\* Tasks that open a channel: calls, keepalive pings, prewarms.
Channels == Callers \cup Ops \cup {"keepalive"}

NewChannel == [data |-> FALSE, nulls |-> 0, by |-> "none"]

Channel == [data : BOOLEAN, nulls : 0 .. 1, by : {"none", "worker", "flush"}]
Places == {"idle", "new", "lock", "waiting", "streaming", "drain", "stopping",
           "replaced", "starting", "prewarm", "holding", "sleep", "off",
           "failed", "done"}

TypeOK ==
  /\ lockq \in Seq(Tasks)
  /\ pc \in [Tasks -> Places]
  /\ proc \in {"starting", "up", "exited", "reaped"}
  /\ reader \in BOOLEAN
  /\ registered \in SUBSET Channels
  /\ owed \in SUBSET Channels
  /\ chan \in [Channels -> Channel]
  /\ failures \in 0 .. THRESHOLD
  /\ forcing \in BOOLEAN

Holds(t) == lockq # <<>> /\ Head(lockq) = t
\* The queue q after task t left it (a cancelled or timed-out acquire, or the
\* release by a cancelled holder).
Without(q, t) ==
  IF \E i \in DOMAIN q : q[i] = t
  THEN LET i == CHOOSE i \in DOMAIN q : q[i] = t
       IN [j \in 1 .. Len(q) - 1 |-> IF j < i THEN q[j] ELSE q[j + 1]]
  ELSE q
Alive == proc \in {"starting", "up", "exited"}   \* returncode is None

\* The channels after None is put on every registered one.
Flushed ==
  [c \in Channels |-> IF c \in registered
                      THEN [data |-> chan[c].data, nulls |-> chan[c].nulls + 1,
                            by |-> "flush"]
                      ELSE chan[c]]

-----------------------------------------------------------------------------
\* The state after start(): the worker said ready.
Init ==
  /\ lockq = <<>>
  /\ pc = [t \in Tasks |-> IF t = "keepalive" THEN "sleep" ELSE "idle"]
  /\ proc = "up"
  /\ reader = TRUE
  /\ registered = {}
  /\ owed = {}
  /\ chan = [c \in Channels |-> NewChannel]
  /\ failures = 0
  /\ forcing = FALSE

\* A task queues for the lock.
Queue(t, from) ==
  /\ pc[t] = from
  /\ pc' = [pc EXCEPT ![t] = "lock"]
  /\ lockq' = Append(lockq, t)
  /\ UNCHANGED <<proc, reader, registered, owed, chan, failures, forcing>>

(***************************************************************************)
(* _submit: the channel is registered before the line is written.          *)
(***************************************************************************)
Refused(c) ==
  /\ ~Alive
  /\ UNCHANGED <<registered, owed, chan>>

Registers(c) ==
  /\ registered' = registered \cup {c}
  /\ chan' = [chan EXCEPT ![c] = NewChannel]

Accepted(c) == proc = "up" /\ Registers(c) /\ owed' = owed \cup {c}

\* The process is gone but returncode does not say so yet: the line is
\* buffered, or drain() raises after the channel was registered.
Written(c) == proc = "exited" /\ Registers(c) /\ UNCHANGED owed

-----------------------------------------------------------------------------
(* Callers.                                                                *)

\* A retired session is no longer in the manager's table.
Call(c) == pc["retire"] # "done" /\ Queue(c, "idle")

\* call: submit under the lock and release it with the request written.
Submit(c) ==
  /\ pc[c] = "lock" /\ Holds(c)
  /\ lockq' = Tail(lockq)
  /\ \/ /\ Accepted(c) \/ Written(c)
        /\ pc' = [pc EXCEPT ![c] = "waiting"]
     \/ /\ Refused(c) \/ Written(c)
        /\ pc' = [pc EXCEPT ![c] = "failed"]
  /\ UNCHANGED <<proc, reader, failures, forcing>>

\* mark_request_success, at the first chunk the API handler reads
FirstByte(c) ==
  /\ pc[c] = "waiting" /\ chan[c].data
  /\ pc' = [pc EXCEPT ![c] = "streaming"]
  /\ failures' = 0
  /\ UNCHANGED <<lockq, proc, reader, registered, owed, chan, forcing>>

StreamEnd(c) ==
  /\ pc[c] = "streaming" /\ chan[c].nulls > 0
  /\ pc' = [pc EXCEPT ![c] = "done"]
  /\ UNCHANGED <<lockq, proc, reader, registered, owed, chan, failures, forcing>>

\* mark_intercept_failure; t moves on to next.
CountFailure(t, next) ==
  LET n == IF failures < THRESHOLD THEN failures + 1 ELSE failures
      force == n >= THRESHOLD /\ ~forcing
  IN /\ failures' = n
     /\ forcing' = (forcing \/ force)
     /\ pc' = [pc EXCEPT ![t] = next, !["force"] = IF force THEN "new" ELSE @]

\* The channel closed with no byte: the handler counts an intercept failure.
EmptyReply(c) ==
  /\ pc[c] = "waiting" /\ ~chan[c].data /\ chan[c].nulls > 0
  /\ CountFailure(c, "done")
  /\ UNCHANGED <<lockq, proc, reader, registered, owed, chan>>

-----------------------------------------------------------------------------
(* The worker process and the read loop.                                   *)

\* Mutant: a chunk that comes after the end is put on the channel all the same.
ChunkLate(c) ==
  /\ proc = "up" /\ reader
  /\ c \in owed \/ chan[c].by = "worker"
  /\ ~chan[c].data
  /\ chan' = [chan EXCEPT ![c].data = TRUE]
  /\ UNCHANGED <<lockq, pc, proc, reader, registered, owed, failures, forcing>>

Chunk(c) ==
  /\ proc = "up" /\ c \in owed /\ c \in registered /\ reader
  /\ ~chan[c].data
  /\ chan' = [chan EXCEPT ![c].data = TRUE]
  /\ UNCHANGED <<lockq, pc, proc, reader, registered, owed, failures, forcing>>

\* Mutant: the channel stays in the table after its end.
EndUnpopped(c) ==
  /\ proc = "up" /\ c \in owed
  /\ owed' = owed \ {c}
  /\ IF reader /\ c \in registered
     THEN chan' = [chan EXCEPT ![c].nulls = @ + 1, ![c].by = "worker"]
     ELSE UNCHANGED chan
  /\ UNCHANGED <<lockq, pc, proc, reader, registered, failures, forcing>>

\* An end or error line; with no chunk before it, an intercept timeout.
End(c) ==
  /\ proc = "up" /\ c \in owed
  /\ owed' = owed \ {c}
  /\ IF reader /\ c \in registered
     THEN /\ chan' = [chan EXCEPT ![c].nulls = @ + 1, ![c].by = "worker"]
          /\ registered' = registered \ {c}
     ELSE UNCHANGED <<chan, registered>>
  /\ UNCHANGED <<lockq, pc, proc, reader, failures, forcing>>

Crash ==
  /\ "crash" \in Faults /\ proc = "up"
  /\ proc' = "exited"
  /\ owed' = {}
  /\ UNCHANGED <<lockq, pc, reader, registered, chan, failures, forcing>>

\* The child watcher records the exit status.
Reap ==
  /\ proc = "exited"
  /\ proc' = "reaped"
  /\ UNCHANGED <<lockq, pc, reader, registered, owed, chan, failures, forcing>>

\* Mutant: the table is dropped without releasing who waits.
ReaderEndsSilently ==
  /\ reader
  /\ \/ proc = "reaped"
     \/ proc = "exited" /\ "late_reap" \in Faults
     \/ proc = "up" /\ "reader" \in Faults
  /\ reader' = FALSE
  /\ registered' = {}
  /\ UNCHANGED <<lockq, pc, proc, owed, chan, failures, forcing>>

\* The finally block of _read_loop, at EOF or after an exception.
ReaderEnds ==
  /\ reader
  /\ \/ proc = "reaped"
     \/ proc = "exited" /\ "late_reap" \in Faults
     \/ proc = "up" /\ "reader" \in Faults
  /\ reader' = FALSE
  /\ chan' = Flushed
  /\ registered' = {}
  /\ UNCHANGED <<lockq, pc, proc, owed, failures, forcing>>

-----------------------------------------------------------------------------
(* restart(), run under the lock by a forced restart or by the manager.    *)

\* Mutant: the forced restart does not wait for the lock.
StopUnlocked(t) ==
  /\ pc[t] = "lock"
  /\ pc' = [pc EXCEPT ![t] = "stopping", !["keepalive"] = "off"]
  /\ lockq' = Without(lockq, "keepalive")
  /\ proc' = IF Alive THEN "exited" ELSE proc
  /\ owed' = {}
  /\ UNCHANGED <<reader, registered, chan, failures, forcing>>

\* stop(): the keepalive task is cancelled (it leaves the lock), the process
\* is told to terminate.
StopBegin(t) ==
  /\ pc[t] = "lock" /\ Holds(t)
  /\ pc' = [pc EXCEPT ![t] = "stopping", !["keepalive"] = "off"]
  /\ lockq' = Without(lockq, "keepalive")
  /\ proc' = IF Alive THEN "exited" ELSE proc
  /\ owed' = {}
  /\ UNCHANGED <<reader, registered, chan, failures, forcing>>

\* Mutant: the table of channels outlives the worker.
StopKeepsChannels(t) ==
  /\ pc[t] = "stopping" /\ t # "retire" /\ ~Alive
  /\ reader' = FALSE
  /\ chan' = Flushed
  /\ failures' = 0
  /\ proc' = "starting"
  /\ pc' = [pc EXCEPT ![t] = "starting",
                      !["retire"] = IF @ = "stopping" THEN "replaced" ELSE @]
  /\ UNCHANGED <<lockq, registered, owed, forcing>>

\* The process is gone: cancel the reader, flush the channels, reset, spawn.
StopEnd(t) ==
  /\ pc[t] = "stopping" /\ t # "retire" /\ ~Alive
  /\ reader' = FALSE
  /\ chan' = Flushed
  /\ registered' = {}
  /\ failures' = 0
  /\ proc' = "starting"
  /\ pc' = [pc EXCEPT ![t] = "starting",
                      !["retire"] = IF @ = "stopping" THEN "replaced" ELSE @]
  /\ UNCHANGED <<lockq, owed, forcing>>

\* Mutant: the lock is given back between the restart and the prewarm.
AfterRestartUnlocked(t, ok) ==
  /\ IF t = "force" THEN forcing' = FALSE /\ failures' = 0
     ELSE UNCHANGED <<forcing, failures>>
  /\ lockq' = Tail(lockq)
  /\ pc' = [pc EXCEPT ![t] = IF t = "force" THEN "idle"
                             ELSE IF ok THEN "prewarm" ELSE "done",
                      !["keepalive"] = IF ok THEN "sleep" ELSE @]

\* Mutant: a forced restart that fails leaves its flag up.
AfterRestartFlag(t, ok) ==
  /\ IF t = "force" THEN forcing' = ~ok /\ failures' = 0
     ELSE UNCHANGED <<forcing, failures>>
  /\ lockq' = IF ok /\ t # "force" THEN lockq ELSE Tail(lockq)
  /\ pc' = [pc EXCEPT ![t] = IF t = "force" THEN "idle"
                             ELSE IF ok THEN "prewarm" ELSE "done",
                      !["keepalive"] = IF ok THEN "sleep" ELSE @]

\* Mutant: the streak is not cleared with the flag.
AfterRestartStreak(t, ok) ==
  /\ UNCHANGED failures
  /\ forcing' = (forcing /\ t # "force")
  /\ lockq' = IF ok /\ t # "force" THEN lockq ELSE Tail(lockq)
  /\ pc' = [pc EXCEPT ![t] = IF t = "force" THEN "idle"
                             ELSE IF ok THEN "prewarm" ELSE "done",
                      !["keepalive"] = IF ok THEN "sleep" ELSE @]

\* Mutant: a restart that fails keeps the lock.
AfterRestartStuck(t, ok) ==
  /\ IF t = "force" THEN forcing' = FALSE /\ failures' = 0
     ELSE UNCHANGED <<forcing, failures>>
  /\ lockq' = IF ok /\ t = "force" THEN Tail(lockq) ELSE lockq
  /\ pc' = [pc EXCEPT ![t] = IF t = "force" THEN "idle"
                             ELSE IF ok THEN "prewarm" ELSE "done",
                      !["keepalive"] = IF ok THEN "sleep" ELSE @]

\* What follows restart(): a forced restart clears its flag and the streak and
\* releases the lock, the manager keeps it for the prewarm.
AfterRestart(t, ok) ==
  /\ IF t = "force" THEN forcing' = FALSE /\ failures' = 0
     ELSE UNCHANGED <<forcing, failures>>
  /\ lockq' = IF ok /\ t # "force" THEN lockq ELSE Tail(lockq)
  /\ pc' = [pc EXCEPT ![t] = IF t = "force" THEN "idle"
                             ELSE IF ok THEN "prewarm" ELSE "done",
                      !["keepalive"] = IF ok THEN "sleep" ELSE @]

Ready(t) ==
  /\ pc[t] = "starting" /\ proc = "starting"
  /\ proc' = "up"
  /\ reader' = TRUE
  /\ AfterRestart(t, TRUE)
  /\ UNCHANGED <<registered, owed, chan>>

\* start() raises.  Before there is a process (home, exec) self.proc is None,
\* which refuses callers as "reaped" does; at EOF, or after the kill of a worker
\* that was not ready in time, nobody waits for the process, so its exit status
\* may come later; a wrong first line leaves it running.
StartFails(t) ==
  /\ pc[t] = "starting"
  /\ \/ proc # "starting" /\ proc' = proc
     \/ proc = "starting" /\ "start" \in Faults /\ proc' \in {"exited", "reaped"}
     \/ proc = "starting" /\ "bad_line" \in Faults /\ proc' = "up"
  /\ AfterRestart(t, FALSE)
  /\ UNCHANGED <<reader, registered, owed, chan>>

\* _prewarm_bootstrap: one dummy request submitted under the same lock
PrewarmSubmit(o) ==
  /\ pc[o] = "prewarm"
  /\ \/ /\ Accepted(o) \/ Written(o)
        /\ pc' = [pc EXCEPT ![o] = "drain"] /\ UNCHANGED lockq
     \/ /\ Refused(o) \/ Written(o)
        /\ pc' = [pc EXCEPT ![o] = "done"] /\ lockq' = Tail(lockq)
  /\ UNCHANGED <<proc, reader, failures, forcing>>

\* The prewarm's channel closed, or _safe_prewarm timed out and dropped it.
PrewarmEnd(o) ==
  /\ pc[o] = "drain"
  /\ pc' = [pc EXCEPT ![o] = "done"]
  /\ lockq' = Tail(lockq)
  /\ UNCHANGED <<proc, reader, registered, owed, chan, failures, forcing>>

-----------------------------------------------------------------------------
(* The keepalive loop.                                                     *)

Ping ==
  /\ Alive /\ registered = {} /\ ~forcing
  /\ Queue("keepalive", "sleep")

\* The lock was not free within 0.1 s.
PingSkipped ==
  /\ pc["keepalive"] = "lock" /\ ~Holds("keepalive")
  /\ pc' = [pc EXCEPT !["keepalive"] = "sleep"]
  /\ lockq' = Without(lockq, "keepalive")
  /\ UNCHANGED <<proc, reader, registered, owed, chan, failures, forcing>>

PingSubmit ==
  /\ pc["keepalive"] = "lock" /\ Holds("keepalive")
  /\ \/ /\ Accepted("keepalive") \/ Written("keepalive")
        /\ pc' = [pc EXCEPT !["keepalive"] = "drain"] /\ UNCHANGED lockq
     \/ /\ Refused("keepalive") \/ Written("keepalive")
        /\ pc' = [pc EXCEPT !["keepalive"] = "sleep"] /\ lockq' = Tail(lockq)
  /\ UNCHANGED <<proc, reader, failures, forcing>>

\* The ping's channel closed; the lock was held all along.
PingEnd ==
  /\ pc["keepalive"] = "drain" /\ chan["keepalive"].nulls > 0
  /\ lockq' = Tail(lockq)
  /\ IF chan["keepalive"].data
     THEN /\ failures' = 0 /\ UNCHANGED forcing
          /\ pc' = [pc EXCEPT !["keepalive"] = "sleep"]
     ELSE CountFailure("keepalive", "sleep")
  /\ UNCHANGED <<proc, reader, registered, owed, chan>>

-----------------------------------------------------------------------------
(* probe_quota_for_account: only an idle, unlocked worker, then a pause    *)
(* with the lock held.                                                     *)

ProbeBegin ==
  /\ Alive /\ registered = {} /\ lockq = <<>>
  /\ pc["probe"] = "idle"
  /\ pc' = [pc EXCEPT !["probe"] = "holding"]
  /\ lockq' = <<"probe">>
  /\ UNCHANGED <<proc, reader, registered, owed, chan, failures, forcing>>

ProbeEnd ==
  /\ pc["probe"] = "holding"
  /\ pc' = [pc EXCEPT !["probe"] = "idle"]
  /\ lockq' = Tail(lockq)
  /\ UNCHANGED <<proc, reader, registered, owed, chan, failures, forcing>>

-----------------------------------------------------------------------------
(* stop_account on this worker: wait for the lock at most drain_seconds,   *)
(* give it back, stop() without it, drop the session.                      *)

RetireBegin == "retire" \in Faults /\ Queue("retire", "idle")

RetireStop ==
  /\ pc["retire"] = "lock"
  /\ lockq' = Without(Without(lockq, "retire"), "keepalive")
  /\ \/ /\ proc' = IF Alive THEN "exited" ELSE proc
        /\ owed' = {}
        /\ pc' = [pc EXCEPT !["retire"] = "stopping", !["keepalive"] = "off"]
     \/ \* self.proc is still None while the new process is being created
        /\ proc = "starting"
        /\ UNCHANGED <<proc, owed>>
        /\ pc' = [pc EXCEPT !["retire"] = "replaced", !["keepalive"] = "off"]
  /\ UNCHANGED <<reader, registered, chan, failures, forcing>>

RetireEnd ==
  /\ \/ pc["retire"] = "stopping" /\ ~Alive
     \/ pc["retire"] = "replaced"
  /\ pc' = [pc EXCEPT !["retire"] = "done"]
  /\ reader' = FALSE
  /\ chan' = Flushed
  /\ registered' = {}
  /\ UNCHANGED <<lockq, proc, owed, failures, forcing>>

-----------------------------------------------------------------------------
Next ==
  \/ \E c \in Callers : Call(c)
  \/ \E c \in Callers : Submit(c)
  \/ \E c \in Callers : FirstByte(c)
  \/ \E c \in Callers : StreamEnd(c)
  \/ \E c \in Callers : EmptyReply(c)
  \/ \E c \in Channels : Chunk(c)
  \/ \E c \in Channels : End(c)
  \/ Crash \/ Reap \/ ReaderEnds
  \/ \E o \in Ops : Queue(o, "idle")
  \/ Queue("force", "new")
  \/ \E t \in Restarters : StopBegin(t)
  \/ \E t \in Restarters : StopEnd(t)
  \/ \E t \in Restarters : Ready(t)
  \/ \E t \in Restarters : StartFails(t)
  \/ \E o \in Ops : PrewarmSubmit(o)
  \/ \E o \in Ops : PrewarmEnd(o)
  \/ Ping \/ PingSkipped \/ PingSubmit \/ PingEnd
  \/ ProbeBegin \/ ProbeEnd
  \/ RetireBegin \/ RetireStop \/ RetireEnd

Spec == Init /\ [][Next]_vars

\* The event loop runs every task that can run; a live worker ends every
\* request (its intercept and stall timeouts); a spawn ends one way or the
\* other within worker_ready_seconds; a dead child is reaped.
Fairness ==
  /\ \A c \in Callers : WF_vars(Submit(c)) /\ WF_vars(FirstByte(c))
                        /\ WF_vars(StreamEnd(c)) /\ WF_vars(EmptyReply(c))
  /\ \A c \in Channels : WF_vars(End(c))
  /\ WF_vars(Reap) /\ WF_vars(ReaderEnds)
  /\ WF_vars(Queue("force", "new"))
  /\ \A t \in Restarters : WF_vars(StopBegin(t)) /\ WF_vars(StopEnd(t))
                           /\ WF_vars(Ready(t) \/ StartFails(t))
  /\ \A o \in Ops : WF_vars(PrewarmSubmit(o)) /\ WF_vars(PrewarmEnd(o))
  /\ WF_vars(PingSubmit) /\ WF_vars(PingEnd) /\ WF_vars(ProbeEnd)
  /\ WF_vars(RetireStop) /\ WF_vars(RetireEnd)

FairSpec == Spec /\ Fairness

\* The restarter of the manager gets to the session too.
ScheduledSpec == FairSpec /\ \A o \in Ops : WF_vars(Queue(o, "idle"))

-----------------------------------------------------------------------------
(* Properties.                                                             *)

\* A caller that still waits for bytes is in the table of channels, so that
\* whoever empties the table (reader, restart, stop) also releases it.
NoLostWaiter ==
  \A c \in Callers :
    pc[c] \in {"waiting", "streaming"} /\ chan[c].nulls = 0 => c \in registered

\* Nothing waits on a live worker for an answer that worker does not owe: no
\* channel of an earlier process survives a restart or a crash.
LiveWorkerOwes == proc = "up" /\ reader => registered \subseteq owed

\* The prewarm is the first request of a restarted worker: no caller's request
\* gets in between the restart and the dummy request (_prewarm_bootstrap).
PrewarmFirst ==
  \A o \in Ops : pc[o] = "prewarm" => registered = {} /\ owed = {}

\* Two restarts, forced or of the manager, never tear down or spawn the worker
\* at the same time.  (stop_account, which gives the lock back before stop(), may
\* tear it down beside one of them.)
OneRestart ==
  \A t, u \in Restarters :
    pc[t] \in {"stopping", "starting"} /\ pc[u] \in {"stopping", "starting"} => t = u

\* The flag that keeps a second forced restart away is up exactly while one
\* is on its way.
ForceFlag == forcing <=> pc["force"] # "idle"

\* A streak that has reached the threshold always has its forced restart on
\* the way: a stuck worker is not left alone.
StreakActedOn == failures = THRESHOLD => forcing

\* What makes these inductive.  A channel still in the table has no end yet ...
ChannelInv == \A c \in registered : chan[c].nulls = 0

\* ... whoever restarts the worker, pings it or probes it holds the lock (all
\* but stop_account, which gives it back) ...
LockInv ==
  \A t \in Tasks \ {"retire"} :
    pc[t] \in {"stopping", "starting", "prewarm", "drain", "holding"} => Holds(t)

\* ... and between two workers nobody is served.
WorkerInv ==
  \A t \in Tasks :
    /\ pc[t] = "stopping" => owed = {} /\ proc \in {"exited", "reaped"}
    /\ pc[t] = "starting" => registered = {} /\ owed = {} /\ ~reader

\* The reply of a caller, as ReplyChannels sees it.
ReplyOf(c) ==
  IF pc[c] \notin {"waiting", "streaming", "done"} THEN "none"
  ELSE IF chan[c].nulls = 0
       THEN IF chan[c].data THEN "bytes" ELSE "open"
       ELSE IF chan[c].data THEN "ended" ELSE "empty"

Replies == INSTANCE ReplyChannels WITH reply <- [c \in Callers |-> ReplyOf(c)]

\* Every reply is bytes, one end, and nothing more, whatever fails.
RepliesSafe == Replies!SafeSpec

\* A reply that waits while a read loop is attached is ended: by the worker, by
\* that loop when the worker dies, or by the restart that replaces them.  (One
\* that starts to wait when no loop is attached may not be: see RepliesEnd.)
HeardReplyEnds ==
  \A c \in Callers :
    pc[c] \in {"waiting", "streaming"} /\ reader
      ~> pc[c] \notin {"waiting", "streaming"}

\* A caller that queued for the lock gets it.
QueueServed ==
  \A c \in Callers : pc[c] = "lock" ~> pc[c] # "lock"

\* A forced restart comes to its end.
ForceEnds == forcing ~> ~forcing

-----------------------------------------------------------------------------
(* What comments and docstrings say, and the code does not do.             *)

\* "If worker died, flush every waiting channel" (_read_loop): once the worker
\* is dead and its reader gone, no channel is waiting.
DeadWorkerFlushed ==
  proc = "reaped" /\ ~reader
    /\ (\A t \in Restarters \cup {"retire"} :
          pc[t] \notin {"stopping", "replaced"})
    => \A c \in Callers : pc[c] = "waiting" => chan[c].nulls > 0

\* "... wait for it (with timeout) so a hung worker doesn't block the API request
\* indefinitely" (start): every reply ends.  The worker killed at that timeout
\* is not waited for: it still takes a request, and nobody reads its answers.
RepliesEnd == Replies!Spec

\* "Discovers stuck workers": a keepalive ping ends, good or bad.
PingReveals == pc["keepalive"] = "drain" ~> pc["keepalive"] # "drain"

\* "Called when a request closed with zero bytes received (mitm intercept
\* timeout / watchdog early close)": the failure that forces a restart is one
\* the worker reported, not a reply cut by an earlier restart.
ForcedByWorker ==
  [][~forcing /\ forcing' =>
       \E c \in Callers \cup {"keepalive"} :
         pc'[c] # pc[c] /\ chan[c].by = "worker"]_vars

\* "Drain + stop every worker belonging to an account": once stop_account is
\* through with a worker, no process of it is left running or being spawned.
RetiredIsStopped ==
  pc["retire"] = "done" => proc \notin {"starting", "up"}
=============================================================================
