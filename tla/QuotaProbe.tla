------------------------------ MODULE QuotaProbe ------------------------------
(***************************************************************************)
(* The tracker of the subscription quotas (src/src/quota_probe.py): a      *)
(* start-up walk, a periodic walk and a probe for each new account make an *)
(* idle worker ask /api/oauth/usage; the answers come back as events, and  *)
(* a 429 closes the account for a time that doubles with each further 429. *)
(* The gates are written to a file that the next start reads.              *)
(*                                                                         *)
(* A time is kept as what is left of it; one unit stands for about a       *)
(* minute, and no clock jumps.  An event is handled as soon as it is sent, *)
(* so that the two clocks of a cooldown agree.  The configuration changes  *)
(* at will (Accounts).  Out: the snapshots and the errors of the dashboard,*)
(* and the mark a full quota leaves on the account (RateLimitTable).       *)
(***************************************************************************)
EXTENDS Naturals, Sequences, SequencesExt

CONSTANTS
  Names,         \* accounts
  FLOOR,         \* MIN_REFRESH_INTERVAL_SECONDS
  TICK,          \* tick_seconds
  RetryAfters,   \* the Retry-After of a 429, the default when it has none
  MAX_BACKOFF,   \* MAX_429_BACKOFF_SECONDS
  MAX_STREAK,    \* bound: 429s in a row that are told apart
  MAX_FLIGHTS,   \* bound: answers of one account under way
  MAX_RESTARTS,  \* bound: restarts of the main process
  Silent         \* bound: accounts that never have an idle worker

Walks == {"initial", "run"}
Actors == Walks \cup Names   \* probe_now(n) runs as n

\* With this many 429s in a row every cooldown is at the cap.
ASSUME QuotaAssumption ==
  /\ {FLOOR, TICK, MAX_BACKOFF, MAX_STREAK, MAX_FLIGHTS} \subseteq Nat \ {0}
  /\ MAX_RESTARTS \in Nat
  /\ FLOOR <= TICK
  /\ IsFiniteSet(Names)
  /\ Names \cap Walks = {}
  /\ RetryAfters \subseteq 1 .. MAX_BACKOFF
  /\ \A r \in RetryAfters : r * 2 ^ (MAX_STREAK - 1) >= MAX_BACKOFF

VARIABLES
  accounts,    \* self.accounts
  cool,        \* what is left of each cooldown
  streak,      \* _consecutive_429s
  floor,       \* what is left of FLOOR since the last attempt
  soft,        \* what is left of TICK since the last success, 0 without one
  file,        \* the cooldown file
  at, idx,     \* where each walk or task is, and at which account of the list
  wait,        \* what is left of the sleep of run
  pending,     \* probes whose answer is on its way
  restarts,
  owed,        \* history: what is left of the time the 429s told of ask for
  row,         \* history: 429s told of since the last success
  unsaved      \* history: the last write of the file failed

gates == <<cool, streak, floor, soft>>
walks == <<at, idx, wait>>
history == <<owed, row, unsaved>>
vars == <<accounts, gates, file, walks, pending, restarts, history>>

Smaller(x, y) == IF x < y THEN x ELSE y
Less(x, y) == IF x > y THEN x - y ELSE 0
Zero == [n \in Names |-> 0]

Listed == ToSet(accounts)
\* config.accounts at a start.
Lists == UNION {SetToSeqs(S) : S \in SUBSET Names}
NoEntry == [until |-> 0, streak |-> 0, success |-> 0]
Blank == [n \in Names |-> NoEntry]

TypeOK ==
  /\ Listed \subseteq Names /\ IsInjective(accounts)
  /\ cool \in [Names -> 0 .. MAX_BACKOFF]
  /\ streak \in [Names -> 0 .. MAX_STREAK]
  /\ floor \in [Names -> 0 .. FLOOR]
  /\ soft \in [Names -> 0 .. TICK]
  /\ \A n \in Names : cool[n] > 0 => streak[n] > 0 /\ soft[n] = 0
  /\ file \in [Names -> [until : 0 .. MAX_BACKOFF, streak : 0 .. MAX_STREAK,
                         success : 0 .. TICK]]
  /\ at \in [Actors -> {"walk", "held", "sleep", "over"}]
  /\ idx \in [Walks -> Nat \ {0}]
  /\ wait \in 0 .. TICK
  /\ pending \in [Names -> 0 .. MAX_FLIGHTS]
  /\ restarts \in 0 .. MAX_RESTARTS

StartAt == [a \in Actors |-> CASE a = "initial" -> "walk"
                               [] a = "run" -> "sleep"
                               [] OTHER -> "over"]

Init ==
  /\ accounts \in Lists
  /\ cool = Zero /\ streak = Zero /\ floor = Zero /\ soft = Zero
  /\ file = Blank
  /\ at = StartAt
  /\ idx = [w \in Walks |-> 1]
  /\ wait = TICK
  /\ pending = Zero
  /\ restarts = 0
  /\ owed = Zero /\ row = Zero /\ unsaved = FALSE

-----------------------------------------------------------------------------
(* The cooldown file.                                                      *)

\* A cooldown comes before a success; what is over is left out.
Entry(n) ==
  IF cool'[n] > 0 THEN [until |-> cool'[n], streak |-> streak'[n], success |-> 0]
  ELSE [NoEntry EXCEPT !.success = soft'[n]]

\* _save_cooldown_state: all accounts; an error is only logged.
Save ==
  \/ /\ file' = [n \in Names |-> Entry(n)]
     /\ unsaved' = FALSE
  \/ /\ unsaved' = TRUE
     /\ UNCHANGED file

\* What blocks a prompt second probe: a cooldown, or a success by FLOOR.
FloorOf(e) ==
  IF e.until > 0 THEN FLOOR
  ELSE IF e.success = 0 THEN 0
  ELSE Less(FLOOR, TICK - e.success)

\* Mutant: the streak is not read back.
LoadForgetsStreak(saved) ==
  /\ cool' = [n \in Names |-> saved[n].until]
  /\ streak' = Zero
  /\ soft' = [n \in Names |-> saved[n].success]
  /\ floor' = [n \in Names |-> FloorOf(saved[n])]

\* _load_cooldown_state: an entry that is over is dropped, the streak in it too.
LoadCooldowns(saved) ==
  /\ cool' = [n \in Names |-> saved[n].until]
  /\ streak' = [n \in Names |-> IF saved[n].until > 0 THEN saved[n].streak ELSE 0]
  /\ soft' = [n \in Names |-> saved[n].success]
  /\ floor' = [n \in Names |-> FloorOf(saved[n])]

-----------------------------------------------------------------------------
(* The walks, and probe_now.                                               *)

Target(a) == IF a \in Names THEN a ELSE accounts[idx[a]]

Walking(a) ==
  /\ at[a] = "walk"
  /\ a \in Walks => idx[a] <= Len(accounts)

\* On to the next account: the walks go by position, whatever the list is now.
Onwards(a) ==
  \/ /\ a \in Names
     /\ at' = [at EXCEPT ![a] = "over"]
     /\ UNCHANGED idx
  \/ /\ a \in Walks
     /\ at' = [at EXCEPT ![a] = "walk"]
     /\ idx' = [idx EXCEPT ![a] = @ + 1]

Open(n) == floor[n] = 0 /\ cool[n] = 0

elsewhere == <<accounts, file, wait, restarts, history>>

\* _probe_one: too soon, or in a cooldown.
Skip(a) ==
  /\ Walking(a)
  /\ ~Open(Target(a))
  /\ Onwards(a)
  /\ UNCHANGED <<gates, pending, elsewhere>>

\* An idle worker gets the probe, and the walk waits while it holds the lock.
Send(a) ==
  /\ Walking(a)
  /\ Open(Target(a))
  /\ Target(a) \notin Silent
  /\ floor' = [floor EXCEPT ![Target(a)] = FLOOR]
  /\ pending' = [pending EXCEPT ![Target(a)] = Smaller(@ + 1, MAX_FLIGHTS)]
  /\ at' = [at EXCEPT ![a] = "held"]
  /\ UNCHANGED <<idx, cool, streak, soft, elsewhere>>

\* Mutant: what the probe raises ends the walk.
FailEndsWalk(a) ==
  /\ Walking(a)
  /\ Open(Target(a))
  /\ floor' = [floor EXCEPT ![Target(a)] = FLOOR]
  /\ at' = [at EXCEPT ![a] = "over"]
  /\ UNCHANGED <<idx, cool, streak, soft, pending, elsewhere>>

\* No worker is idle, or the probe raises.
Fail(a) ==
  /\ Walking(a)
  /\ Open(Target(a))
  /\ floor' = [floor EXCEPT ![Target(a)] = FLOOR]
  /\ Onwards(a)
  /\ UNCHANGED <<cool, streak, soft, pending, elsewhere>>

Release(a) ==
  /\ at[a] = "held"
  /\ Onwards(a)
  /\ UNCHANGED <<gates, pending, elsewhere>>

Walked(a) ==
  /\ a \in Walks
  /\ at[a] = "walk"
  /\ idx[a] > Len(accounts)
  /\ at' = [at EXCEPT ![a] = IF a = "run" THEN "sleep" ELSE "over"]
  /\ wait' = IF a = "run" THEN TICK ELSE wait
  /\ idx' = [idx EXCEPT ![a] = 1]
  /\ UNCHANGED <<accounts, gates, file, pending, restarts,
                 history>>

Wake ==
  /\ at["run"] = "sleep"
  /\ wait = 0
  /\ at' = [at EXCEPT !["run"] = "walk"]
  /\ UNCHANGED <<idx, gates, pending, elsewhere>>

-----------------------------------------------------------------------------
(* The answers, from a worker of the account.                              *)

outside == <<accounts, walks, restarts>>

\* record.
Record(n) ==
  /\ pending[n] > 0
  /\ pending' = [pending EXCEPT ![n] = @ - 1]
  /\ cool' = [cool EXCEPT ![n] = 0]
  /\ streak' = [streak EXCEPT ![n] = 0]
  /\ floor' = [floor EXCEPT ![n] = FLOOR]
  /\ soft' = [soft EXCEPT ![n] = TICK]
  /\ Save
  /\ owed' = [owed EXCEPT ![n] = 0]
  /\ row' = [row EXCEPT ![n] = 0]
  /\ UNCHANGED outside

Backoff(r, k) == Smaller(r * 2 ^ (k - 1), MAX_BACKOFF)

\* Mutant: the success before is still known.
Record429KeepsSuccess(n, r) ==
  /\ pending[n] > 0
  /\ pending' = [pending EXCEPT ![n] = @ - 1]
  /\ streak' = [streak EXCEPT ![n] = Smaller(@ + 1, MAX_STREAK)]
  /\ cool' = [cool EXCEPT ![n] = Backoff(r, streak'[n])]
  /\ floor' = [floor EXCEPT ![n] = FLOOR]
  /\ soft' = soft
  /\ Save
  /\ row' = [row EXCEPT ![n] = Smaller(@ + 1, MAX_STREAK)]
  /\ owed' = [owed EXCEPT ![n] = Backoff(r, row'[n])]
  /\ UNCHANGED outside

\* record_429: the streak counts the 429 that is being recorded.
Record429(n, r) ==
  /\ pending[n] > 0
  /\ pending' = [pending EXCEPT ![n] = @ - 1]
  /\ streak' = [streak EXCEPT ![n] = Smaller(@ + 1, MAX_STREAK)]
  /\ cool' = [cool EXCEPT ![n] = Backoff(r, streak'[n])]
  /\ floor' = [floor EXCEPT ![n] = FLOOR]
  /\ soft' = [soft EXCEPT ![n] = 0]
  /\ Save
  /\ row' = [row EXCEPT ![n] = Smaller(@ + 1, MAX_STREAK)]
  /\ owed' = [owed EXCEPT ![n] = Backoff(r, row'[n])]
  /\ UNCHANGED outside

\* Another status, a body that does not parse, a worker that is gone.
AnswerLost(n) ==
  /\ pending[n] > 0
  /\ pending' = [pending EXCEPT ![n] = @ - 1]
  /\ UNCHANGED <<gates, file, history, outside>>

\* A 429 met by a session that get_or_create made for a request: it has no
\* callback for one, and the tracker is not told.
RefusedUnheard(n) ==
  /\ pending[n] > 0
  /\ pending' = [pending EXCEPT ![n] = @ - 1]
  /\ UNCHANGED <<gates, file, history, outside>>

-----------------------------------------------------------------------------
(* Accounts that come and go.                                              *)

\* register_account and probe_now, once the finish of a login has spawned the
\* first worker.  Bound: one such probe of an account at a time.
Register(n) ==
  /\ at[n] = "over"
  /\ accounts' = IF n \in Listed THEN accounts ELSE Append(accounts, n)
  /\ at' = [at EXCEPT ![n] = "walk"]
  /\ UNCHANGED <<gates, file, idx, wait, pending, restarts, history>>

\* unregister_account, of delete_account: every gate goes.
Unregister(n) ==
  /\ \E i \in DOMAIN accounts :
       accounts[i] = n /\ accounts' = RemoveAt(accounts, i)
  /\ cool' = [cool EXCEPT ![n] = 0]
  /\ streak' = [streak EXCEPT ![n] = 0]
  /\ floor' = [floor EXCEPT ![n] = 0]
  /\ soft' = [soft EXCEPT ![n] = 0]
  /\ Save
  /\ owed' = [owed EXCEPT ![n] = 0]
  /\ row' = [row EXCEPT ![n] = 0]
  /\ UNCHANGED <<walks, pending, restarts>>

-----------------------------------------------------------------------------
Later(f) == [n \in Names |-> Less(f[n], 1)]

Tick ==
  /\ cool' = Later(cool)
  /\ floor' = Later(floor)
  /\ soft' = Later(soft)
  /\ wait' = Less(wait, 1)
  /\ file' = [n \in Names |-> [file[n] EXCEPT !.until = Less(@, 1),
                                              !.success = Less(@, 1)]]
  /\ owed' = Later(owed)
  /\ UNCHANGED <<accounts, streak, at, idx, pending, restarts, row,
                 unsaved>>

\* The process dies and starts, with the file or, if that cannot be read or is no
\* mapping, with no gate at all: what is owed is known as far as it was written,
\* is read back and is not over.
Restart ==
  /\ restarts < MAX_RESTARTS
  /\ restarts' = restarts + 1
  /\ accounts' \in Lists
  /\ \E saved \in {file, Blank} :
       /\ LoadCooldowns(saved)
       /\ owed' = IF unsaved \/ saved # file THEN Zero ELSE owed
  /\ at' = StartAt
  /\ idx' = [w \in Walks |-> 1]
  /\ wait' = TICK
  /\ pending' = Zero
  /\ row' = [n \in Names |-> IF owed'[n] > 0 THEN row[n] ELSE 0]
  /\ UNCHANGED <<file, unsaved>>

Answer(n) ==
  Record(n) \/ AnswerLost(n) \/ RefusedUnheard(n) \/ \E r \in RetryAfters : Record429(n, r)

Move(a) == Skip(a) \/ Send(a) \/ Fail(a) \/ Release(a) \/ Walked(a)

Next ==
  \/ \E a \in Actors : Move(a)
  \/ Wake
  \/ \E n \in Names :
       Answer(n) \/  Register(n) \/ Unregister(n)
  \/ Tick
  \/ Restart

Spec == Init /\ [][Next]_vars

\* Time passes, and the event loop runs what can run.
Fairness == WF_vars(Tick) /\ WF_vars(Wake) /\ \A a \in Actors : WF_vars(Move(a))

FairSpec == Spec /\ Fairness

-----------------------------------------------------------------------------
\* No probe is sent before the time is over that the 429s in a row the tracker was
\* told of ask for, whoever probes, whatever accounts come and go, and over
\* restarts.  Outside of it: a 429 it is not told of (RefusalsHeeded); those of an
\* account that is deleted, when it is registered again; and at a restart those
\* before it, if the last write of the file failed or the file cannot be read, and
\* the streak, if the cooldown is over (NoAmnesty).
CooldownKept ==
  [][\A a \in Actors : Send(a) => owed[Target(a)] = 0]_vars

\* Every registered account is attempted again and again, though others fail, are
\* closed, or leave the list in the middle of a walk.
EveryAccountProbed ==
  \A n \in Names : []<>(n \notin Listed \/ floor[n] = FLOOR)

-----------------------------------------------------------------------------
(* What the code says and does not do.                                     *)

\* "a rebuild within tick_seconds of the last success soft-skips that account
\* instead of triggering a fresh /usage burst" (quota_probe.py:142): the gate of
\* a probe is FLOOR, and the first walk probes an account after that.
SoftSkipped ==
  [][\A n \in Names :
       restarts > 0 /\ at["initial"] = "walk" /\ Walking("initial") /\ Target("initial") = n
         /\ Send("initial") => soft[n] = 0]_vars

\* "a docker rebuild can't amnesty an account out of the compounded backoff"
\* (quota_probe.py:245): one that finds the cooldown over does.
NoAmnesty ==
  [][restarts' > restarts /\ ~unsaved =>
       \A n \in Names : streak'[n] >= streak[n]]_vars

\* "so QuotaProbeService can record a cooldown and stop hammering"
\* (session.py:691), "so the service can put the account into cooldown"
\* (manager.py:467): a session created on demand reports no 429.
RefusalsHeeded ==
  [][\A n \in Names : RefusedUnheard(n) => cool'[n] > 0]_vars

\* "the deleted account no longer shows on /admin/quotas" (admin.py:600), "drop
\* its state" (quota_probe.py:419): a late answer brings its gates back, and a
\* login that is about to end registers it again.
DeletedForgotten ==
  [][\A n \in Names \ Listed :
       n \notin Listed' /\ restarts' = restarts => cool'[n] <= cool[n]]_vars
=============================================================================
