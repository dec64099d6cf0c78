------------------------------ MODULE RequestPath ------------------------------
(***************************************************************************)
(* POST /v1/messages (src/src/api/anthropic.py): affinity wait-and-retry   *)
(* around a hedged open, the first-byte tasks, the drain of the loser and  *)
(* the delivery of the winner's bytes.  All keyed requests belong to one   *)
(* conversation.  Workers are seen through their response channels.        *)
(*                                                                         *)
(* An action is one stretch of a coroutine between two awaits.             *)
(***************************************************************************)
EXTENDS WorkerChoice

CONSTANTS
  Requests,
  Pools,         (* the pools of workers a token may have               *)
  Keyed,         (* the requests with a session key, affinity on        *)
  MAX_ATTEMPTS,  (* _RL_RETRY_MAX_ATTEMPTS                              *)
  SpawnFails,    (* whether pick and call may raise                     *)
  OthersMark,    (* whether accounts are marked by others than us       *)
  PickCooldown   (* whether _PICK_TUI_COOLDOWN_SECONDS is more than 0   *)

ASSUME PathAssumption ==
  /\ Keyed \subseteq Requests
  /\ Pools \subseteq SUBSET Workers /\ {} \notin Pools
  /\ MAX_ATTEMPTS \in Nat \ {0}
  /\ SpawnFails \in BOOLEAN /\ OthersMark \in BOOLEAN
  /\ PickCooldown \in BOOLEAN
  /\ "none" \notin Workers \cup Accounts

VARIABLES
  pool,      \* the workers of the requests' token
  at,        \* where each request's handler is
  attempt,   \* its attempt number
  target,    \* the worker it is about to call
  winner,    \* the slot it answers from
  chan,      \* what each channel's worker did
  role,      \* which coroutine reads each channel
  taken,     \* how far that coroutine has read
  counted,   \* mark_request_success / mark_intercept_failure, per channel
  cool,      \* each account's cooldown: none, waitable, longer than the cap
  asleep,    \* the account a sleeping handler waits for
  renewed,   \* sleepers whose account was marked again meanwhile
  cooling,   \* workers whose last channel closed less than 2 s ago
  affinity   \* _session_affinity of the conversation

vars == <<pool, at, attempt, target, winner, chan, role, taken, counted,
          cool, asleep, renewed, cooling, affinity>>

Slots == {"primary", "backup"}
Channels == Requests \X (1 .. MAX_ATTEMPTS) \X Slots
Cooldowns == {"no", "short", "long"}  \* short: _RL_RETRY_MAX_WAIT_SECONDS at most

Chan(r, s) == <<r, attempt[r], s>>
Unopened == [to |-> "none", first |-> "none", ended |-> FALSE]

TypeOK ==
  /\ pool \in Pools
  /\ at \in [Requests -> {"check", "sleep", "pick", "call", "first", "hedge",
                          "hedge_call", "wait", "race", "drain", "serve",
                          "done", "gone", "refused", "failed"}]
  /\ attempt \in [Requests -> 1 .. MAX_ATTEMPTS]
  /\ target \in [Requests -> Workers \cup {"none"}]
  /\ winner \in [Requests -> Slots \cup {"none"}]
  /\ chan \in [Channels -> [to : Workers \cup {"none"},
                            first : {"none", "sse", "limit"}, ended : BOOLEAN]]
  /\ role \in [Channels -> {"none", "first", "loser", "drain", "main"}]
  /\ taken \in [Channels -> {"nothing", "first", "end"}]
  /\ counted \in [Channels -> [ok : 0 .. 1, fail : 0 .. 1]]
  /\ cool \in [Accounts -> Cooldowns]
  /\ asleep \in [Requests -> Accounts \cup {"none"}]
  /\ renewed \in SUBSET Requests
  /\ cooling \in SUBSET Workers
  /\ affinity \in Accounts \cup {"none"}

Init ==
  /\ pool \in Pools
  /\ at = [r \in Requests |-> "check"]
  /\ attempt = [r \in Requests |-> 1]
  /\ target = [r \in Requests |-> "none"]
  /\ winner = [r \in Requests |-> "none"]
  /\ chan = [h \in Channels |-> Unopened]
  /\ role = [h \in Channels |-> "none"]
  /\ taken = [h \in Channels |-> "nothing"]
  /\ counted = [h \in Channels |-> [ok |-> 0, fail |-> 0]]
  /\ cool = [a \in Accounts |-> "no"]
  /\ asleep = [r \in Requests |-> "none"]
  /\ renewed = {}
  /\ cooling = {}
  /\ affinity \in Accounts \cup {"none"}

Opened(h) == chan[h].to # "none"
Limited == {a \in Accounts : cool[a] # "no"}
InFlight == [w \in Workers |->
               Cardinality({h \in Channels : chan[h].to = w /\ ~chan[h].ended})]
Last(r) == attempt[r] = MAX_ATTEMPTS

Goto(r, place) == at' = [at EXCEPT ![r] = place]
Sleep(r, a) == Goto(r, "sleep") /\ asleep' = [asleep EXCEPT ![r] = a]

\* Mutant: every reply counts as a success.
CountedSuccess(h, outcome) == [counted EXCEPT ![h].ok = @ + 1]

Counted(h, outcome) ==
  IF outcome = "first" THEN [counted EXCEPT ![h].ok = @ + 1]
  ELSE [counted EXCEPT ![h].fail = @ + 1]

-----------------------------------------------------------------------------
(* _open_request                                                           *)

\* Pre-pick: is the conversation pinned to a cooling account?
Check(r) ==
  /\ at[r] = "check"
  /\ \/ /\ r \in Keyed /\ affinity \in Limited
        /\ IF cool[affinity] = "short" /\ ~Last(r)
           THEN Sleep(r, affinity)
           ELSE Goto(r, "refused") /\ UNCHANGED asleep
     \/ /\ ~(r \in Keyed /\ affinity \in Limited)
        /\ Goto(r, "pick") /\ UNCHANGED asleep
  /\ UNCHANGED <<pool, attempt, target, winner, chan, role, taken, counted,
                 cool, renewed, cooling, affinity>>

\* The sleep covers the cooldown that was read; a later mark outlives it.
Wake(r) ==
  /\ at[r] = "sleep"
  /\ asleep[r] \notin Limited \/ r \in renewed
  /\ Goto(r, "check")
  /\ attempt' = [attempt EXCEPT ![r] = @ + 1]
  /\ asleep' = [asleep EXCEPT ![r] = "none"]
  /\ renewed' = renewed \ {r}
  /\ UNCHANGED <<pool, target, winner, chan, role, taken, counted, cool,
                 cooling, affinity>>

\* What _open_request does with the channel _open_with_hedge returned.
Return(r, slot) ==
  LET h == Chan(r, slot)
      served == AccountOf[chan[h].to]
      again == /\ r \in Keyed /\ taken[h] = "first" /\ chan[h].first = "limit"
               /\ cool[served] = "short" /\ ~Last(r)
  IN /\ winner' = [winner EXCEPT ![r] = slot]
     /\ counted' = Counted(h, taken[h])
     /\ IF again THEN Goto(r, "drain") ELSE Goto(r, "serve")

\* Mutant: retries without draining the answer it drops.
RetryUndrained(r) ==
  LET h == Chan(r, winner[r]) IN
  /\ at[r] = "drain"
  /\ Sleep(r, AccountOf[chan[h].to])
  /\ UNCHANGED <<pool, attempt, target, winner, chan, role, taken, counted,
                 cool, renewed, cooling, affinity>>

\* _drain_channel before the retry
RetryDrained(r) ==
  LET h == Chan(r, winner[r]) IN
  /\ at[r] = "drain" /\ chan[h].ended
  /\ taken' = [taken EXCEPT ![h] = "end"]
  /\ Sleep(r, AccountOf[chan[h].to])
  /\ UNCHANGED <<pool, attempt, target, winner, chan, role, counted, cool,
                 renewed, cooling, affinity>>

-----------------------------------------------------------------------------
(* _open_with_hedge                                                        *)

Raise(r) ==
  /\ SpawnFails
  /\ at[r] \in {"pick", "call", "hedge", "hedge_call"}
  /\ Goto(r, "failed")
  /\ UNCHANGED <<pool, attempt, target, winner, chan, role, taken, counted,
                 cool, asleep, renewed, cooling, affinity>>

\* pick: one worker of the preferred ones, and the binding that follows it
Pick(r) ==
  LET usable == Usable(pool, Limited)
      near == IF r \in Keyed /\ affinity \notin Limited
              THEN NearAccount(usable, affinity) ELSE usable
  IN /\ at[r] = "pick"
     /\ \E w \in Preferred(near, InFlight, cooling) :
          /\ target' = [target EXCEPT ![r] = w]
          /\ affinity' = IF r \in Keyed /\ Cardinality(pool) > 1
                         THEN AccountOf[w] ELSE affinity
     /\ Goto(r, "call")
     /\ UNCHANGED <<pool, attempt, winner, chan, role, taken, counted, cool,
                    asleep, renewed, cooling>>

\* ClaudeSession.call, and the task that waits for the first byte
OpenChannel(r, slot) ==
  /\ chan' = [chan EXCEPT ![Chan(r, slot)].to = target[r]]
  /\ role' = [role EXCEPT ![Chan(r, slot)] = "first"]
  /\ UNCHANGED <<pool, attempt, target, winner, taken, counted, cool,
                 asleep, renewed, cooling, affinity>>

Call(r) == at[r] = "call" /\ OpenChannel(r, "primary") /\ Goto(r, "first")

PrimaryFast(r) ==
  /\ at[r] = "first" /\ taken[Chan(r, "primary")] = "first"
  /\ Return(r, "primary")
  /\ role' = [role EXCEPT ![Chan(r, "primary")] = "main"]
  /\ UNCHANGED <<pool, attempt, target, chan, taken, cool, asleep, renewed,
                 cooling, affinity>>

\* No byte within _HEDGE_TIMEOUT_SECONDS, or the channel closed empty.
PrimarySlow(r) ==
  /\ at[r] = "first" /\ taken[Chan(r, "primary")] # "first"
  /\ Goto(r, "hedge")
  /\ UNCHANGED <<pool, attempt, target, winner, chan, role, taken, counted,
                 cool, asleep, renewed, cooling, affinity>>

\* pick_excluding: the same layers, without the session key
PickBackup(r) ==
  LET others == pool \ {target[r]} IN
  /\ at[r] = "hedge"
  /\ \/ others = {} /\ Goto(r, "wait") /\ UNCHANGED target
     \/ /\ others # {}
        /\ \E w \in Preferred(Usable(others, Limited), InFlight, cooling) :
             target' = [target EXCEPT ![r] = w]
        /\ Goto(r, "hedge_call")
  /\ UNCHANGED <<pool, attempt, winner, chan, role, taken, counted, cool,
                 asleep, renewed, cooling, affinity>>

CallBackup(r) ==
  at[r] = "hedge_call" /\ OpenChannel(r, "backup") /\ Goto(r, "race")

OnlyPrimary(r) ==
  /\ at[r] = "wait" /\ taken[Chan(r, "primary")] # "nothing"
  /\ Return(r, "primary")
  /\ role' = [role EXCEPT ![Chan(r, "primary")] = "main"]
  /\ UNCHANGED <<pool, attempt, target, chan, taken, cool, asleep, renewed,
                 cooling, affinity>>

\* Mutant: no task drains the loser.
RaceForgetsLoser(r) ==
  LET first == IF taken[Chan(r, "primary")] # "nothing" THEN "primary" ELSE "backup"
  IN /\ at[r] = "race" /\ taken[Chan(r, first)] # "nothing"
     /\ Return(r, first)
     /\ role' = [role EXCEPT ![Chan(r, first)] = "main"]
     /\ UNCHANGED <<pool, attempt, target, chan, taken, cool, asleep,
                    renewed, cooling, affinity>>

\* Mutant: waits for bytes, also when both channels closed empty.
RaceForBytes(r) ==
  LET first == IF taken[Chan(r, "primary")] = "first" THEN "primary" ELSE "backup"
      loser == IF first = "primary" THEN "backup" ELSE "primary"
  IN /\ at[r] = "race" /\ taken[Chan(r, first)] = "first"
     /\ Return(r, first)
     /\ role' = [role EXCEPT ![Chan(r, first)] = "main",
                             ![Chan(r, loser)] = "loser"]
     /\ UNCHANGED <<pool, attempt, target, chan, taken, cool, asleep,
                    renewed, cooling, affinity>>

\* asyncio.wait: the primary wins when its task is among those done.
Race(r) ==
  LET first == IF taken[Chan(r, "primary")] # "nothing" THEN "primary" ELSE "backup"
      loser == IF first = "primary" THEN "backup" ELSE "primary"
  IN /\ at[r] = "race" /\ taken[Chan(r, first)] # "nothing"
     /\ Return(r, first)
     /\ role' = [role EXCEPT ![Chan(r, first)] = "main",
                             ![Chan(r, loser)] = "loser"]
     /\ UNCHANGED <<pool, attempt, target, chan, taken, cool, asleep,
                    renewed, cooling, affinity>>

\* The handler reads the winner's channel to its end and completes the reply.
Serve(r) ==
  LET h == Chan(r, winner[r]) IN
  /\ at[r] = "serve" /\ taken[h] = "first" /\ chan[h].ended
  /\ taken' = [taken EXCEPT ![h] = "end"]
  /\ Goto(r, "done")
  /\ UNCHANGED <<pool, attempt, target, winner, chan, role, counted, cool,
                 asleep, renewed, cooling, affinity>>

\* The client of a stream goes away: the server cancels gen(), which drains
\* nothing.  (A handler that has not begun to stream is not cancelled.)
Disconnect(r) ==
  /\ at[r] = "serve"
  /\ Goto(r, "gone")
  /\ UNCHANGED <<pool, attempt, target, winner, chan, role, taken, counted,
                 cool, asleep, renewed, cooling, affinity>>

-----------------------------------------------------------------------------
(* _consume_first_byte and _drain_loser                                    *)

Consume(h) ==
  /\ role[h] \in {"first", "loser"} /\ taken[h] = "nothing"
  /\ \/ chan[h].first # "none" /\ taken' = [taken EXCEPT ![h] = "first"]
     \/ chan[h].first = "none" /\ chan[h].ended
          /\ taken' = [taken EXCEPT ![h] = "end"]
  /\ UNCHANGED <<pool, at, attempt, target, winner, chan, role, counted,
                 cool, asleep, renewed, cooling, affinity>>

\* Mutant: counts the loser again for every chunk it drains.
LoserRecounted(h) ==
  /\ role[h] \in {"loser", "drain"} /\ taken[h] # "nothing"
  /\ counted' = Counted(h, taken[h])
  /\ role' = [role EXCEPT ![h] = "drain"]
  /\ UNCHANGED <<pool, at, attempt, target, winner, chan, taken, cool,
                 asleep, renewed, cooling, affinity>>

LoserCounted(h) ==
  /\ role[h] = "loser" /\ taken[h] # "nothing"
  /\ counted' = Counted(h, taken[h])
  /\ role' = [role EXCEPT ![h] = "drain"]
  /\ UNCHANGED <<pool, at, attempt, target, winner, chan, taken, cool,
                 asleep, renewed, cooling, affinity>>

LoserDrained(h) ==
  /\ role[h] = "drain" /\ taken[h] = "first" /\ chan[h].ended
  /\ taken' = [taken EXCEPT ![h] = "end"]
  /\ UNCHANGED <<pool, at, attempt, target, winner, chan, role, counted,
                 cool, asleep, renewed, cooling, affinity>>

-----------------------------------------------------------------------------
(* The workers and the accounts.                                           *)

Mark(a, level) ==
  /\ cool' = [cool EXCEPT ![a] = level]
  /\ renewed' = renewed \cup {r \in Requests : asleep[r] = a}

FirstChunk(h) ==
  /\ Opened(h) /\ ~chan[h].ended /\ chan[h].first = "none"
  /\ \/ /\ chan' = [chan EXCEPT ![h].first = "sse"]
        /\ UNCHANGED <<cool, renewed>>
     \/ \* the read loop marks the account before the chunk is read
        /\ chan' = [chan EXCEPT ![h].first = "limit"]
        /\ \E level \in {"short", "long"} : Mark(AccountOf[chan[h].to], level)
  /\ UNCHANGED <<pool, at, attempt, target, winner, role, taken, counted,
                 asleep, cooling, affinity>>

EndChannel(h) ==
  /\ Opened(h) /\ ~chan[h].ended
  /\ chan' = [chan EXCEPT ![h].ended = TRUE]
  /\ cooling' = IF PickCooldown THEN cooling \cup {chan[h].to} ELSE cooling
  /\ UNCHANGED <<pool, at, attempt, target, winner, role, taken, counted,
                 cool, asleep, renewed, affinity>>

\* Another request's 429, the quota probe or the operator.
MarkElsewhere(a) ==
  /\ OthersMark
  /\ \E level \in {"short", "long"} : Mark(a, level)
  /\ UNCHANGED <<pool, at, attempt, target, winner, chan, role, taken,
                 counted, asleep, cooling, affinity>>

Expire(a) ==
  /\ cool[a] # "no"
  /\ cool' = [cool EXCEPT ![a] = IF @ = "long" THEN "short" ELSE "no"]
  /\ UNCHANGED <<pool, at, attempt, target, winner, chan, role, taken,
                 counted, asleep, renewed, cooling, affinity>>

Cooled(w) ==
  /\ w \in cooling
  /\ cooling' = cooling \ {w}
  /\ UNCHANGED <<pool, at, attempt, target, winner, chan, role, taken,
                 counted, cool, asleep, renewed, affinity>>

\* session_affinity_ttl_seconds ran out, or the table was pruned.
Unbind ==
  /\ affinity # "none"
  /\ affinity' = "none"
  /\ UNCHANGED <<pool, at, attempt, target, winner, chan, role, taken,
                 counted, cool, asleep, renewed, cooling>>

Handler(r) ==
  \/ Check(r) \/ Wake(r) \/ RetryDrained(r)
  \/ Pick(r) \/ Call(r) \/ PrimaryFast(r) \/ PrimarySlow(r)
  \/ PickBackup(r) \/ CallBackup(r) \/ OnlyPrimary(r) \/ Race(r) \/ Serve(r)

Next ==
  \/ \E r \in Requests : Handler(r)
  \/ \E r \in Requests : Raise(r)
  \/ \E r \in Requests : Disconnect(r)
  \/ \E h \in Channels : Consume(h)
  \/ \E h \in Channels : LoserCounted(h)
  \/ \E h \in Channels : LoserDrained(h)
  \/ \E h \in Channels : FirstChunk(h)
  \/ \E h \in Channels : EndChannel(h)
  \/ \E a \in Accounts : MarkElsewhere(a)
  \/ \E a \in Accounts : Expire(a)
  \/ \E w \in Workers : Cooled(w)
  \/ Unbind

Spec == Init /\ [][Next]_vars

\* Every coroutine that can run does; a worker ends every channel (its
\* intercept and stall timeouts); cooldowns run out.
Fairness ==
  /\ \A r \in Requests : WF_vars(Handler(r))
  /\ \A h \in Channels : /\ WF_vars(Consume(h))
                         /\ WF_vars(LoserCounted(h) \/ LoserDrained(h))
                         /\ WF_vars(EndChannel(h))
  /\ \A a \in Accounts : WF_vars(Expire(a))

FairSpec == Spec /\ Fairness

-----------------------------------------------------------------------------
(* Properties.                                                             *)

\* A worker's streak moves once per channel, and by what the channel did: a
\* failure only for one that closed empty, a success only for one with bytes.
CountedRight ==
  \A h \in Channels :
    /\ counted[h].ok + counted[h].fail <= 1
    /\ counted[h].ok = 1 => chan[h].first # "none"
    /\ counted[h].fail = 1 => chan[h].ended /\ chan[h].first = "none"

\* The one channel a request may leave without a reader: the primary of the
\* attempt whose hedge raised, or the answer whose client went away.
LeftBehind(h) ==
  LET r == h[1] IN
  /\ h[2] = attempt[r]
  /\ \/ at[r] = "failed" /\ h[3] = "primary"
     \/ at[r] = "gone" /\ h[3] = winner[r]

\* A channel whose end is still to come always has a reader: its first-byte
\* task, the drain of the loser or the handler.  Above all, no retry starts and
\* no answer is finished with a channel left behind; when the hedge raises or
\* the client goes away, it is that one channel and no other.
NeverAbandoned ==
  \A h \in Channels :
    LET r == h[1] IN
    Opened(h) /\ taken[h] # "end" =>
      \/ role[h] \in {"loser", "drain"}
      \/ /\ h[2] = attempt[r]
         /\ \/ role[h] = "main" /\ at[r] \in {"drain", "serve"}
            \/ role[h] = "first"
                 /\ at[r] \in {"first", "hedge", "hedge_call", "wait", "race"}
      \/ LeftBehind(h)

\* In the end every channel has been read to its end, so that no worker's reply
\* piles up in a queue nobody reads: the loser of the race and the answer dropped
\* for a retry too, also when the client goes away meanwhile.  Only the channel
\* that LeftBehind names may stay unread.
EveryChannelDrained ==
  <>[](\A h \in Channels : Opened(h) => taken[h] = "end" \/ LeftBehind(h))

\* Every request whose client stays gets its answer, unless the channel it is
\* served from closed without a byte.
AnsweredUnlessEmpty ==
  \A r \in Requests :
    <>(\/ at[r] \in {"done", "gone", "refused", "failed"}
       \/ at[r] = "serve" /\ taken[Chan(r, winner[r])] = "end")

-----------------------------------------------------------------------------
(* What comments and docstrings say, and the code does not do.             *)

\* gen, case (1), "zero bytes ever": the client is sent a synthetic error.
ZeroBytesAnswered ==
  \A r \in Requests :
    at[r] = "serve" ~> at[r] \in {"done", "gone"}

\* _open_with_hedge: "If first_chunk is None ... both attempts (or the only
\* attempt) failed."
NoneMeansBothFailed ==
  \A r \in Requests :
    at[r] = "serve" /\ taken[Chan(r, winner[r])] = "end" =>
      \A s \in Slots :
        Opened(Chan(r, s)) => chan[Chan(r, s)].ended /\ chan[Chan(r, s)].first = "none"

\* _open_request: a conversation pinned to an account that is rate-limited
\* waits for it "rather than re-routing to a cold account".
PinnedNeverSpreads ==
  [][\A h \in Channels :
       chan[h].to = "none" /\ chan'[h].to # "none"
         /\ h[1] \in Keyed /\ affinity \in Limited
         => AccountOf[chan'[h].to] = affinity]_vars
=============================================================================
