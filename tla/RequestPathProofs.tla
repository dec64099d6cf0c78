-------------------------- MODULE RequestPathProofs --------------------------
(***************************************************************************)
(* What the request path (RequestPath) guarantees for every number of      *)
(* requests, workers, accounts and attempts: a worker's streak moves once  *)
(* per channel and by what the channel did, and every channel whose end is *)
(* still to come has a reader.                                             *)
(***************************************************************************)
EXTENDS RequestPath, FiniteSetTheorems, WellFoundedInduction, TLAPS

(***************************************************************************)
(* The inductive invariant: what holds of a channel by who reads it, where *)
(* the handler is when a channel is still read for it, and which channels  *)
(* of the current attempt a handler at a given place has.                  *)
(***************************************************************************)

\* Where a handler has a first-byte task.
Waiting == {"first", "hedge", "hedge_call", "wait", "race"}

\* A channel as it was in the beginning.
Untouched(h) ==
  /\ chan[h] = Unopened /\ taken[h] = "nothing"
  /\ counted[h] = [ok |-> 0, fail |-> 0]

\* A channel nobody reads was never opened; one that is waited for is not
\* counted yet; one that is answered from or drained was counted once, by what
\* it had done.
ChannelOK(h) ==
  /\ role[h] = "none" => Untouched(h)
  /\ role[h] # "none" => Opened(h)
  /\ taken[h] = "first" => chan[h].first # "none"
  /\ role[h] \in {"first", "loser"} =>
       /\ counted[h] = [ok |-> 0, fail |-> 0]
       /\ taken[h] = "end" => chan[h].ended /\ chan[h].first = "none"
  /\ role[h] \in {"main", "drain"} =>
       /\ taken[h] # "nothing"
       /\ \/ counted[h] = [ok |-> 1, fail |-> 0] /\ chan[h].first # "none"
          \/ /\ counted[h] = [ok |-> 0, fail |-> 1]
             /\ chan[h].ended /\ chan[h].first = "none"

\* A first-byte task and the handler itself read for the current attempt only; a
\* handler that raised leaves one such task, one that was cancelled its answer.
ReaderOK(h) ==
  LET r == h[1] IN
  /\ role[h] = "first" =>
       /\ h[2] = attempt[r]
       /\ \/ at[r] \in Waiting
          \/ at[r] = "failed" /\ h[3] = "primary"
  /\ role[h] = "main" /\ taken[h] # "end" =>
       h = Chan(r, winner[r]) /\ at[r] \in {"drain", "serve", "gone"}
  /\ h[2] > attempt[r] => role[h] = "none"

PhaseOK(r) ==
  /\ at[r] \in {"check", "pick", "call"} =>
       \A s \in Slots : role[Chan(r, s)] = "none"
  /\ at[r] \in Waiting \ {"race"} =>
       role[Chan(r, "primary")] = "first" /\ role[Chan(r, "backup")] = "none"
  /\ at[r] = "race" => \A s \in Slots : role[Chan(r, s)] = "first"
  /\ at[r] \in {"drain", "serve"} =>
       winner[r] \in Slots /\ role[Chan(r, winner[r])] = "main"
  /\ at[r] \in {"call", "hedge_call"} => target[r] \in Workers
  /\ at[r] \in {"sleep", "drain"} => ~Last(r)

IInv ==
  /\ TypeOK
  /\ \A h \in Channels : ChannelOK(h) /\ ReaderOK(h)
  /\ \A r \in Requests : PhaseOK(r)

-----------------------------------------------------------------------------
(* The operators.                                                          *)

\* The selection layers of SessionManager.pick leave workers out and add none.
LEMMA PreferredWithin ==
  ASSUME NEW S, NEW inflight, NEW busy
  PROVE  Preferred(S, inflight, busy) \subseteq S
BY DEF Preferred, SelectWithin, CoolIdle, TopTier

\* Nor do the account filters before them.
LEMMA UsableWithin ==
  ASSUME NEW S, NEW limited, NEW account
  PROVE  /\ Usable(S, limited) \subseteq S
         /\ NearAccount(Usable(S, limited), account) \subseteq S
BY DEF Usable, NearAccount

\* The two channels of a request's current attempt.
LEMMA ChanIsChannel ==
  ASSUME TypeOK, NEW r \in Requests, NEW s \in Slots
  PROVE  /\ Chan(r, s) \in Channels
         /\ Chan(r, s)[1] = r /\ Chan(r, s)[2] = attempt[r] /\ Chan(r, s)[3] = s
BY DEF TypeOK, Chan, Channels

\* A channel is of a request, an attempt and a slot.
LEMMA ChannelParts ==
  ASSUME NEW h \in Channels
  PROVE  /\ h[1] \in Requests /\ h[2] \in 1 .. MAX_ATTEMPTS /\ h[3] \in Slots
         /\ h = <<h[1], h[2], h[3]>>
BY DEF Channels

\* Every channel of the current attempt is one of the two.
LEMMA ChannelIsChan ==
  ASSUME NEW h \in Channels, h[2] = attempt[h[1]]
  PROVE  h = Chan(h[1], h[3]) /\ h[3] \in Slots
BY ChannelParts DEF Chan

\* What a call sees of Counted for a channel that is not counted yet.
LEMMA CountedOnce ==
  ASSUME TypeOK, NEW h \in Channels, counted[h] = [ok |-> 0, fail |-> 0],
         NEW outcome
  PROVE  /\ Counted(h, outcome) \in [Channels -> [ok : 0 .. 1, fail : 0 .. 1]]
         /\ Counted(h, outcome)[h] = IF outcome = "first" THEN [ok |-> 1, fail |-> 0]
                                     ELSE [ok |-> 0, fail |-> 1]
         /\ \A g \in Channels \ {h} : Counted(h, outcome)[g] = counted[g]
<1>1. CASE outcome = "first"
  <2>1. Counted(h, outcome) = [counted EXCEPT ![h].ok = @ + 1]
    BY <1>1 DEF Counted
  <2>2. [counted EXCEPT ![h].ok = @ + 1][h] = [ok |-> 1, fail |-> 0]
    BY DEF TypeOK
  <2> QED BY <2>1, <2>2, <1>1 DEF TypeOK
<1>2. CASE outcome # "first"
  <2>1. Counted(h, outcome) = [counted EXCEPT ![h].fail = @ + 1]
    BY <1>2 DEF Counted
  <2>2. [counted EXCEPT ![h].fail = @ + 1][h] = [ok |-> 0, fail |-> 1]
    BY DEF TypeOK
  <2> QED BY <2>1, <2>2, <1>2 DEF TypeOK
<1> QED BY <1>1, <1>2

-----------------------------------------------------------------------------
(* Steps that open, read and count nothing.                                *)

\* A channel is right for as long as nothing happens to it.
LEMMA ChannelStill ==
  ASSUME NEW h \in Channels, ChannelOK(h), chan'[h] = chan[h], role'[h] = role[h],
         taken'[h] = taken[h], counted'[h] = counted[h]
  PROVE  ChannelOK(h)'
BY DEF ChannelOK, Untouched, Opened, Unopened

\* Every place a handler can be at.
Places == {"check", "sleep", "pick", "call", "first", "hedge", "hedge_call",
           "wait", "race", "drain", "serve", "done", "gone", "refused", "failed"}

\* A handler that goes on within its attempt, from where it has no task or to
\* where it keeps the ones it has.
LEMMA MovesOn ==
  ASSUME IInv, NEW r \in Requests, NEW place \in Places,
         at' = [at EXCEPT ![r] = place],
         UNCHANGED <<attempt, winner, chan, role, taken, counted>>,
         at[r] \notin {"drain", "serve", "gone", "failed"},
         at[r] \in Waiting =>
           \/ place \in Waiting
           \/ place = "failed" /\ at[r] # "race",
         \A q \in Requests \ {r} : target'[q] = target[q],
         PhaseOK(r)'
  PROVE  /\ \A h \in Channels : ChannelOK(h)' /\ ReaderOK(h)'
         /\ \A q \in Requests : PhaseOK(q)'
<1>1. ASSUME NEW h \in Channels PROVE ChannelOK(h)'
  BY ChannelStill DEF IInv
<1>2. ASSUME NEW h \in Channels PROVE ReaderOK(h)'
  <2>1. h[1] \in Requests /\ ReaderOK(h)
    BY ChannelParts DEF IInv
  <2>2. at \in [Requests -> Places]
    BY DEF IInv, TypeOK, Places
  <2>3. CASE h[1] # r
    BY <2>1, <2>2, <2>3 DEF ReaderOK, Chan
  <2>4. CASE h[1] = r
    <3>1. role[h] = "first" /\ place = "failed" => h[3] = "primary"
      <4> SUFFICES ASSUME role[h] = "first", place = "failed" PROVE h[3] = "primary"
        OBVIOUS
      <4>1. h[2] = attempt[r] /\ at[r] \in Waiting \ {"race"}
        BY <2>1, <2>4 DEF ReaderOK, Waiting
      <4>2. role[Chan(r, "backup")] = "none" /\ h = Chan(r, h[3]) /\ h[3] \in Slots
        BY <4>1, <2>4, ChannelIsChan DEF IInv, PhaseOK
      <4> QED BY <4>2 DEF Slots
    <3>2. at'[h[1]] = place /\ at[h[1]] \notin {"drain", "serve", "gone", "failed"}
      BY <2>1, <2>2, <2>4
    <3>3. Chan(h[1], winner[h[1]])' = Chan(h[1], winner[h[1]])
      BY DEF Chan
    <3> QED BY <2>1, <2>4, <3>1, <3>2, <3>3 DEF ReaderOK
  <2> QED BY <2>3, <2>4
<1>3. ASSUME NEW q \in Requests, q # r PROVE PhaseOK(q)'
  BY <1>3 DEF IInv, TypeOK, PhaseOK, Chan, Last
<1> QED BY <1>1, <1>2, <1>3

\* A handler that sleeps has an attempt left, and has opened nothing.
LEMMA CheckStep ==
  ASSUME IInv, NEW r \in Requests, Check(r)
  PROVE  IInv'
<1>1. TypeOK'
  <2>1. \/ at' = [at EXCEPT ![r] = "sleep"] /\ asleep' = [asleep EXCEPT ![r] = affinity]
             /\ affinity \in Accounts
        \/ \E place \in {"refused", "pick"} : at' = [at EXCEPT ![r] = place]
             /\ asleep' = asleep
    BY DEF Check, Sleep, Goto, Limited
  <2> QED BY <2>1 DEF IInv, TypeOK, Check
<1>2. PICK place \in {"sleep", "refused", "pick"} :
        at' = [at EXCEPT ![r] = place] /\ (place = "sleep" => ~Last(r))
  BY DEF Check, Sleep, Goto
<1>3. PhaseOK(r)'
  BY <1>2 DEF IInv, TypeOK, PhaseOK, Check, Chan, Last, Waiting
<1> QED BY <1>1, <1>2, <1>3, MovesOn DEF IInv, Check, Places, Waiting

\* pick and call may raise only where a handler has no answer to deliver.
LEMMA RaiseStep ==
  ASSUME IInv, NEW r \in Requests, Raise(r)
  PROVE  IInv'
<1>1. TypeOK'
  BY DEF IInv, TypeOK, Raise, Goto
<1>2. at' = [at EXCEPT ![r] = "failed"]
  BY DEF Raise, Goto
<1>3. PhaseOK(r)'
  BY <1>2 DEF IInv, TypeOK, PhaseOK, Waiting
<1> QED BY <1>1, <1>2, <1>3, MovesOn DEF IInv, Raise, Places, Waiting

\* pick answers a worker of the pool, to be called next.
LEMMA PickStep ==
  ASSUME IInv, NEW r \in Requests, Pick(r)
  PROVE  IInv'
<1> DEFINE near == IF r \in Keyed /\ affinity \notin Limited
                   THEN NearAccount(Usable(pool, Limited), affinity)
                   ELSE Usable(pool, Limited)
<1>1. PICK w \in Preferred(near, InFlight, cooling) :
        /\ target' = [target EXCEPT ![r] = w]
        /\ affinity' = IF r \in Keyed /\ Cardinality(pool) > 1
                       THEN AccountOf[w] ELSE affinity
  BY DEF Pick
<1>2. w \in Workers
  <2>1. near \subseteq pool
    BY UsableWithin
  <2> QED BY <2>1, PreferredWithin, PathAssumption DEF IInv, TypeOK
<1>3. at' = [at EXCEPT ![r] = "call"]
  BY DEF Pick, Goto
<1>4. TypeOK'
  BY <1>1, <1>2, <1>3, ChoiceAssumption DEF IInv, TypeOK, Pick
<1>5. PhaseOK(r)'
  BY <1>1, <1>2, <1>3 DEF IInv, TypeOK, PhaseOK, Pick, Chan, Last, Waiting
<1>6. \A q \in Requests \ {r} : target'[q] = target[q]
  BY <1>1 DEF IInv, TypeOK
<1> QED BY <1>3, <1>4, <1>5, <1>6, MovesOn DEF IInv, Pick, Places, Waiting

\* The first-byte task of the primary lives on when the hedge starts.
LEMMA PrimarySlowStep ==
  ASSUME IInv, NEW r \in Requests, PrimarySlow(r)
  PROVE  IInv'
<1>1. TypeOK'
  BY DEF IInv, TypeOK, PrimarySlow, Goto
<1>2. at' = [at EXCEPT ![r] = "hedge"]
  BY DEF PrimarySlow, Goto
<1>3. PhaseOK(r)'
  BY <1>2 DEF IInv, TypeOK, PhaseOK, PrimarySlow, Chan, Last, Waiting
<1> QED BY <1>1, <1>2, <1>3, MovesOn DEF IInv, PrimarySlow, Places, Waiting

\* pick_excluding answers a worker of the pool or none at all.
LEMMA PickBackupStep ==
  ASSUME IInv, NEW r \in Requests, PickBackup(r)
  PROVE  IInv'
<1>1. PICK place \in {"wait", "hedge_call"} : at' = [at EXCEPT ![r] = place]
  BY DEF PickBackup, Goto
<1>2. \/ place = "wait" /\ target' = target
      \/ \E w \in Workers : target' = [target EXCEPT ![r] = w]
  <2>1. ASSUME NEW w \in Preferred(Usable(pool \ {target[r]}, Limited), InFlight, cooling)
        PROVE  w \in Workers
    <3>1. w \in Usable(pool \ {target[r]}, Limited)
      BY PreferredWithin
    <3>2. w \in pool
      BY <3>1, UsableWithin
    <3> QED BY <3>2, PathAssumption DEF IInv, TypeOK
  <2>2. at'[r] = place
    BY <1>1 DEF IInv, TypeOK
  <2> QED BY <2>1, <2>2, <1>1 DEF PickBackup, Goto, IInv, TypeOK
<1>3. TypeOK'
  BY <1>1, <1>2 DEF IInv, TypeOK, PickBackup
<1>4. PhaseOK(r)'
  BY <1>1, <1>2 DEF IInv, TypeOK, PhaseOK, PickBackup, Chan, Last, Waiting
<1>5. \A q \in Requests \ {r} : target'[q] = target[q]
  BY <1>2 DEF IInv, TypeOK
<1> QED BY <1>1, <1>3, <1>4, <1>5, MovesOn DEF IInv, PickBackup, Places, Waiting

\* The retry is one attempt further, where no channel was opened, and leaves
\* no first-byte task behind.
LEMMA WakeStep ==
  ASSUME IInv, NEW r \in Requests, Wake(r)
  PROVE  IInv'
<1>1. at' = [at EXCEPT ![r] = "check"] /\ attempt' = [attempt EXCEPT ![r] = @ + 1]
  BY DEF Wake, Goto
<1>2. attempt[r] \in 1 .. MAX_ATTEMPTS - 1 /\ attempt'[r] = attempt[r] + 1
  BY <1>1, PathAssumption DEF IInv, TypeOK, PhaseOK, Wake, Last
<1>3. TypeOK'
  BY <1>1, <1>2, PathAssumption DEF IInv, TypeOK, Wake
<1>4. ASSUME NEW h \in Channels PROVE ChannelOK(h)'
  BY ChannelStill DEF IInv, Wake
<1>5. ASSUME NEW h \in Channels PROVE ReaderOK(h)'
  <2>1. h[1] \in Requests /\ h[2] \in Nat /\ ReaderOK(h)
    BY ChannelParts, PathAssumption DEF IInv
  <2>2. CASE h[1] # r
    BY <1>1, <2>1, <2>2 DEF ReaderOK, Chan, Wake, IInv, TypeOK
  <2>3. CASE h[1] = r
    BY <1>1, <1>2, <2>1, <2>3 DEF ReaderOK, Chan, Wake, IInv, TypeOK, Waiting
  <2> QED BY <2>2, <2>3
<1>6. ASSUME NEW q \in Requests PROVE PhaseOK(q)'
  <2>1. CASE q # r
    BY <1>1, <2>1 DEF IInv, TypeOK, PhaseOK, Chan, Last, Wake
  <2>2. CASE q = r
    <3>1. ASSUME NEW s \in Slots PROVE role[Chan(r, s)'] = "none"
      <4>1. Chan(r, s)' \in Channels /\ Chan(r, s)'[1] = r /\ Chan(r, s)'[2] = attempt[r] + 1
        BY <1>2, <1>3 DEF Chan, Channels, TypeOK
      <4> QED BY <4>1, <1>2 DEF IInv, ReaderOK
    <3>2. at'[r] = "check" /\ role' = role
      BY <1>1 DEF IInv, TypeOK, Wake
    <3> QED BY <2>2, <3>1, <3>2 DEF PhaseOK, Waiting
  <2> QED BY <2>1, <2>2
<1> QED BY <1>3, <1>4, <1>5, <1>6 DEF IInv

\* A cancelled handler leaves the answer it was reading, and nothing else.
LEMMA DisconnectStep ==
  ASSUME IInv, NEW r \in Requests, Disconnect(r)
  PROVE  IInv'
<1>1. at' = [at EXCEPT ![r] = "gone"] /\ at[r] = "serve"
      /\ UNCHANGED <<pool, attempt, target, winner, chan, role, taken, counted,
                     cool, asleep, renewed, cooling, affinity>>
  BY DEF Disconnect, Goto
<1>2. TypeOK'
  BY <1>1 DEF IInv, TypeOK
<1>3. ASSUME NEW h \in Channels PROVE ChannelOK(h)'
  BY <1>1, ChannelStill DEF IInv
<1>4. ASSUME NEW h \in Channels PROVE ReaderOK(h)'
  <2>1. h[1] \in Requests /\ ReaderOK(h) /\ at'[r] = "gone"
        /\ \A q \in Requests \ {r} : at'[q] = at[q]
    BY <1>1, ChannelParts DEF IInv, TypeOK
  <2>2. CASE h[1] # r
    BY <1>1, <2>1, <2>2 DEF ReaderOK, Chan
  <2>3. CASE h[1] = r
    BY <1>1, <2>1, <2>3 DEF ReaderOK, Chan, Waiting
  <2> QED BY <2>2, <2>3
<1>5. ASSUME NEW q \in Requests PROVE PhaseOK(q)'
  <2>1. CASE q # r
    BY <1>1, <2>1 DEF IInv, TypeOK, PhaseOK, Chan, Last
  <2>2. CASE q = r
    BY <1>1, <2>2 DEF IInv, TypeOK, PhaseOK, Waiting
  <2> QED BY <2>1, <2>2
<1> QED BY <1>2, <1>3, <1>4, <1>5 DEF IInv

\* The accounts and the workers: nothing of a request moves.
LEMMA ElsewhereStep ==
  ASSUME IInv, UNCHANGED <<pool, at, attempt, target, winner, chan, role, taken,
                           counted, asleep>>,
         cool' \in [Accounts -> Cooldowns], renewed' \in SUBSET Requests,
         cooling' \in SUBSET Workers, affinity' \in Accounts \cup {"none"}
  PROVE  IInv'
<1>1. TypeOK'
  BY DEF IInv, TypeOK
<1>2. ASSUME NEW h \in Channels PROVE ChannelOK(h)' /\ ReaderOK(h)'
  BY ChannelStill DEF IInv, ReaderOK, Chan
<1>3. ASSUME NEW r \in Requests PROVE PhaseOK(r)'
  BY DEF IInv, PhaseOK, Chan, Last
<1> QED BY <1>1, <1>2, <1>3 DEF IInv

-----------------------------------------------------------------------------
(* Steps that open a channel, and the return of the channel to answer from. *)

\* A call opens the slot it is for and leaves every other channel alone.
LEMMA OpenStep ==
  ASSUME IInv, NEW r \in Requests, NEW slot \in Slots, NEW place \in Places,
         OpenChannel(r, slot), at' = [at EXCEPT ![r] = place],
         \/ at[r] = "call" /\ slot = "primary" /\ place = "first"
         \/ at[r] = "hedge_call" /\ slot = "backup" /\ place = "race"
  PROVE  IInv'
<1> DEFINE h == Chan(r, slot)
<1>1. h \in Channels /\ h[1] = r /\ h[2] = attempt[r]
  BY ChanIsChannel DEF IInv
<1>2. role[h] = "none" /\ target[r] \in Workers /\ target[r] # "none"
  BY PathAssumption DEF IInv, PhaseOK, Waiting, Slots
<1>3. Untouched(h) /\ chan[h] = Unopened
  BY <1>1, <1>2 DEF IInv, ChannelOK, Untouched
<1>4. chan' = [chan EXCEPT ![h].to = target[r]] /\ role' = [role EXCEPT ![h] = "first"]
      /\ UNCHANGED <<pool, attempt, target, winner, taken, counted, cool,
                     asleep, renewed, cooling, affinity>>
  BY DEF OpenChannel
<1> HIDE DEF h
<1>5. chan'[h] = [to |-> target[r], first |-> "none", ended |-> FALSE] /\ role'[h] = "first"
  <2>1. chan'[h] = [chan[h] EXCEPT !.to = target[r]]
    BY <1>1, <1>4 DEF IInv, TypeOK
  <2>2. chan'[h] = [Unopened EXCEPT !.to = target[r]]
    BY <2>1, <1>3
  <2> QED BY <2>2, <1>1, <1>4 DEF IInv, TypeOK, Unopened
<1>6. \A g \in Channels \ {h} : chan'[g] = chan[g] /\ role'[g] = role[g]
  BY <1>1, <1>4 DEF IInv, TypeOK
<1>7. TypeOK'
  <2>1. chan' \in [Channels -> [to : Workers \cup {"none"},
                                first : {"none", "sse", "limit"}, ended : BOOLEAN]]
    BY <1>1, <1>2, <1>4, <1>5, <1>6 DEF IInv, TypeOK
  <2>2. role' \in [Channels -> {"none", "first", "loser", "drain", "main"}]
    BY <1>4 DEF IInv, TypeOK
  <2>3. at' \in [Requests -> Places]
    BY DEF IInv, TypeOK, Places
  <2> QED BY <2>1, <2>2, <2>3, <1>4 DEF IInv, TypeOK, Places
<1>8. ASSUME NEW g \in Channels PROVE ChannelOK(g)'
  <2>1. CASE g = h
    BY <2>1, <1>2, <1>3, <1>4, <1>5 DEF ChannelOK, Untouched, Opened
  <2>2. CASE g # h
    BY <2>2, <1>4, <1>6, ChannelStill DEF IInv
  <2> QED BY <2>1, <2>2
<1>9. ASSUME NEW g \in Channels PROVE ReaderOK(g)'
  <2>0. g[1] \in Requests /\ ReaderOK(g)
    BY ChannelParts DEF IInv
  <2>1. CASE g = h
    <3>1. at'[r] \in Waiting /\ attempt'[r] = attempt[r] /\ attempt[r] \in Int
      BY <1>4 DEF IInv, TypeOK, Waiting
    <3> QED BY <2>1, <1>1, <1>5, <3>1 DEF ReaderOK
  <2>2. CASE g # h /\ g[1] = r
    BY <2>0, <2>2, <1>4, <1>6 DEF ReaderOK, Chan, Waiting, IInv, TypeOK
  <2>3. CASE g[1] # r
    BY <2>0, <2>3, <1>1, <1>4, <1>6 DEF ReaderOK, Chan, IInv, TypeOK
  <2> QED BY <2>1, <2>2, <2>3
<1>10. ASSUME NEW q \in Requests PROVE PhaseOK(q)'
  <2>0. PhaseOK(q) /\ \A s \in Slots : Chan(q, s)' = Chan(q, s) /\ Chan(q, s) \in Channels
    BY <1>4, ChanIsChannel DEF IInv, Chan
  <2>1. CASE q = r
    <3>1. "primary" \in Slots /\ "backup" \in Slots /\ Chan(r, "primary") # Chan(r, "backup")
      BY DEF Slots, Chan
    <3>2. CASE slot = "primary"
      <4>1. at'[r] = "first" /\ h = Chan(r, "primary") /\ role[Chan(r, "backup")] = "none"
        BY <3>1, <3>2, <2>0, <2>1 DEF h, IInv, TypeOK, PhaseOK
      <4>2. role'[Chan(r, "backup")] = "none"
        BY <4>1, <3>1, <2>0, <2>1, <1>6
      <4> QED BY <4>1, <4>2, <3>1, <2>0, <2>1, <1>5 DEF PhaseOK, Waiting
    <3>3. CASE slot = "backup"
      <4>1. at'[r] = "race" /\ h = Chan(r, "backup") /\ role[Chan(r, "primary")] = "first"
        BY <3>1, <3>3, <2>0, <2>1 DEF h, IInv, TypeOK, PhaseOK, Waiting
      <4>2. role'[Chan(r, "primary")] = "first"
        BY <4>1, <3>1, <2>0, <2>1, <1>6
      <4> QED BY <4>1, <4>2, <3>1, <2>0, <2>1, <1>5 DEF PhaseOK, Waiting, Slots
    <3> QED BY <3>2, <3>3
  <2>2. CASE q # r
    <3>1. at'[q] = at[q] /\ \A s \in Slots : Chan(q, s) # h
      BY <2>2, <1>1, ChanIsChannel DEF IInv, TypeOK
    <3>2. \A s \in Slots : role'[Chan(q, s)] = role[Chan(q, s)]
      BY <2>0, <3>1, <1>6
    <3> QED BY <3>1, <3>2, <2>0, <1>4 DEF PhaseOK, Last, Slots
  <2> QED BY <2>1, <2>2
<1> QED BY <1>7, <1>8, <1>9, <1>10 DEF IInv

\* Both calls open a slot that was free.
LEMMA CallStep ==
  ASSUME IInv, NEW r \in Requests, Call(r) \/ CallBackup(r)
  PROVE  IInv'
BY OpenStep DEF Call, CallBackup, Goto, Slots, Places

\* The slot that is answered from was waited for; the other one is a loser from
\* now on, or was never opened.
LEMMA ReturnStep ==
  ASSUME IInv, NEW r \in Requests, NEW slot \in Slots, at[r] \in Waiting,
         role[Chan(r, slot)] = "first", taken[Chan(r, slot)] # "nothing",
         Return(r, slot),
         role' \in [Channels -> {"none", "first", "loser", "drain", "main"}],
         role'[Chan(r, slot)] = "main",
         \A g \in Channels \ {Chan(r, slot)} :
           IF g[1] = r /\ role[g] = "first" THEN role'[g] = "loser"
                                            ELSE role'[g] = role[g],
         UNCHANGED <<pool, attempt, target, chan, taken, cool, asleep, renewed,
                     cooling, affinity>>
  PROVE  IInv'
<1> DEFINE h == Chan(r, slot)
<1>1. h \in Channels /\ h[1] = r /\ h[2] = attempt[r]
  BY ChanIsChannel DEF IInv
<1>2. counted[h] = [ok |-> 0, fail |-> 0] /\ taken[h] \in {"first", "end"} /\ Opened(h)
      /\ (taken[h] = "first" => chan[h].first # "none")
      /\ (taken[h] = "end" => chan[h].ended /\ chan[h].first = "none")
  BY <1>1 DEF IInv, TypeOK, ChannelOK
<1>3. winner' = [winner EXCEPT ![r] = slot] /\ counted' = Counted(h, taken[h])
  BY DEF Return
<1>4. PICK place \in {"drain", "serve"} :
        at' = [at EXCEPT ![r] = place] /\ (place = "drain" => ~Last(r))
  BY DEF Return, Goto
<1> HIDE DEF h
<1>5. /\ counted' \in [Channels -> [ok : 0 .. 1, fail : 0 .. 1]]
      /\ counted'[h] = IF taken[h] = "first" THEN [ok |-> 1, fail |-> 0]
                       ELSE [ok |-> 0, fail |-> 1]
      /\ \A g \in Channels \ {h} : counted'[g] = counted[g]
  BY <1>1, <1>2, <1>3, CountedOnce DEF IInv
<1>6. at'[r] = place /\ winner'[r] = slot /\ \A q \in Requests \ {r} :
        at'[q] = at[q] /\ winner'[q] = winner[q]
  BY <1>3, <1>4 DEF IInv, TypeOK
<1>7. TypeOK'
  BY <1>3, <1>4, <1>5 DEF IInv, TypeOK
<1>8. ASSUME NEW g \in Channels PROVE ChannelOK(g)'
  <2>1. CASE g = h
    BY <2>1, <1>2, <1>5 DEF ChannelOK, Opened, h
  <2>2. CASE g # h /\ role'[g] = role[g]
    BY <2>2, <1>5, ChannelStill DEF IInv
  <2>3. CASE g # h /\ role'[g] # role[g]
    <3>1. role[g] = "first" /\ role'[g] = "loser"
      BY <2>3 DEF h
    <3> QED BY <2>3, <3>1, <1>5 DEF IInv, ChannelOK, Opened
  <2> QED BY <2>1, <2>2, <2>3
<1>9. ASSUME NEW g \in Channels PROVE ReaderOK(g)'
  <2>0. g[1] \in Requests /\ ReaderOK(g)
    BY ChannelParts DEF IInv
  <2>1. CASE g = h
    BY <2>1, <1>1, <1>4, <1>6 DEF ReaderOK, h, Chan, IInv, TypeOK
  <2>2. CASE g # h /\ g[1] = r
    <3>1. role'[g] # "first"
      BY <2>2 DEF h
    <3>2. role'[g] = "main" => taken[g] = "end"
      BY <2>0, <2>2 DEF h, ReaderOK, Waiting
    <3>3. role[g] = "none" => role'[g] = "none"
      BY <2>2 DEF h
    <3>4. g[2] > attempt[g[1]] => role[g] = "none"
      BY <2>0 DEF ReaderOK
    <3> QED BY <3>1, <3>2, <3>3, <3>4 DEF ReaderOK
  <2>3. CASE g[1] # r
    <3>1. role'[g] = role[g]
      BY <2>3, <1>1 DEF h
    <3> QED BY <2>0, <2>3, <3>1, <1>6 DEF ReaderOK, Chan
  <2> QED BY <2>1, <2>2, <2>3
<1>10. ASSUME NEW q \in Requests PROVE PhaseOK(q)'
  <2>0. PhaseOK(q) /\ \A s \in Slots : Chan(q, s)' = Chan(q, s) /\ Chan(q, s) \in Channels
    BY ChanIsChannel DEF IInv, Chan
  <2>1. CASE q = r
    BY <2>0, <2>1, <1>4, <1>6 DEF PhaseOK, Last, Waiting, h
  <2>2. CASE q # r
    <3>1. \A s \in Slots : role'[Chan(q, s)] = role[Chan(q, s)]
      BY <2>0, <2>2, <1>1, ChanIsChannel DEF IInv, h
    <3> QED BY <2>0, <2>2, <3>1, <1>6 DEF PhaseOK, Last, Slots
  <2> QED BY <2>1, <2>2
<1> QED BY <1>7, <1>8, <1>9, <1>10 DEF IInv

\* The one slot that is waited for, when there is no other.
LEMMA PrimaryStep ==
  ASSUME IInv, NEW r \in Requests, PrimaryFast(r) \/ OnlyPrimary(r)
  PROVE  IInv'
<1> DEFINE h == Chan(r, "primary")
<1>1. h \in Channels /\ "primary" \in Slots /\ "backup" \in Slots
  BY ChanIsChannel DEF IInv, Slots
<1>2. at[r] \in Waiting \ {"race"} /\ taken[h] # "nothing" /\ Return(r, "primary")
      /\ role' = [role EXCEPT ![h] = "main"]
      /\ UNCHANGED <<pool, attempt, target, chan, taken, cool, asleep, renewed,
                     cooling, affinity>>
  BY DEF PrimaryFast, OnlyPrimary, Waiting
<1>3. role[h] = "first" /\ role[Chan(r, "backup")] = "none"
  BY <1>2 DEF IInv, PhaseOK
<1>4. ASSUME NEW g \in Channels \ {h}, g[1] = r PROVE role[g] # "first"
  <2>1. CASE g[2] = attempt[r]
    <3>1. g = Chan(r, g[3]) /\ g[3] \in Slots
      BY <2>1, <1>4, ChannelIsChan
    <3>2. g[3] = "backup"
      BY <3>1, <1>4 DEF Slots
    <3> QED BY <3>1, <3>2, <1>3
  <2>2. CASE g[2] # attempt[r]
    BY <2>2, <1>2, <1>4 DEF IInv, ReaderOK, Waiting
  <2> QED BY <2>1, <2>2
<1>5. role'[h] = "main" /\ \A g \in Channels \ {h} : role'[g] = role[g]
  BY <1>1, <1>2 DEF IInv, TypeOK
<1>6. role' \in [Channels -> {"none", "first", "loser", "drain", "main"}]
  BY <1>2 DEF IInv, TypeOK
<1> QED BY <1>1, <1>2, <1>3, <1>4, <1>5, <1>6, ReturnStep

\* One slot wins the race and the other becomes its loser.
LEMMA RaceStep ==
  ASSUME IInv, NEW r \in Requests, Race(r)
  PROVE  IInv'
<1>1. PICK slot \in Slots, other \in Slots :
        /\ slot # other /\ taken[Chan(r, slot)] # "nothing" /\ Return(r, slot)
        /\ role' = [role EXCEPT ![Chan(r, slot)] = "main", ![Chan(r, other)] = "loser"]
  BY DEF Race, Slots
<1>2. at[r] = "race" /\ UNCHANGED <<pool, attempt, target, chan, taken, cool, asleep,
                                    renewed, cooling, affinity>>
  BY DEF Race
<1>3. Chan(r, slot) \in Channels /\ Chan(r, other) \in Channels
      /\ Chan(r, slot) # Chan(r, other) /\ Chan(r, other)[1] = r
  BY <1>1, ChanIsChannel DEF IInv
<1>4. role[Chan(r, slot)] = "first" /\ role[Chan(r, other)] = "first"
  BY <1>2 DEF IInv, PhaseOK
<1>5. ASSUME NEW g \in Channels \ {Chan(r, slot), Chan(r, other)}, g[1] = r
      PROVE  role[g] # "first"
  <2>1. CASE g[2] = attempt[r]
    BY <2>1, <1>1, <1>5, ChannelIsChan DEF Slots
  <2>2. CASE g[2] # attempt[r]
    BY <2>2, <1>2, <1>5 DEF IInv, ReaderOK, Waiting
  <2> QED BY <2>1, <2>2
<1>6. /\ role'[Chan(r, slot)] = "main" /\ role'[Chan(r, other)] = "loser"
      /\ \A g \in Channels \ {Chan(r, slot), Chan(r, other)} : role'[g] = role[g]
      /\ role' \in [Channels -> {"none", "first", "loser", "drain", "main"}]
  BY <1>1, <1>3 DEF IInv, TypeOK
<1>7. \A g \in Channels \ {Chan(r, slot)} :
        IF g[1] = r /\ role[g] = "first" THEN role'[g] = "loser" ELSE role'[g] = role[g]
  BY <1>3, <1>4, <1>5, <1>6
<1>8. at[r] \in Waiting
  BY <1>2 DEF Waiting
<1> QED BY <1>1, <1>2, <1>4, <1>6, <1>7, <1>8, ReturnStep

-----------------------------------------------------------------------------
(* Steps of the readers and of the workers: one channel moves.             *)

\* What a channel's own step leaves of the rest.  A step that reads the answer
\* to its end may take the handler on: from the drain to the sleep before the
\* retry, from the delivery to done.
LEMMA ChannelStep ==
  ASSUME IInv, TypeOK', NEW h \in Channels, ChannelOK(h)',
         \A g \in Channels \ {h} : /\ chan'[g] = chan[g] /\ role'[g] = role[g]
                                   /\ taken'[g] = taken[g] /\ counted'[g] = counted[g],
         role'[h] \in {role[h], "drain"},
         role'[h] # role[h] => role[h] = "loser",
         taken[h] = "end" => taken'[h] = "end",
         UNCHANGED <<attempt, target, winner>>,
         \/ at' = at
         \/ /\ h = Chan(h[1], winner[h[1]]) /\ taken'[h] = "end"
            /\ \E place \in {"sleep", "done"} :
                 /\ at' = [at EXCEPT ![h[1]] = place]
                 /\ at[h[1]] = IF place = "sleep" THEN "drain" ELSE "serve"
  PROVE  IInv'
<1>1. ASSUME NEW g \in Channels PROVE ChannelOK(g)'
  BY ChannelStill DEF IInv
<1>2. h[1] \in Requests /\ \A g \in Channels : g[1] \in Requests
  BY ChannelParts
<1>3. ASSUME NEW q \in Requests, at'[q] # at[q]
      PROVE  /\ q = h[1] /\ h = Chan(q, winner[q]) /\ taken'[h] = "end"
             /\ \/ at[q] = "drain" /\ at'[q] = "sleep"
                \/ at[q] = "serve" /\ at'[q] = "done"
  BY <1>2, <1>3 DEF IInv, TypeOK
<1>4. ASSUME NEW g \in Channels PROVE ReaderOK(g)'
  <2>0. g[1] \in Requests /\ ReaderOK(g) /\ Chan(g[1], winner[g[1]])' = Chan(g[1], winner[g[1]])
    BY <1>2 DEF IInv, Chan
  <2>1. /\ role'[g] = "first" => role[g] = "first"
        /\ role'[g] = "main" => role[g] = "main"
        /\ role[g] = "none" => role'[g] = "none"
        /\ taken[g] = "end" => taken'[g] = "end"
    OBVIOUS
  <2>2. CASE at'[g[1]] = at[g[1]]
    BY <2>0, <2>1, <2>2 DEF ReaderOK
  <2>3. CASE at'[g[1]] # at[g[1]]
    <3>1. role[g] = "first" => FALSE
      BY <2>0, <2>3, <1>3 DEF ReaderOK, Waiting
    <3>2. role[g] = "main" => taken'[g] = "end"
      BY <2>0, <2>1, <2>3, <1>3 DEF ReaderOK
    <3> QED BY <2>0, <2>1, <3>1, <3>2 DEF ReaderOK
  <2> QED BY <2>2, <2>3
<1>5. ASSUME NEW q \in Requests PROVE PhaseOK(q)'
  <2>0. PhaseOK(q) /\ \A s \in Slots : Chan(q, s)' = Chan(q, s) /\ Chan(q, s) \in Channels
    BY ChanIsChannel DEF IInv, Chan
  <2>1. \A s \in Slots : role[Chan(q, s)] # "loser" =>
          role'[Chan(q, s)] = role[Chan(q, s)]
    BY <2>0
  <2>2. CASE at'[q] = at[q]
    BY <2>0, <2>1, <2>2 DEF PhaseOK, Last, Slots
  <2>3. CASE at'[q] # at[q]
    BY <2>0, <2>3, <1>3 DEF PhaseOK, Last, Waiting
  <2> QED BY <2>2, <2>3
<1> QED BY <1>1, <1>4, <1>5 DEF IInv

\* The dropped answer was read to its end before the sleep.
LEMMA RetryDrainedStep ==
  ASSUME IInv, NEW r \in Requests, RetryDrained(r)
  PROVE  IInv'
<1>1. PICK h : h = Chan(r, winner[r])
  OBVIOUS
<1>2. /\ at[r] = "drain" /\ chan[h].ended /\ taken' = [taken EXCEPT ![h] = "end"]
      /\ at' = [at EXCEPT ![r] = "sleep"]
      /\ asleep' = [asleep EXCEPT ![r] = AccountOf[chan[h].to]]
      /\ UNCHANGED <<pool, attempt, target, winner, chan, role, counted, cool,
                     renewed, cooling, affinity>>
  BY <1>1 DEF RetryDrained, Sleep, Goto
<1>3. winner[r] \in Slots /\ role[h] = "main"
  BY <1>1, <1>2 DEF IInv, PhaseOK
<1>4. h \in Channels /\ h[1] = r
  BY <1>1, <1>3, ChanIsChannel DEF IInv
<1>5. AccountOf[chan[h].to] \in Accounts
  BY <1>3, <1>4, ChoiceAssumption DEF IInv, TypeOK, ChannelOK, Opened
<1>6. TypeOK'
  BY <1>2, <1>5 DEF IInv, TypeOK
<1>7. taken'[h] = "end" /\ \A g \in Channels \ {h} : taken'[g] = taken[g]
  BY <1>2, <1>4 DEF IInv, TypeOK
<1>8. ChannelOK(h)'
  BY <1>2, <1>3, <1>4, <1>7 DEF IInv, ChannelOK, Opened
<1> QED BY <1>1, <1>2, <1>4, <1>6, <1>7, <1>8, ChannelStep

\* The answer is done when it was read to its end.
LEMMA ServeStep ==
  ASSUME IInv, NEW r \in Requests, Serve(r)
  PROVE  IInv'
<1>1. PICK h : h = Chan(r, winner[r])
  OBVIOUS
<1>2. /\ at[r] = "serve" /\ chan[h].ended /\ taken' = [taken EXCEPT ![h] = "end"]
      /\ at' = [at EXCEPT ![r] = "done"]
      /\ UNCHANGED <<pool, attempt, target, winner, chan, role, counted, cool,
                     asleep, renewed, cooling, affinity>>
  BY <1>1 DEF Serve, Goto
<1>3. winner[r] \in Slots /\ role[h] = "main"
  BY <1>1, <1>2 DEF IInv, PhaseOK
<1>4. h \in Channels /\ h[1] = r
  BY <1>1, <1>3, ChanIsChannel DEF IInv
<1>5. TypeOK'
  BY <1>2 DEF IInv, TypeOK
<1>6. taken'[h] = "end" /\ \A g \in Channels \ {h} : taken'[g] = taken[g]
  BY <1>2, <1>4 DEF IInv, TypeOK
<1>7. ChannelOK(h)'
  BY <1>2, <1>3, <1>4, <1>6 DEF IInv, ChannelOK, Opened
<1> QED BY <1>1, <1>2, <1>4, <1>5, <1>6, <1>7, ChannelStep

\* The first-byte task sees a byte, or an end without one.
LEMMA ConsumeStep ==
  ASSUME IInv, NEW h \in Channels, Consume(h)
  PROVE  IInv'
<1>1. PICK mark \in {"first", "end"} :
        /\ taken' = [taken EXCEPT ![h] = mark]
        /\ IF mark = "first" THEN chan[h].first # "none"
           ELSE chan[h].first = "none" /\ chan[h].ended
  BY DEF Consume
<1>2. role[h] \in {"first", "loser"} /\ taken[h] = "nothing"
      /\ UNCHANGED <<pool, at, attempt, target, winner, chan, role, counted, cool,
                     asleep, renewed, cooling, affinity>>
  BY DEF Consume
<1>3. TypeOK'
  BY <1>1, <1>2 DEF IInv, TypeOK
<1>4. taken'[h] = mark /\ \A g \in Channels \ {h} : taken'[g] = taken[g]
  BY <1>1 DEF IInv, TypeOK
<1>5. ChannelOK(h)'
  BY <1>1, <1>2, <1>4 DEF IInv, ChannelOK, Opened
<1> QED BY <1>2, <1>3, <1>4, <1>5, ChannelStep

\* The drain counts a loser once, by what its task saw.
LEMMA LoserCountedStep ==
  ASSUME IInv, NEW h \in Channels, LoserCounted(h)
  PROVE  IInv'
<1>1. /\ role[h] = "loser" /\ taken[h] # "nothing"
      /\ counted' = Counted(h, taken[h]) /\ role' = [role EXCEPT ![h] = "drain"]
      /\ UNCHANGED <<pool, at, attempt, target, winner, chan, taken, cool, asleep,
                     renewed, cooling, affinity>>
  BY DEF LoserCounted
<1>2. counted[h] = [ok |-> 0, fail |-> 0] /\ taken[h] \in {"first", "end"} /\ Opened(h)
      /\ (taken[h] = "first" => chan[h].first # "none")
      /\ (taken[h] = "end" => chan[h].ended /\ chan[h].first = "none")
  BY <1>1 DEF IInv, TypeOK, ChannelOK
<1>3. /\ counted' \in [Channels -> [ok : 0 .. 1, fail : 0 .. 1]]
      /\ counted'[h] = IF taken[h] = "first" THEN [ok |-> 1, fail |-> 0]
                       ELSE [ok |-> 0, fail |-> 1]
      /\ \A g \in Channels \ {h} : counted'[g] = counted[g]
  BY <1>1, <1>2, CountedOnce DEF IInv
<1>4. role'[h] = "drain" /\ \A g \in Channels \ {h} : role'[g] = role[g]
  BY <1>1 DEF IInv, TypeOK
<1>5. TypeOK'
  BY <1>1, <1>3 DEF IInv, TypeOK
<1>6. ChannelOK(h)'
  BY <1>1, <1>2, <1>3, <1>4 DEF ChannelOK, Opened
<1> QED BY <1>1, <1>3, <1>4, <1>5, <1>6, ChannelStep

\* A loser that was counted is read to its end.
LEMMA LoserDrainedStep ==
  ASSUME IInv, NEW h \in Channels, LoserDrained(h)
  PROVE  IInv'
<1>1. /\ role[h] = "drain" /\ taken' = [taken EXCEPT ![h] = "end"]
      /\ UNCHANGED <<pool, at, attempt, target, winner, chan, role, counted, cool,
                     asleep, renewed, cooling, affinity>>
  BY DEF LoserDrained
<1>2. TypeOK'
  BY <1>1 DEF IInv, TypeOK
<1>3. taken'[h] = "end" /\ \A g \in Channels \ {h} : taken'[g] = taken[g]
  BY <1>1 DEF IInv, TypeOK
<1>4. ChannelOK(h)'
  BY <1>1, <1>3 DEF IInv, ChannelOK, Opened
<1> QED BY <1>1, <1>2, <1>3, <1>4, ChannelStep

\* A first chunk comes once, before the end, to a channel that is waited for.
LEMMA FirstChunkStep ==
  ASSUME IInv, NEW h \in Channels, FirstChunk(h)
  PROVE  IInv'
<1>1. PICK chunk \in {"sse", "limit"} : chan' = [chan EXCEPT ![h].first = chunk]
  BY DEF FirstChunk
<1>2. Opened(h) /\ ~chan[h].ended /\ chan[h].first = "none"
      /\ UNCHANGED <<pool, at, attempt, target, winner, role, taken, counted,
                     asleep, cooling, affinity>>
  BY DEF FirstChunk
<1>3. cool' \in [Accounts -> Cooldowns] /\ renewed' \in SUBSET Requests
  BY DEF FirstChunk, Mark, IInv, TypeOK, Cooldowns
<1>4. chan'[h] = [to |-> chan[h].to, first |-> chunk, ended |-> FALSE]
      /\ \A g \in Channels \ {h} : chan'[g] = chan[g]
  BY <1>1, <1>2 DEF IInv, TypeOK
<1>5. chan' \in [Channels -> [to : Workers \cup {"none"},
                              first : {"none", "sse", "limit"}, ended : BOOLEAN]]
  BY <1>1, <1>4 DEF IInv, TypeOK
<1>6. TypeOK'
  BY <1>2, <1>3, <1>5 DEF IInv, TypeOK
<1>7. ChannelOK(h)'
  BY <1>2, <1>4 DEF IInv, TypeOK, ChannelOK, Untouched, Opened, Unopened
<1> QED BY <1>2, <1>4, <1>6, <1>7, ChannelStep

\* A channel ends once, and its worker cools down.
LEMMA EndChannelStep ==
  ASSUME IInv, NEW h \in Channels, EndChannel(h)
  PROVE  IInv'
<1>1. Opened(h) /\ ~chan[h].ended /\ chan' = [chan EXCEPT ![h].ended = TRUE]
      /\ cooling' \in {cooling, cooling \cup {chan[h].to}}
      /\ UNCHANGED <<pool, at, attempt, target, winner, role, taken, counted,
                     cool, asleep, renewed, affinity>>
  BY DEF EndChannel
<1>2. /\ chan' \in [Channels -> [to : Workers \cup {"none"},
                                first : {"none", "sse", "limit"}, ended : BOOLEAN]]
      /\ chan'[h].to = chan[h].to /\ chan'[h].first = chan[h].first /\ chan'[h].ended = TRUE
  <2>1. PICK A, B : A = Workers \cup {"none"} /\ B = {"none", "sse", "limit"}
    OBVIOUS
  <2>2. chan \in [Channels -> [to : A, first : B, ended : BOOLEAN]]
    BY <2>1 DEF IInv, TypeOK
  <2>3. /\ chan' \in [Channels -> [to : A, first : B, ended : BOOLEAN]]
        /\ chan'[h].to = chan[h].to /\ chan'[h].first = chan[h].first
        /\ chan'[h].ended = TRUE
    <3>1. chan' = [chan EXCEPT ![h].ended = TRUE]
      BY <1>1
    <3>2. chan' \in [Channels -> [to : A, first : B, ended : BOOLEAN]]
      BY <2>2, <3>1
    <3>3. chan'[h].to = chan[h].to /\ chan'[h].first = chan[h].first
      BY <2>2, <3>1
    <3>4. chan'[h].ended = TRUE
      BY <2>2, <3>1
    <3> QED BY <3>2, <3>3, <3>4
  <2> QED BY <2>1, <2>3
<1>3. \A g \in Channels \ {h} : chan'[g] = chan[g]
  BY <1>1 DEF IInv, TypeOK
<1>4. cooling' \in SUBSET Workers
  BY <1>1 DEF IInv, TypeOK, Opened
<1>5. TypeOK'
  BY <1>1, <1>2, <1>4 DEF IInv, TypeOK
<1>6. ChannelOK(h)'
  BY <1>1, <1>2 DEF IInv, TypeOK, ChannelOK, Untouched, Opened, Unopened
<1> QED BY <1>1, <1>3, <1>5, <1>6, ChannelStep

-----------------------------------------------------------------------------
(* The theorems.                                                           *)

\* The request path starts with nothing opened.
LEMMA InitInvariant ==
  Init => IInv
<1> SUFFICES ASSUME Init PROVE IInv
  OBVIOUS
<1>1. TypeOK
  <2>1. chan \in [Channels -> [to : Workers \cup {"none"},
                               first : {"none", "sse", "limit"}, ended : BOOLEAN]]
    BY DEF Init, Unopened
  <2>2. counted \in [Channels -> [ok : 0 .. 1, fail : 0 .. 1]]
    BY DEF Init
  <2>3. attempt \in [Requests -> 1 .. MAX_ATTEMPTS]
    BY PathAssumption DEF Init
  <2> QED BY <2>1, <2>2, <2>3 DEF Init, TypeOK, Cooldowns
<1>2. \A h \in Channels : ChannelOK(h) /\ ReaderOK(h)
  BY DEF Init, ChannelOK, ReaderOK, Untouched
<1>3. ASSUME NEW r \in Requests PROVE PhaseOK(r)
  <2>1. at[r] = "check" /\ \A s \in Slots : role[Chan(r, s)] = "none"
    BY <1>1, ChanIsChannel DEF Init
  <2> QED BY <2>1 DEF PhaseOK, Waiting
<1> QED BY <1>1, <1>2, <1>3 DEF IInv

\* No step of a handler, of a reader, of a worker or of a cooldown breaks it.
LEMMA NextInvariant ==
  IInv /\ [Next]_vars => IInv'
<1> SUFFICES ASSUME IInv, [Next]_vars PROVE IInv'
  OBVIOUS
<1>1. ASSUME NEW r \in Requests, Handler(r) PROVE IInv'
  BY <1>1, CheckStep, WakeStep, RetryDrainedStep, PickStep, CallStep, PrimaryStep,
     PrimarySlowStep, PickBackupStep, RaceStep, ServeStep DEF Handler
<1>2. ASSUME NEW r \in Requests, Raise(r) \/ Disconnect(r) PROVE IInv'
  BY <1>2, RaiseStep, DisconnectStep
<1>3. ASSUME NEW h \in Channels,
             Consume(h) \/ LoserCounted(h) \/ LoserDrained(h) \/ FirstChunk(h)
               \/ EndChannel(h)
      PROVE  IInv'
  BY <1>3, ConsumeStep, LoserCountedStep, LoserDrainedStep, FirstChunkStep,
     EndChannelStep
<1>4. ASSUME NEW a \in Accounts, MarkElsewhere(a) PROVE IInv'
  <2>1. cool' \in [Accounts -> Cooldowns] /\ renewed' \in SUBSET Requests
    BY <1>4 DEF MarkElsewhere, Mark, IInv, TypeOK, Cooldowns
  <2> QED BY <1>4, <2>1, ElsewhereStep DEF MarkElsewhere, IInv, TypeOK
<1>5. ASSUME NEW a \in Accounts, Expire(a) PROVE IInv'
  <2>1. cool' \in [Accounts -> Cooldowns]
    BY <1>5 DEF Expire, IInv, TypeOK, Cooldowns
  <2> QED BY <1>5, <2>1, ElsewhereStep DEF Expire, IInv, TypeOK
<1>6. ASSUME NEW w \in Workers, Cooled(w) PROVE IInv'
  BY <1>6, ElsewhereStep DEF Cooled, IInv, TypeOK
<1>7. CASE Unbind
  BY <1>7, ElsewhereStep DEF Unbind, IInv, TypeOK
<1>8. CASE UNCHANGED vars
  BY <1>8, ElsewhereStep DEF vars, IInv, TypeOK
<1> QED BY <1>1, <1>2, <1>3, <1>4, <1>5, <1>6, <1>7, <1>8 DEF Next

\* The request path never leaves the inductive invariant.
LEMMA Invariant == Spec => []IInv
BY InitInvariant, NextInvariant, PTL DEF Spec

\* Every variable of the request path keeps its type: an attempt never passes
\* _RL_RETRY_MAX_ATTEMPTS, a channel goes to a worker, and a worker's streak
\* counts a channel at most once either way.
THEOREM TypeCorrect == Spec => []TypeOK
<1>1. IInv => TypeOK
  BY DEF IInv
<1> QED BY <1>1, Invariant, PTL

\* mark_request_success and mark_intercept_failure: whichever of the handler and
\* the drain of the loser counts a channel, it is counted once, a success only
\* with bytes and a failure only when it closed without.
THEOREM StreaksMoveRight == Spec => []CountedRight
<1>1. IInv => CountedRight
  <2> SUFFICES ASSUME IInv, NEW h \in Channels
               PROVE  /\ counted[h].ok + counted[h].fail <= 1
                      /\ counted[h].ok = 1 => chan[h].first # "none"
                      /\ counted[h].fail = 1 => chan[h].ended /\ chan[h].first = "none"
    BY DEF CountedRight
  <2>1. ChannelOK(h) /\ role[h] \in {"none", "first", "loser", "drain", "main"}
    BY DEF IInv, TypeOK
  <2> QED BY <2>1 DEF ChannelOK, Untouched
<1> QED BY <1>1, Invariant, PTL

\* _open_with_hedge, _drain_loser, _drain_channel and the delivery: a channel
\* whose end is still to come is read by a first-byte task of the attempt that
\* runs, by the handler, or by the task that drains it; no retry and no finished
\* answer leaves one behind.  A hedge that raises leaves its primary, a client
\* that goes away the answer it was sent, and neither leaves anything else.
THEOREM EveryChannelHasReader == Spec => []NeverAbandoned
<1>1. IInv => NeverAbandoned
  <2> SUFFICES ASSUME IInv, NEW h \in Channels, Opened(h), taken[h] # "end"
               PROVE  \/ role[h] \in {"loser", "drain"}
                      \/ /\ h[2] = attempt[h[1]]
                         /\ \/ role[h] = "main" /\ at[h[1]] \in {"drain", "serve"}
                            \/ role[h] = "first" /\ at[h[1]] \in Waiting
                      \/ LeftBehind(h)
    BY DEF NeverAbandoned, Waiting
  <2>1. role[h] \in {"first", "loser", "drain", "main"}
    BY DEF IInv, TypeOK, ChannelOK, Untouched, Opened, Unopened
  <2>2. CASE role[h] = "first"
    BY <2>2 DEF IInv, ReaderOK, LeftBehind
  <2>3. CASE role[h] = "main"
    <3>1. h = Chan(h[1], winner[h[1]]) /\ at[h[1]] \in {"drain", "serve", "gone"}
      BY <2>3 DEF IInv, ReaderOK
    <3>2. h[2] = attempt[h[1]] /\ h[3] = winner[h[1]]
      BY <3>1 DEF Chan
    <3> QED BY <2>3, <3>1, <3>2 DEF LeftBehind
  <2> QED BY <2>1, <2>2, <2>3
<1> QED BY <1>1, Invariant, PTL

-----------------------------------------------------------------------------
(***************************************************************************)
(* What pick promises, of the selection layers themselves: for every pool, *)
(* every table of limited accounts and every load.                         *)
(***************************************************************************)

\* Of some workers, one has the least of any measure: those below it are a set
\* strictly smaller than those below another.
LEMMA SomeLeast ==
  ASSUME NEW f \in [Workers -> Int], NEW S \in SUBSET Workers, S # {}
  PROVE  \E w \in S : \A v \in S : f[w] <= f[v]
<1> DEFINE Below(w) == {v \in Workers : f[v] < f[w]}
           Belows == {Below(w) : w \in S}
<1>1. IsWellFoundedOn(StrictSubsetOrdering(Workers), SUBSET Workers)
  BY FS_StrictSubsetOrderingWellFounded, FS_FiniteSubsetsOfFinite, ChoiceAssumption
<1>2. Belows \subseteq SUBSET Workers /\ Belows # {}
  OBVIOUS
<1>3. PICK B \in Belows : \A C \in Belows : <<C, B>> \notin StrictSubsetOrdering(Workers)
  <2> HIDE DEF Belows
  <2> QED BY <1>1, <1>2, WFMin
<1>4. PICK w \in S : B = Below(w)
  OBVIOUS
<1>5. ASSUME NEW v \in S, f[v] < f[w] PROVE FALSE
  <2>1. Below(v) \subseteq Below(w) /\ v \in Below(w) /\ v \notin Below(v)
    BY <1>5
  <2>2. <<Below(v), Below(w)>> \in StrictSubsetOrdering(Workers)
    <3>1. Below(v) \in SUBSET Workers /\ Below(w) \in SUBSET Workers
      OBVIOUS
    <3> HIDE DEF Below
    <3> QED BY <2>1, <3>1 DEF StrictSubsetOrdering
  <2> QED BY <1>3, <1>4, <2>2
<1>6. \A v \in S : f[w] <= f[v]
  <2> SUFFICES ASSUME NEW v \in S PROVE f[w] <= f[v]
    OBVIOUS
  <2>1. f[v] \in Int /\ f[w] \in Int /\ ~(f[v] < f[w])
    BY <1>5
  <2> QED BY <2>1
<1> QED BY <1>6

\* Some worker of a set is of its lowest tier.
LEMMA TopTierExists ==
  ASSUME NEW S \in SUBSET Workers, S # {}
  PROVE  TopTier(S) # {}
<1> DEFINE f == [w \in Workers |-> Tier(w)]
<1>1. f \in [Workers -> Int]
  BY ChoiceAssumption DEF Tier
<1>2. PICK w \in S : \A v \in S : f[w] <= f[v]
  <2> HIDE DEF f
  <2> QED BY <1>1, SomeLeast
<1> QED BY <1>2 DEF TopTier

\* _select_within: it finds a worker, an idle one when there is one, and a cool
\* idle one when there is one.
LEMMA SelectsWithin ==
  ASSUME NEW S \in SUBSET Workers, S # {},
         NEW inflight \in [Workers -> Nat], NEW busy
  PROVE  /\ SelectWithin(S, inflight, busy) # {}
         /\ SelectWithin(S, inflight, busy) \subseteq S
         /\ (\E v \in S : inflight[v] = 0) =>
              \A w \in SelectWithin(S, inflight, busy) : inflight[w] = 0
         /\ CoolIdle(S, inflight, busy) # {} =>
              SelectWithin(S, inflight, busy) = CoolIdle(S, inflight, busy)
<1>1. inflight \in [Workers -> Int]
  OBVIOUS
<1>2. {w \in S : \A v \in S : inflight[w] <= inflight[v]} # {}
  BY <1>1, SomeLeast
<1> QED BY <1>2 DEF SelectWithin, CoolIdle

\* _select_with_priority: of any candidates it takes one.  While a candidate is
\* cool and idle it takes such a one, and no cool idle candidate is of a lower
\* tier; otherwise it stays on the lowest tier, busy or not, and takes an idle
\* worker of it when there is one.
THEOREM LowestTierFirst ==
  ASSUME NEW S \in SUBSET Workers, S # {},
         NEW inflight \in [Workers -> Nat], NEW busy,
         NEW cool_idle, cool_idle = CoolIdle(S, inflight, busy)
  PROVE  /\ Preferred(S, inflight, busy) # {}
         /\ cool_idle # {} =>
              Preferred(S, inflight, busy) = TopTier(cool_idle)
         /\ cool_idle = {} =>
              /\ Preferred(S, inflight, busy) \subseteq TopTier(S)
              /\ (\E v \in TopTier(S) : inflight[v] = 0) =>
                   \A w \in Preferred(S, inflight, busy) : inflight[w] = 0
<1>1. cool_idle \in SUBSET Workers
  BY DEF CoolIdle
<1>2. CASE cool_idle = {}
  <2> DEFINE top == TopTier(S)
  <2>1. Preferred(S, inflight, busy) = SelectWithin(top, inflight, busy)
    BY <1>2 DEF Preferred
  <2>2. top # {} /\ top \in SUBSET Workers
    BY TopTierExists DEF TopTier
  <2>3. /\ SelectWithin(top, inflight, busy) # {}
        /\ SelectWithin(top, inflight, busy) \subseteq top
        /\ (\E v \in top : inflight[v] = 0) =>
             \A w \in SelectWithin(top, inflight, busy) : inflight[w] = 0
    <3> HIDE DEF top
    <3> QED BY <2>2, SelectsWithin
  <2> QED BY <1>2, <2>1, <2>3
<1>3. CASE cool_idle # {}
  <2> DEFINE tier == {w \in S : \E v \in TopTier(cool_idle) : Tier(w) = Tier(v)}
  <2>1. Preferred(S, inflight, busy) = SelectWithin(tier, inflight, busy)
    BY <1>3 DEF Preferred
  <2>2. \A w \in Workers : Tier(w) \in Int
    BY ChoiceAssumption DEF Tier
  <2>3. TopTier(cool_idle) # {} /\ TopTier(cool_idle) \subseteq cool_idle
    BY <1>1, <1>3, TopTierExists DEF TopTier
  <2>4. CoolIdle(tier, inflight, busy) = TopTier(cool_idle)
    BY <1>1, <2>2, <2>3 DEF CoolIdle, TopTier
  <2>5. tier # {} /\ tier \in SUBSET Workers
    BY <2>3 DEF CoolIdle
  <2> HIDE DEF tier
  <2> QED BY <1>3, <2>1, <2>3, <2>4, <2>5, SelectsWithin
<1> QED BY <1>2, <1>3

\* pick, from a token's whole pool, with or without a binding: it finds a worker
\* of the pool; one of a limited account only when the whole pool is limited;
\* and one of the bound account whenever that has a worker it may use.
THEOREM PickFindsWorker ==
  ASSUME NEW S \in SUBSET Workers, S # {}, NEW limited, NEW account,
         NEW inflight \in [Workers -> Nat], NEW busy,
         NEW near \in {Usable(S, limited), NearAccount(Usable(S, limited), account)}
  PROVE  /\ Preferred(near, inflight, busy) # {}
         /\ Preferred(near, inflight, busy) \subseteq S
         /\ \A w \in Preferred(near, inflight, busy) :
              AccountOf[w] \in limited => \A v \in S : AccountOf[v] \in limited
         /\ \A v \in S : AccountOf[v] = account /\ account \notin limited =>
              \A w \in Preferred(NearAccount(Usable(S, limited), account), inflight, busy) :
                AccountOf[w] = account
<1>1. Usable(S, limited) # {} /\ Usable(S, limited) \subseteq S
  BY DEF Usable
<1>2. \A w \in Usable(S, limited) :
        AccountOf[w] \in limited => \A v \in S : AccountOf[v] \in limited
  BY DEF Usable
<1>3. near # {} /\ near \subseteq Usable(S, limited)
  BY <1>1 DEF NearAccount
<1>4. Preferred(near, inflight, busy) # {}
  BY <1>1, <1>3, LowestTierFirst
<1>5. Preferred(near, inflight, busy) \subseteq near
  BY <1>1, <1>3, PreferredWithin
<1>6. ASSUME NEW v \in S, AccountOf[v] = account, account \notin limited,
             NEW w \in Preferred(NearAccount(Usable(S, limited), account), inflight, busy)
      PROVE  AccountOf[w] = account
  <2>1. v \in Usable(S, limited)
    BY <1>6 DEF Usable
  <2>2. w \in NearAccount(Usable(S, limited), account)
    BY <1>1, <1>6, PreferredWithin, UsableWithin
  <2> QED BY <1>6, <2>1, <2>2 DEF NearAccount
<1> QED BY <1>1, <1>2, <1>3, <1>4, <1>5, <1>6

=============================================================================
