----------------------------- MODULE WorkerChoice -----------------------------
(***************************************************************************)
(* Which worker of a token's pool a request may go to: the selection       *)
(* layers of SessionManager.pick (src/src/session/manager.py).  The        *)
(* round-robin index picks one worker of the set Preferred; the callers    *)
(* of this module leave that last choice open.                             *)
(***************************************************************************)
EXTENDS Integers, FiniteSets

CONSTANTS
  Workers,    (* user_ids                                          *)
  Accounts,   (* account names                                     *)
  AccountOf,  (* worker -> account                                 *)
  Priority    (* account -> priority, lower first                  *)

ASSUME ChoiceAssumption ==
  /\ IsFiniteSet(Workers)
  /\ AccountOf \in [Workers -> Accounts]
  /\ Priority \in [Accounts -> Int]

Tier(w) == Priority[AccountOf[w]]

\* The workers of unlimited accounts, or all of them when there is none.
Usable(pool, limited) ==
  LET free == {w \in pool : AccountOf[w] \notin limited}
  IN IF free = {} THEN pool ELSE free

\* Narrowed to the account the conversation is bound to, when it has workers.
NearAccount(usable, account) ==
  LET same == {w \in usable : AccountOf[w] = account}
  IN IF same = {} THEN usable ELSE same

CoolIdle(S, inflight, cooling) ==
  {w \in S : inflight[w] = 0 /\ w \notin cooling}

TopTier(S) == {w \in S : \A v \in S : Tier(w) <= Tier(v)}

\* Within one set: cool idle, then idle, then fewest in flight.
SelectWithin(S, inflight, cooling) ==
  LET cool == CoolIdle(S, inflight, cooling)
      idle == {w \in S : inflight[w] = 0}
  IN IF cool # {} THEN cool
     ELSE IF idle # {} THEN idle
     ELSE {w \in S : \A v \in S : inflight[w] <= inflight[v]}

\* The lowest tier with a cool idle worker, or else the lowest tier.
Preferred(S, inflight, cooling) ==
  LET cool == CoolIdle(S, inflight, cooling)
      tier == IF cool = {} THEN TopTier(S)
              ELSE {w \in S : \E v \in TopTier(cool) : Tier(w) = Tier(v)}
  IN SelectWithin(tier, inflight, cooling)
=============================================================================
