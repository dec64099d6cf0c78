----------------------------- MODULE MCAccounts -----------------------------
(* One account that config.yaml always has, and one that is logged in from  *)
(* the dashboard, or entered in config.yaml, or both, or only wired there   *)
(* by hand; config.yaml carves out one key, and the api key has the pool    *)
(* the start gives it.  The first is named like "team", the second "team-a".*)
EXTENDS Accounts, TLC

CONSTANTS s1, d1, key, f1, f2

Hyphened(n) == IF n = s1 THEN {d1} ELSE {}

Versions ==
  {[accounts |-> s1 :> Nil, users |-> key :> {s1}],
   [accounts |-> s1 :> Nil @@ d1 :> Nil, users |-> key :> {s1, d1}],
   [accounts |-> s1 :> Nil, users |-> key :> {s1, d1}]}

Symmetry == Permutations({f1, f2})
=============================================================================
