----------------------------- MODULE MCRequestPath -----------------------------
(* Instances of RequestPath for TLC.                                       *)
EXTENDS RequestPath, TLC

CONSTANTS w1, w2, w3, a1, a2

\* Two workers of the preferred account, one of the other.
TwoAccounts == [w \in Workers |-> IF w = w3 THEN a2 ELSE a1]
OneOrTwo == {{w1}, Workers}
MaxFirst == [a \in Accounts |-> IF a = a1 THEN 0 ELSE 200]
=============================================================================
