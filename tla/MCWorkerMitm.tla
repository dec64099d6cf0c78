----------------------------- MODULE MCWorkerMitm -----------------------------
(* Instances of WorkerMitm for TLC.                                        *)
EXTENDS WorkerMitm, TLC

CallSymmetry == Permutations(Calls)
=============================================================================
