---------------------------- MODULE MCAppSession ----------------------------
(* AppSession for TLC. *)
EXTENDS AppSessionFlow, TLC

CONSTANTS u1, u2

TwoUsers == {u1, u2}

\* The accounts are interchangeable; only for runs without liveness.
SwapUsers == Permutations(TwoUsers)
=============================================================================
