----------------------------- MODULE MCFirAuth -----------------------------
(***************************************************************************)
(* FirAuth for TLC: accounts are interchangeable.                           *)
(***************************************************************************)
EXTENDS FirAuth, TLC

Accounts == Permutations(Uid)
=============================================================================
