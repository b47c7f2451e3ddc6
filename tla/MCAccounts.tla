----------------------------- MODULE MCAccounts -----------------------------
(* Instances of Accounts for TLC. *)
EXTENDS Accounts, TLC

\* Emails are alike, and so are the slots.
AccountSymmetry == Permutations(Emails) \cup Permutations(Signups)
=============================================================================
