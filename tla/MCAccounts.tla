----------------------------- MODULE MCAccounts -----------------------------
(* Two clients who want the same mailbox. *)
EXTENDS Accounts
CONSTANTS c1, c2, k1, k2, k3, m
Shared == [c \in Clients |-> m]
=============================================================================
