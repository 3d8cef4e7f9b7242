----------------------------- MODULE MCAccounts -----------------------------
(* Small instances of Accounts: two users and usernames, and three       *)
(* handlers at work at once.                                               *)
EXTENDS Accounts

CONSTANTS ann, bob, h1, h2, h3

=============================================================================
