---------------------------- MODULE MCMatchStore ----------------------------
(* Small instances of MatchStore: every game is between the two users.     *)
EXTENDS MatchStore

CONSTANTS ann, bob, m1, m2

MCPlayersOf == [m \in Match |-> User]
=============================================================================
