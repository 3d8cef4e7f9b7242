---------------------------- MODULE MCChallenge ----------------------------
(* Small instances of Challenge: two users, the second of whom may have    *)
(* two connections.                                                        *)
EXTENDS Challenge

CONSTANTS ann, bob, a1, b1, b2

MCOwner == [c \in Client |-> IF c = a1 THEN ann ELSE bob]
MCChanges == {1}
=============================================================================
