------------------------------- MODULE MCHub -------------------------------
(* Small instances of Hub: a user with two connections and one friend.     *)
EXTENDS Hub

CONSTANTS ann, bob, a1, a2, b1

MCOwner == [c \in Conn |-> IF c = b1 THEN bob ELSE ann]
MCFriends == [u \in User |-> User \ {u}]
=============================================================================
