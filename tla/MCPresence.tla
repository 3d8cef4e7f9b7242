----------------------------- MODULE MCPresence -----------------------------
(* A small instance of Presence: ann, who may have two connections, and    *)
(* her friend bob play games against each other.                           *)
EXTENDS Presence

CONSTANTS ann, bob, a1, a2, b1

MCOwner == [c \in Conn |-> IF c = b1 THEN bob ELSE ann]
MCFriends == [u \in User |-> User \ {u}]
MCPlayersOf == [g \in Game |-> [i \in 1..2 |-> IF i = 1 THEN ann ELSE bob]]
=============================================================================
