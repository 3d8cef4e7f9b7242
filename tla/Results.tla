------------------------------ MODULE Results ------------------------------
(***************************************************************************)
(* What the database promises of finished games, whatever fails: a result  *)
(* is recorded once and stays, and with it, in the same instant, the       *)
(* ratings of the two players that it changes.                             *)
(***************************************************************************)
CONSTANTS
  User,       \* user IDs
  Match,      \* match IDs
  PlayersOf,  \* the two players of each match
  NoMatch     \* the origin of a rating that no match has changed

VARIABLES
  recorded,   \* the matches with a result
  ratedBy     \* the match that each user's rating comes from

vars == <<recorded, ratedBy>>

Init == recorded = {} /\ ratedBy = [u \in User |-> NoMatch]

Record(m) ==
  /\ m \notin recorded
  /\ recorded' = recorded \cup {m}
  /\ ratedBy' = [u \in User |-> IF u \in PlayersOf[m] THEN m ELSE ratedBy[u]]

Next == \E m \in Match : Record(m)

Spec == Init /\ [][Next]_vars
=============================================================================
