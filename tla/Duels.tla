------------------------------- MODULE Duels -------------------------------
(***************************************************************************)
(* What challenges promise, whatever connections come and go meanwhile: a  *)
(* challenge is answered once, by one user, and begins at most one game,   *)
(* between the user who made it and the one who answered; what one of them *)
(* wins the other loses, and nobody's earnings ever change but by a game   *)
(* that ends.  They do not promise that only the user who was challenged   *)
(* answers, nor that the two are different users.                          *)
(***************************************************************************)
EXTENDS Integers

CONSTANTS
  User,     \* user IDs
  Id,       \* match IDs
  Changes,  \* what a game that has a result may win player 1
  Nobody    \* a challenge that has not been made or answered is nobody's

VARIABLES
  from,     \* who made each challenge
  by,       \* who answered it
  fate,     \* none, open, answered, or begun
  playing,  \* the games that are being played
  earned    \* what each user has won and lost so far

vars == <<from, by, fate, playing, earned>>

Init ==
  /\ from = [id \in Id |-> Nobody] /\ by = [id \in Id |-> Nobody]
  /\ fate = [id \in Id |-> "none"]
  /\ playing = {}
  /\ earned = [u \in User |-> 0]

Make(id, u) ==
  /\ fate[id] = "none"
  /\ from' = [from EXCEPT ![id] = u] /\ fate' = [fate EXCEPT ![id] = "open"]
  /\ UNCHANGED <<by, playing, earned>>

Answer(id, u) ==
  /\ fate[id] = "open"
  /\ by' = [by EXCEPT ![id] = u] /\ fate' = [fate EXCEPT ![id] = "answered"]
  /\ UNCHANGED <<from, playing, earned>>

Duel(id, one, two) == [id |-> id, one |-> one, two |-> two]

Begin(id) ==
  /\ fate[id] = "answered"
  /\ fate' = [fate EXCEPT ![id] = "begun"]
  /\ playing' = playing \cup {Duel(id, from[id], by[id])}
  /\ UNCHANGED <<from, by, earned>>

(* A game ends with the first player winning d, or nothing if given up.    *)
End(duel, d) ==
  /\ playing' = playing \ {duel}
  /\ earned' = [earned EXCEPT ![duel.one] = @ + d, ![duel.two] = @ - d]
  /\ UNCHANGED <<from, by, fate>>

Next ==
  \/ \E id \in Id : Begin(id) \/ \E u \in User : Make(id, u) \/ Answer(id, u)
  \/ \E duel \in playing, d \in Changes \cup {0} : End(duel, d)

Spec == Init /\ [][Next]_vars
=============================================================================
