--------------------------- MODULE MCGameSession ---------------------------
(* Small instances of GameSession.  Two players rated 1400 and 1200, the   *)
(* first of whom is expected to score 0.75975.                             *)
EXTENDS GameSession

MCStartRating == [p \in Player |-> IF p = 1 THEN 1400 ELSE 1200]
MCExpected == [d \in {200} |-> 75975]

(* The answers of this game that can win points, by the round they name.   *)
RightAnswers(named) == {a \in Answer : a.game = "this" /\ a.right /\ a.round \in named}
Sending(first, second) ==
  [p \in Player |-> RightAnswers(IF p = 1 THEN first ELSE second)]

(* To either round, early, in time or late; and to a round (0) that is not *)
(* one, as an answer that cannot be parsed names.                          *)
EitherRound == Sending({1, 2}, {1, 2})
SecondSendsLate == Sending({1, 2}, {1})
FirstSendsGarbled == Sending({0}, {1})

(* What an earlier game left: nothing, or for player 2 a right answer.     *)
NothingLeft == [p \in Player |-> {<< >>}]
OneLeft ==
  [NothingLeft EXCEPT ![2] = @ \cup
     {<<a>> : a \in {b \in Answer : b.game = "earlier" /\ b.right /\ b.round # 0}}]

=============================================================================
