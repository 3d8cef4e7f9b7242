------------------------------ MODULE Scoring ------------------------------
(***************************************************************************)
(* The pure arithmetic of internal/game/scorer.go.  Durations are counted  *)
(* in whole milliseconds: the code keeps nanoseconds and truncates them    *)
(* with Milliseconds() before any point is computed.                       *)
(***************************************************************************)
EXTENDS Integers

MaxPoints == 1000    \* an instant correct answer
eloK == 32
Certain == 100000    \* a score of 1.0

-----------------------------------------------------------------------------
(* Plausible slips in this code, used to show that the properties notice.  *)

ComputePoints_NoClamp(fairTime, correct) ==
  IF correct THEN MaxPoints - (fairTime \div 10) ELSE 0

RoundAway_Floor(x) == x \div Certain

-----------------------------------------------------------------------------

(* The answering time with the player's round trip taken off, never        *)
(* negative.                                                               *)
ComputeFairTime(rawTime, playerRTT) ==
  IF rawTime < playerRTT THEN 0 ELSE rawTime - playerRTT

(* One point less for every 10 ms, never negative, none for a wrong choice *)
ComputePoints(fairTime, correct) ==
  IF correct /\ fairTime \div 10 < MaxPoints
    THEN MaxPoints - (fairTime \div 10)
    ELSE 0

(* math.Round of x / Certain: to the nearest, halves away from zero.       *)
RoundAway(x) ==
  LET nearest(y) == (2 * y + Certain) \div (2 * Certain)
  IN  IF x < 0 THEN -nearest(-x) ELSE nearest(x)

(* The two rating changes, each rounded from its own player's score.       *)
(* expected[d] is what 1 / (1 + 10^(-d/400)) is of a sure win; TLA+ has no *)
(* reals.                                                                  *)
ComputeELO(expected, ratingA, ratingB, outcome) ==
  LET actualA   == CASE outcome = "a"    -> Certain
                     [] outcome = "b"    -> 0
                     [] outcome = "draw" -> Certain \div 2
      expectedA == expected[ratingA - ratingB]
      deltaA    == eloK * (actualA - expectedA)
      deltaB    == eloK * ((Certain - actualA) - (Certain - expectedA))
  IN  <<RoundAway(deltaA), RoundAway(deltaB)>>
=============================================================================
