------------------------------- MODULE Match -------------------------------
(***************************************************************************)
(* What a game promises, whatever its players and their connections do: a  *)
(* scoreboard that grows one round at a time by at most MaxPoints a        *)
(* player, and a result that is recorded once, after the last round, and   *)
(* is the scoreboard at that moment.  A game may stop at any time before.  *)
(***************************************************************************)
EXTENDS Integers, Scoring

CONSTANT Rounds

VARIABLES
  played,   \* rounds played
  score,    \* points of each player so far
  status,   \* has a result been recorded?
  final     \* the recorded result

matchVars == <<played, score, status, final>>

Sides == {1, 2}

MatchInit ==
  /\ played = 0 /\ score = [p \in Sides |-> 0]
  /\ status = "active" /\ final = [p \in Sides |-> 0]

PlayRound ==
  /\ status = "active" /\ played < Rounds
  /\ played' = played + 1
  /\ score' \in [Sides -> Nat]
  /\ \A p \in Sides : score'[p] - score[p] \in 0..MaxPoints
  /\ UNCHANGED <<status, final>>

RecordResult ==
  /\ status = "active" /\ played = Rounds
  /\ status' = "completed" /\ final' = score
  /\ UNCHANGED <<played, score>>

MatchNext == PlayRound \/ RecordResult

MatchSpec == MatchInit /\ [][MatchNext]_matchVars
=============================================================================
