------------------------- MODULE GameSessionProofs -------------------------
(***************************************************************************)
(* What is proved of GameSession for every number of rounds, every length  *)
(* of timer, every capacity and every pair of ratings.                     *)
(***************************************************************************)
EXTENDS GameSession, SequenceTheorems, WellFoundedInduction, TLAPS

-----------------------------------------------------------------------------
(* The strengthening: where Run is says how far the match is.              *)

Playing == {"start", "question", "asked", "await", "score", "persist"}
Over == {"exit", "done", "panic"}

(* While Run is in its loop the round is one of the match's; completeGame  *)
(* is reached after the last one.                                          *)
RoundInStep ==
  /\ pc \in Playing => round <= Rounds
  /\ pc = "complete" => round = Rounds + 1

(* A round never gives more than MaxPoints.                                *)
PointsBounded == \A p \in Player : points[p] <= MaxPoints

(* Nor do the rounds played so far together.                               *)
ScoresBounded == \A p \in Player : total[p] <= MaxPoints * (round - 1)

(* Only a game that is over is abandoned or completed.                     *)
OverOnce ==
  /\ abandoned => pc \in Over
  /\ match.status = "completed" => pc \in Over /\ match.score = total

IInv ==
  /\ TypeOK
  /\ RoundInStep
  /\ PointsBounded
  /\ OverOnce
  /\ ScoresBounded
  /\ AnswersForThisRound
  /\ CompletedIsEarned

-----------------------------------------------------------------------------
(* The arithmetic of a round and of the ratings.                           *)

(* ComputePoints is between 0 and MaxPoints for every answering time.      *)
LEMMA PointsRange ==
  ASSUME NEW t \in Nat, NEW right \in BOOLEAN
  PROVE  ComputePoints(t, right) \in 0..MaxPoints
BY DEF ComputePoints, MaxPoints

(* Whatever the answer and the round trip, scorePlayer stays within them.  *)
LEMMA ScoreRange ==
  ASSUME NEW slot \in Slot, NEW rtt \in RTTs
  PROVE  ScorePlayer(slot, rtt) \in 0..MaxPoints
<1>1. rtt \in Nat /\ slot.at \in Nat /\ TickMs \in Nat /\ slot.right \in BOOLEAN
  BY RatingAssumption, SizesAssumption DEF Slot
<1>2. slot.at * TickMs \in Nat
  BY <1>1
<1>3. ComputeFairTime(slot.at * TickMs, rtt) \in Nat
  BY <1>1, <1>2 DEF ComputeFairTime
<1>4. ComputePoints(ComputeFairTime(slot.at * TickMs, rtt), slot.right) \in 0..MaxPoints
  BY <1>1, <1>3, PointsRange
<1>5. 0 \in 0..MaxPoints
  BY DEF MaxPoints
<1> QED
  BY <1>4, <1>5 DEF ScorePlayer

(* Scoring is fair to time and to distance: an earlier right answer is     *)
(* never worth less than a later one, a longer measured round trip never   *)
(* takes points away, and who needs h milliseconds to think has the points *)
(* for h, however long the question and the answer travelled.              *)
THEOREM LatencyIsCompensated ==
  ASSUME NEW raw \in Nat, NEW later \in Nat, raw <= later,
         NEW rtt \in Nat, NEW longer \in Nat, rtt <= longer,
         NEW h \in Nat
  PROVE  /\ ComputePoints(ComputeFairTime(later, rtt), TRUE)
              <= ComputePoints(ComputeFairTime(raw, rtt), TRUE)
         /\ ComputePoints(ComputeFairTime(raw, rtt), TRUE)
              <= ComputePoints(ComputeFairTime(raw, longer), TRUE)
         /\ ComputePoints(ComputeFairTime(h + rtt, rtt), TRUE) = ComputePoints(h, TRUE)
<1>1. \A s, t \in Nat : s <= t => ComputePoints(t, TRUE) <= ComputePoints(s, TRUE)
  <2> SUFFICES ASSUME NEW s \in Nat, NEW t \in Nat, s <= t
               PROVE  ComputePoints(t, TRUE) <= ComputePoints(s, TRUE)
    OBVIOUS
  <2>1. s \div 10 <= t \div 10 /\ s \div 10 \in Nat /\ t \div 10 \in Nat
    OBVIOUS
  <2> QED
    BY <2>1 DEF ComputePoints, MaxPoints
<1>2. /\ ComputeFairTime(raw, rtt) \in Nat /\ ComputeFairTime(later, rtt) \in Nat
      /\ ComputeFairTime(raw, longer) \in Nat
      /\ ComputeFairTime(raw, rtt) <= ComputeFairTime(later, rtt)
      /\ ComputeFairTime(raw, longer) <= ComputeFairTime(raw, rtt)
      /\ ComputeFairTime(h + rtt, rtt) = h
  BY DEF ComputeFairTime
<1> QED
  BY <1>1, <1>2

(* Rounding away from zero treats gains and losses alike.                  *)
LEMMA RoundingIsOdd ==
  ASSUME NEW x \in Int
  PROVE  /\ RoundAway(x) \in Int
         /\ RoundAway(x) + RoundAway(-x) = 0
         /\ x >= 0 => RoundAway(x) >= 0
<1> DEFINE nearest(y) == (2 * y + Certain) \div (2 * Certain)
<1>1. \A y \in Int : nearest(y) \in Int /\ (y >= 0 => nearest(y) >= 0)
  BY DEF Certain
<1>2. nearest(0) = 0
  BY DEF Certain
<1>3. \A y \in Int : RoundAway(y) = IF y < 0 THEN -nearest(-y) ELSE nearest(y)
  BY DEF RoundAway
<1>4. -x \in Int /\ -(-x) = x
  OBVIOUS
<1> HIDE DEF nearest
<1>5. CASE x < 0
  BY <1>1, <1>3, <1>4, <1>5
<1>6. CASE x > 0
  BY <1>1, <1>3, <1>4, <1>6
<1>7. CASE x = 0
  BY <1>1, <1>2, <1>3, <1>4, <1>7
<1> QED
  BY <1>5, <1>6, <1>7

LEMMA CertainType ==
  Certain \in Nat /\ Certain \div 2 \in Nat /\ Certain \div 2 <= Certain
BY DEF Certain

LEMMA DeltasCancel ==
  ASSUME NEW actual \in Int, NEW expected \in Int
  PROVE  /\ eloK * (actual - expected) \in Int
         /\ eloK * ((Certain - actual) - (Certain - expected)) = -(eloK * (actual - expected))
         /\ expected <= actual => eloK * (actual - expected) >= 0
         /\ actual <= expected => -(eloK * (actual - expected)) >= 0
BY DEF eloK, Certain

(* The rating changes cancel out, and a winner's is not negative.          *)
LEMMA ChangesCancel ==
  ASSUME NEW score \in [Player -> Nat]
  PROVE  /\ RatingChange(score) \in [Player -> Int]
         /\ RatingChange(score)[1] + RatingChange(score)[2] = 0
         /\ \A p \in Player : Winner(score) = p => RatingChange(score)[p] >= 0
<1> DEFINE expectedA == Expected[StartRating[1] - StartRating[2]]
           actualA == CASE Winner(score) = 1 -> Certain
                        [] Winner(score) = 2 -> 0
                        [] OTHER -> Certain \div 2
           delta == eloK * (actualA - expectedA)
<1>1. expectedA \in 0..Certain
  BY RatingAssumption
<1>2. Winner(score) \in {0, 1, 2}
  BY DEF Winner
<1>3. /\ Outcome(score) = IF Winner(score) = 1 THEN "a"
                           ELSE IF Winner(score) = 2 THEN "b" ELSE "draw"
  BY <1>2 DEF Outcome
<1>4. actualA = CASE Outcome(score) = "a" -> Certain
                  [] Outcome(score) = "b" -> 0
                  [] Outcome(score) = "draw" -> Certain \div 2
  BY <1>2, <1>3
<1>5. actualA \in 0..Certain
  BY <1>2, CertainType
<1>6. RatingChange(score)
        = <<RoundAway(delta), RoundAway(eloK * ((Certain - actualA) - (Certain - expectedA)))>>
  BY <1>4 DEF RatingChange, ComputeELO
<1> HIDE DEF expectedA
<1>7. /\ Winner(score) = 1 => expectedA <= actualA
      /\ Winner(score) = 2 => actualA <= expectedA
  BY <1>1, CertainType
<1> HIDE DEF actualA
<1>8. /\ delta \in Int
      /\ eloK * ((Certain - actualA) - (Certain - expectedA)) = -delta
      /\ Winner(score) = 1 => delta >= 0
      /\ Winner(score) = 2 => -delta >= 0
  <2>1. actualA \in Int /\ expectedA \in Int
    BY <1>1, <1>5, CertainType
  <2> QED
    BY <1>7, <2>1, DeltasCancel
<1> HIDE DEF delta
<1>9. RatingChange(score) = <<RoundAway(delta), RoundAway(-delta)>>
  BY <1>6, <1>8
<1>10. /\ RoundAway(delta) \in Int /\ RoundAway(-delta) \in Int
       /\ RoundAway(delta) + RoundAway(-delta) = 0
       /\ delta >= 0 => RoundAway(delta) >= 0
       /\ -delta >= 0 => RoundAway(-delta) >= 0
  <2>1. -delta \in Int
    BY <1>8
  <2> QED
    BY <1>8, <2>1, RoundingIsOdd
<1>11. /\ RatingChange(score)[1] = RoundAway(delta)
       /\ RatingChange(score)[2] = RoundAway(-delta)
       /\ DOMAIN RatingChange(score) = Player
  BY <1>9 DEF Player
<1> QED
  BY <1>8, <1>9, <1>10, <1>11 DEF Player

(* Winner names the player with more points, and nobody on a tie.          *)
LEMMA WinnerHasMore ==
  ASSUME NEW score \in [Player -> Nat]
  PROVE  /\ Winner(score) \in {0} \cup Player
         /\ \A p \in Player : Winner(score) = p <=> score[p] > score[Other(p)]
BY DEF Winner, Player, Other

-----------------------------------------------------------------------------
(* The messages the session composes are messages.                         *)

LEMMA MsgType ==
  ASSUME NEW kind \in {"game_start", "question", "opponent_answered",
                       "round_result", "game_end", "other"},
         NEW rnd \in 0..Rounds, NEW you \in Nat, NEW them \in Nat
  PROVE  Msg(kind, rnd, you, them) \in Message
BY DEF Msg, Message

LEMMA ToBothType ==
  ASSUME NEW msgs \in [Player -> Message]
  PROVE  ToBoth(msgs) \in Seq([to : Player, msg : Message])
BY DEF ToBoth, Player

-----------------------------------------------------------------------------
(* The inductive invariant.                                                *)

LEMMA InitEstablishes == Init => IInv
<1> SUFFICES ASSUME Init PROVE IInv
  OBVIOUS
<1>0. Rounds \in Nat \ {0} /\ MaxElapsed \in Nat /\ StartRating \in [Player -> Int]
  BY SizesAssumption, RatingAssumption
<1> USE <1>0
<1>1. TypeOK
  <2>1. gameCh \in [Player -> Seq(Answer)]
    <3>1. \A p \in Player : Leftovers[p] \subseteq Seq(Answer)
      BY LeftoversAssumption
    <3>2. gameCh \in [Player -> Leftovers[1] \cup Leftovers[2]]
          /\ \A p \in Player : gameCh[p] \in Leftovers[p]
      BY DEF Init
    <3> QED
      BY <3>1, <3>2
  <2>2. rows \in [1..Rounds -> [Player -> Nat \cup {-1}]]
    BY DEF Init, NoRow
  <2>3. ans \in [Player -> Slot]
    BY DEF Init, Nil, NoAnswer, Slot
  <2>4. outbox \in Seq([to : Player, msg : Message]) /\ send \in [Player -> Seq(Message)]
    BY DEF Init
  <2>5. match \in [status : {"active", "completed"}, score : [Player -> Nat],
                   winner : {0} \cup Player]
    BY DEF Init
  <2>6. /\ total \in [Player -> Nat] /\ points \in [Player -> Nat]
        /\ newer \in [Player -> BOOLEAN]
        /\ conn \in [Player -> {"up", "closed", "gone"}]
        /\ presence \in [Player -> {"offline", "online", "in_match"}]
    BY DEF Init
  <2>7. abandoned \in BOOLEAN
    BY DEF Init
  <2>8. rating \in [Player -> Int]
    BY DEF Init
  <2>9. pc = "start" /\ round = 1 /\ elapsed = 0
    BY DEF Init
  <2> QED
    BY <2>1, <2>2, <2>3, <2>4, <2>5, <2>6, <2>7, <2>8, <2>9 DEF TypeOK
<1>2. RoundInStep /\ PointsBounded /\ OverOnce /\ ScoresBounded
  BY DEF Init, RoundInStep, PointsBounded, OverOnce, ScoresBounded, Playing, MaxPoints
<1>3. AnswersForThisRound /\ CompletedIsEarned
  BY DEF Init, AnswersForThisRound, CompletedIsEarned
<1> QED
  BY <1>1, <1>2, <1>3 DEF IInv

LEMMA NextPreserves == IInv /\ [Next]_vars => IInv'
<1> SUFFICES ASSUME IInv, [Next]_vars PROVE IInv'
  OBVIOUS
<1>0. Rounds \in Nat \ {0} /\ MaxElapsed \in Nat /\ StartRating \in [Player -> Int]
  BY SizesAssumption, RatingAssumption
<1> USE <1>0
<1> USE DEF IInv, hub, store, session
<1>1. CASE StartSession
  <2>1. outbox' \in Seq([to : Player, msg : Message])
    <3>1. Msg("game_start", 0, 0, 0) \in Message
      BY MsgType
    <3>2. [p \in Player |-> Msg("game_start", 0, 0, 0)] \in [Player -> Message]
      BY <3>1
    <3> QED
      BY <1>1, <3>2, ToBothType DEF StartSession
  <2>2. TypeOK'
    BY <1>1, <2>1 DEF StartSession, TypeOK, SetInMatch
  <2> QED
    BY <1>1, <2>2 DEF StartSession, Ready, TypeOK, RoundInStep, PointsBounded, OverOnce,
         ScoresBounded, AnswersForThisRound, CompletedIsEarned, Playing, Over
<1>2. CASE SendQuestion
  <2>1. round \in 0..Rounds
    BY <1>2 DEF SendQuestion, Ready, RoundInStep, TypeOK, Playing
  <2>2. outbox' \in Seq([to : Player, msg : Message])
    BY <1>2, <2>1, MsgType, ToBothType DEF SendQuestion, QuestionMsg
  <2>3. TypeOK'
    BY <1>2, <2>2 DEF SendQuestion, TypeOK
  <2> QED
    BY <1>2, <2>3 DEF SendQuestion, Ready, TypeOK, RoundInStep, PointsBounded, OverOnce,
         ScoresBounded, AnswersForThisRound, CompletedIsEarned, Playing, Over
<1>3. CASE StartTimer
  <2>1. Nil \in Slot
    BY DEF Nil, NoAnswer, Slot
  <2>2. TypeOK'
    BY <1>3, <2>1 DEF StartTimer, TypeOK
  <2>3. AnswersForThisRound'
    BY <1>3 DEF StartTimer, AnswersForThisRound, Nil, NoAnswer
  <2> QED
    BY <1>3, <2>2, <2>3 DEF StartTimer, Ready, TypeOK, RoundInStep, PointsBounded, OverOnce,
         ScoresBounded, CompletedIsEarned, Playing, Over
<1>4. ASSUME NEW p \in Player, ReceiveAnswer(p) PROVE IInv'
  <2> DEFINE a == Head(gameCh[p])
  <2>1. a \in Answer /\ gameCh' \in [Player -> Seq(Answer)]
    BY <1>4 DEF ReceiveAnswer, TypeOK
  <2>2. CASE Accepts(p, a)
    <3>1. ans' = [ans EXCEPT ![p] = Arrived(a, elapsed)]
      BY <1>4, <2>2 DEF ReceiveAnswer
    <3>2. Arrived(a, elapsed) \in Slot
      BY <2>1 DEF Arrived, Slot, Answer, TypeOK
    <3>3. round \in 0..Rounds /\ Other(p) \in Player
      BY <1>4 DEF ReceiveAnswer, Ready, RoundInStep, TypeOK, Playing, Other, Player
    <3>4. outbox' \in Seq([to : Player, msg : Message])
      <4>1. Msg("opponent_answered", round, 0, 0) \in Message
        BY <3>3, MsgType
      <4>2. [to |-> Other(p), msg |-> Msg("opponent_answered", round, 0, 0)]
              \in [to : Player, msg : Message]
        BY <3>3, <4>1
      <4>3. outbox' = << [to |-> Other(p), msg |-> Msg("opponent_answered", round, 0, 0)] >>
        BY <1>4, <2>2 DEF ReceiveAnswer
      <4> QED
        BY <4>2, <4>3
    <3>5. TypeOK'
      BY <1>4, <2>1, <3>1, <3>2, <3>4 DEF ReceiveAnswer, TypeOK
    <3>6. AnswersForThisRound'
      BY <1>4, <2>2, <3>1 DEF ReceiveAnswer, Ready, AnswersForThisRound, Accepts, Arrived, TypeOK
    <3> QED
      BY <1>4, <3>5, <3>6 DEF ReceiveAnswer, Ready, RoundInStep, PointsBounded, OverOnce,
           ScoresBounded, CompletedIsEarned
  <2>3. CASE ~Accepts(p, a)
    <3>1. TypeOK'
      BY <1>4, <2>1, <2>3 DEF ReceiveAnswer, TypeOK
    <3> QED
      BY <1>4, <2>3, <3>1 DEF ReceiveAnswer, Ready, RoundInStep, PointsBounded, OverOnce,
           ScoresBounded, AnswersForThisRound, CompletedIsEarned
  <2> QED
    BY <2>2, <2>3
<1>5. ASSUME NEW p \in Player, SeeClosed(p) PROVE IInv'
  <2>1. TypeOK'
    <3>1. abandoned' \in BOOLEAN
      BY <1>5 DEF SeeClosed
    <3>2. pc' \in {"exit", "score"}
      BY <1>5 DEF SeeClosed
    <3>3. /\ elapsed' = 0
          /\ UNCHANGED <<round, total, ans, points, outbox, send, gameCh, hub, store>>
      BY <1>5 DEF SeeClosed, StopTimer
    <3> QED
      BY <3>1, <3>2, <3>3 DEF TypeOK
  <2> QED
    BY <1>5, <2>1 DEF SeeClosed, Ready, RoundInStep, PointsBounded, OverOnce,
         ScoresBounded, AnswersForThisRound, CompletedIsEarned, Playing, Over
<1>6. CASE TimerFires
  <2>1. TimedOut \in Slot
    BY DEF TimedOut, NoAnswer, Slot
  <2>2. TypeOK'
    BY <1>6, <2>1 DEF TimerFires, StopTimer, FillTimeouts, TypeOK
  <2>3. AnswersForThisRound'
    <3>1. TimedOut.by # "answer"
      BY DEF TimedOut, NoAnswer
    <3> QED
      BY <1>6, <3>1 DEF TimerFires, Ready, FillTimeouts, AnswersForThisRound
  <2> QED
    BY <1>6, <2>2, <2>3 DEF TimerFires, Ready, RoundInStep, PointsBounded, OverOnce,
         ScoresBounded, CompletedIsEarned, Playing, Over
<1>7. CASE BothAnswered
  <2>1. TypeOK'
    BY <1>7 DEF BothAnswered, StopTimer, TypeOK
  <2> QED
    BY <1>7, <2>1 DEF BothAnswered, Ready, RoundInStep, PointsBounded, OverOnce,
         ScoresBounded, AnswersForThisRound, CompletedIsEarned, Playing, Over
<1>8. CASE ScoreRound
  <2>1. points' \in [Player -> 0..MaxPoints]
    <3>1. PICK rtt \in [Player -> RTTs] :
            points' = [p \in Player |-> ScorePlayer(ans[p], rtt[p])]
      BY <1>8 DEF ScoreRound
    <3>2. \A p \in Player : ScorePlayer(ans[p], rtt[p]) \in 0..MaxPoints
      BY ScoreRange DEF TypeOK
    <3> QED
      BY <3>1, <3>2
  <2>2. points' \in [Player -> Nat] /\ PointsBounded'
    <3>1. MaxPoints \in Nat
      BY DEF MaxPoints
    <3>2. \A p \in Player : points'[p] \in Nat /\ points'[p] <= MaxPoints
      BY <2>1, <3>1
    <3> QED
      BY <2>1, <3>2 DEF PointsBounded
  <2>3. round \in 0..Rounds
    BY <1>8 DEF ScoreRound, Ready, RoundInStep, TypeOK, Playing
  <2>4. outbox' \in Seq([to : Player, msg : Message])
    <3>1. \A p \in Player : ResultMsg(p, points') \in Message
      <4> SUFFICES ASSUME NEW p \in Player PROVE ResultMsg(p, points') \in Message
        OBVIOUS
      <4>1. Other(p) \in Player
        BY DEF Other, Player
      <4>2. total[p] + points'[p] \in Nat /\ total[Other(p)] + points'[Other(p)] \in Nat
        <5>1. /\ total[p] \in Nat /\ total[Other(p)] \in Nat
              /\ points'[p] \in Nat /\ points'[Other(p)] \in Nat
          BY <2>2, <4>1 DEF TypeOK
        <5> QED
          BY <5>1
      <4> QED
        BY <2>3, <4>2, MsgType DEF ResultMsg
    <3> QED
      BY <1>8, <3>1, ToBothType DEF ScoreRound
  <2>5. TypeOK'
    BY <1>8, <2>2, <2>4 DEF ScoreRound, TypeOK
  <2> QED
    BY <1>8, <2>2, <2>5 DEF ScoreRound, Ready, RoundInStep, OverOnce,
         ScoresBounded, AnswersForThisRound, CompletedIsEarned, Playing, Over
<1>9. CASE PersistRound
  <2>1. round \in 1..Rounds
    BY <1>9 DEF PersistRound, Ready, RoundInStep, TypeOK, Playing
  <2>2. total' \in [Player -> Nat]
    <3>1. \A p \in Player : PersistTotal(p) \in Nat
      BY DEF PersistTotal, TypeOK
    <3> QED
      BY <1>9, <3>1 DEF PersistRound
  <2>3. ScoresBounded'
    BY <1>9, <2>1 DEF PersistRound, PersistTotal, PointsBounded, ScoresBounded, MaxPoints, TypeOK
  <2>4. ans' \in [Player -> Slot]
    BY <1>9 DEF PersistRound, Nil, NoAnswer, Slot
  <2>5. rows' \in [1..Rounds -> [Player -> Nat \cup {-1}]]
    <3>1. points \in [Player -> Nat \cup {-1}]
      BY DEF TypeOK
    <3> QED
      BY <1>9, <2>1, <3>1 DEF PersistRound, TypeOK
  <2>6. TypeOK'
    BY <1>9, <2>1, <2>2, <2>4, <2>5 DEF PersistRound, TypeOK
  <2>7. RoundInStep'
    BY <1>9, <2>1 DEF PersistRound, LastRound, RoundInStep, Playing
  <2>8. match.status # "completed" /\ ~abandoned
    BY <1>9 DEF PersistRound, Ready, OverOnce, Over
  <2>9. UNCHANGED <<match, abandoned>>
    BY <1>9 DEF PersistRound
  <2>10. PointsBounded'
    <3>1. points' = [p \in Player |-> 0]
      BY <1>9 DEF PersistRound
    <3>2. 0 <= MaxPoints
      BY DEF MaxPoints
    <3> QED
      BY <3>1, <3>2 DEF PointsBounded
  <2>11. AnswersForThisRound'
    <3>1. pc' \in {"complete", "question"}
      BY <1>9 DEF PersistRound
    <3> QED
      BY <3>1 DEF AnswersForThisRound
  <2>12. OverOnce' /\ CompletedIsEarned'
    BY <2>8, <2>9 DEF OverOnce, CompletedIsEarned
  <2> QED
    BY <2>3, <2>6, <2>7, <2>10, <2>11, <2>12
<1>10. CASE CompleteGame
  <2>1. round = Rounds + 1 /\ ~abandoned /\ match.status # "completed"
    BY <1>10 DEF CompleteGame, Ready, RoundInStep, OverOnce, Over
  <2>2. outbox' \in Seq([to : Player, msg : Message])
    <3>1. \A p \in Player : Msg("game_end", 0, total[p], total[Other(p)]) \in Message
      <4> SUFFICES ASSUME NEW p \in Player
                   PROVE  Msg("game_end", 0, total[p], total[Other(p)]) \in Message
        OBVIOUS
      <4>0. Other(p) \in Player
        BY DEF Other, Player
      <4>1. total[p] \in Nat /\ total[Other(p)] \in Nat
        BY <4>0 DEF TypeOK
      <4> QED
        BY <4>1, MsgType
    <3> QED
      BY <1>10, <3>1, ToBothType DEF CompleteGame
  <2>3. CASE /\ match' = [status |-> "completed", score |-> total, winner |-> Winner(total)]
             /\ rating' = [p \in Player |-> StartRating[p] + RatingChange(total)[p]]
    <3> DEFINE change == RatingChange(total)
    <3>1. total \in [Player -> Nat]
      BY DEF TypeOK
    <3>2. /\ change \in [Player -> Int]
          /\ change[1] + change[2] = 0
          /\ \A p \in Player : Winner(total) = p => change[p] >= 0
      BY <3>1, ChangesCancel
    <3>3. TypeOK'
      <4>1. match' \in [status : {"active", "completed"}, score : [Player -> Nat],
                         winner : {0} \cup Player]
        BY <2>3, <3>1, WinnerHasMore
      <4>2. rating' \in [Player -> Int]
        <5>1. \A p \in Player : StartRating[p] + change[p] \in Int
          BY <3>2
        <5> QED
          BY <2>3, <5>1
      <4> QED
        BY <1>10, <2>2, <4>1, <4>2 DEF CompleteGame, TypeOK
    <3>4. CompletedIsEarned'
      <4>1. match'.score = total /\ match'.winner = Winner(total)
        BY <2>3
      <4>2. \A p \in Player : match'.winner = p <=> match'.score[p] > match'.score[Other(p)]
        BY <3>1, <4>1, WinnerHasMore
      <4>3. \A p \in Player : StartRating[p] \in Int /\ rating'[p] = StartRating[p] + change[p]
        BY <2>3
      <4>4. \A p \in Player : match'.winner = p => rating'[p] >= StartRating[p]
        BY <3>2, <4>1, <4>3
      <4>5. rating'[1] + rating'[2] = StartRating[1] + StartRating[2]
        <5>1. 1 \in Player /\ 2 \in Player
          BY DEF Player
        <5>2. /\ StartRating[1] \in Int /\ rating'[1] = StartRating[1] + change[1]
              /\ StartRating[2] \in Int /\ rating'[2] = StartRating[2] + change[2]
          BY <4>3, <5>1
        <5>3. change[1] \in Int /\ change[2] \in Int /\ change[1] + change[2] = 0
          BY <3>2, <5>1
        <5> HIDE DEF change
        <5> QED
          BY <5>2, <5>3
      <4>6. round' = Rounds + 1 /\ ~abandoned'
        BY <1>10, <2>1 DEF CompleteGame
      <4> QED
        BY <4>2, <4>4, <4>5, <4>6 DEF CompletedIsEarned
    <3> QED
      BY <1>10, <2>1, <2>3, <3>3, <3>4 DEF CompleteGame, RoundInStep, PointsBounded, OverOnce,
           ScoresBounded, AnswersForThisRound, Playing, Over
  <2>4. CASE UNCHANGED <<match, rating>>
    <3>1. TypeOK'
      BY <1>10, <2>2, <2>4 DEF CompleteGame, TypeOK
    <3> QED
      BY <1>10, <2>1, <2>4, <3>1 DEF CompleteGame, RoundInStep, PointsBounded, OverOnce,
           ScoresBounded, AnswersForThisRound, CompletedIsEarned, Playing, Over
  <2> QED
    BY <1>10, <2>3, <2>4 DEF CompleteGame
<1>11. CASE LeaveSession
  <2>1. TypeOK'
    BY <1>11 DEF LeaveSession, ClearInMatch, TypeOK
  <2> QED
    BY <1>11, <2>1 DEF LeaveSession, RoundInStep, PointsBounded, OverOnce,
         ScoresBounded, AnswersForThisRound, CompletedIsEarned, Playing, Over
<1>12. CASE SendNext
  <2>1. Head(outbox) \in [to : Player, msg : Message]
        /\ Tail(outbox) \in Seq([to : Player, msg : Message])
    BY <1>12, HeadTailProperties DEF SendNext, TypeOK
  <2>2. send' \in [Player -> Seq(Message)]
    <3> DEFINE p == Head(outbox).to
    <3>1. p \in Player /\ Head(outbox).msg \in Message
      BY <2>1
    <3>2. CASE send' = [send EXCEPT ![p] = Append(@, Head(outbox).msg)]
      <4>1. send \in [Player -> Seq(Message)]
        BY DEF TypeOK
      <4>2. Append(send[p], Head(outbox).msg) \in Seq(Message)
        BY <3>1, <4>1
      <4> QED
        BY <3>1, <3>2, <4>1, <4>2
    <3>3. CASE send' = send
      BY <3>3 DEF TypeOK
    <3> QED
      BY <1>12, <3>2, <3>3 DEF SendNext
  <2>3. TypeOK'
    BY <1>12, <2>1, <2>2 DEF SendNext, TypeOK
  <2> QED
    BY <1>12, <2>3 DEF SendNext, RoundInStep, PointsBounded, OverOnce,
         ScoresBounded, AnswersForThisRound, CompletedIsEarned
<1>13. CASE SendPanics
  <2>1. outbox' \in Seq([to : Player, msg : Message])
    BY <1>13 DEF SendPanics
  <2>2. presence' \in [Player -> {"offline", "online", "in_match"}]
    BY <1>13 DEF SendPanics, ClearInMatch
  <2>3. TypeOK'
    BY <1>13, <2>1, <2>2 DEF SendPanics, TypeOK
  <2> QED
    BY <1>13, <2>3 DEF SendPanics, RoundInStep, PointsBounded, OverOnce,
         ScoresBounded, AnswersForThisRound, CompletedIsEarned, Playing, Over
<1>14. CASE Environment
  <2>1. TypeOK'
    <3>1. ASSUME NEW p \in Player, NEW a \in Answers[p], QueueAnswer(p, a) PROVE TypeOK'
      <4>1. a \in Answer
        BY AnswersAssumption
      <4>2. gameCh' \in [Player -> Seq(Answer)]
        BY <3>1, <4>1 DEF QueueAnswer, TypeOK
      <4> QED
        BY <3>1, <4>2 DEF QueueAnswer, TypeOK
    <3>2. ASSUME NEW p \in Player, WriteOne(p) PROVE TypeOK'
      <4>1. send' \in [Player -> Seq(Message)]
        BY <3>2 DEF WriteOne, TypeOK
      <4> QED
        BY <3>2, <4>1 DEF WriteOne, TypeOK
    <3>3. ASSUME NEW p \in Player, Unregister(p) PROVE TypeOK'
      BY <3>3 DEF Unregister, TypeOK
    <3>4. ASSUME NEW p \in Noisy, OtherTraffic(p) PROVE TypeOK'
      <4>1. Msg("other", 0, 0, 0) \in Message
        BY MsgType
      <4>2. p \in Player
        BY SizesAssumption
      <4>3. send' \in [Player -> Seq(Message)]
        BY <3>4, <4>1, <4>2 DEF OtherTraffic, TypeOK
      <4> QED
        BY <3>4, <4>3 DEF OtherTraffic, TypeOK
    <3>5. ASSUME NEW p \in Returning, NewerJoins(p) \/ NewerLeaves(p) PROVE TypeOK'
      <4>1. p \in Player
        BY SizesAssumption
      <4> QED
        BY <3>5, <4>1 DEF NewerJoins, NewerLeaves, TypeOK
    <3>6. CASE Tick
      BY <3>6 DEF Tick, TypeOK
    <3> QED
      BY <1>14, <3>1, <3>2, <3>3, <3>4, <3>5, <3>6 DEF Environment
  <2>2. UNCHANGED <<pc, round, total, abandoned, ans, points, store>>
    BY <1>14 DEF Environment, QueueAnswer, WriteOne, Unregister, OtherTraffic,
         NewerJoins, NewerLeaves, Tick
  <2> QED
    BY <2>1, <2>2 DEF RoundInStep, PointsBounded, OverOnce, ScoresBounded,
         AnswersForThisRound, CompletedIsEarned
<1>15. CASE UNCHANGED vars
  <2>1. TypeOK'
    BY <1>15 DEF vars, TypeOK
  <2>2. UNCHANGED <<pc, round, total, abandoned, ans, points, store>>
    BY <1>15 DEF vars, store
  <2> QED
    BY <2>1, <2>2 DEF store, RoundInStep, PointsBounded, OverOnce, ScoresBounded,
         AnswersForThisRound, CompletedIsEarned
<1> QED
  BY <1>1, <1>2, <1>3, <1>4, <1>5, <1>6, <1>7, <1>8, <1>9, <1>10, <1>11, <1>12, <1>13,
     <1>14, <1>15 DEF Next, SessionStep, Stopped

-----------------------------------------------------------------------------
(* IInv is an invariant of the specification.                              *)
THEOREM Invariance == Spec => []IInv
<1>1. Init => IInv
  BY InitEstablishes
<1>2. IInv /\ [Next]_vars => IInv'
  BY NextPreserves
<1> QED
  BY <1>1, <1>2, PTL DEF Spec

(* Every variable keeps its type, for every size of the instance.          *)
THEOREM TypeCorrect == Spec => []TypeOK
BY Invariance, PTL DEF IInv

(* No answer to another round is ever taken for one to this round.         *)
THEOREM AnswersAreForThisRound == Spec => []AnswersForThisRound
BY Invariance, PTL DEF IInv

(* Nobody's total is more than MaxPoints for each round played.            *)
THEOREM TotalsAreBounded == Spec => []ScoresBounded
BY Invariance, PTL DEF IInv

(* A completed match was played to the end, its winner has more points and *)
(* loses no rating, and the ratings of the two add up to what they did.    *)
THEOREM CompletionIsEarned == Spec => []CompletedIsEarned
BY Invariance, PTL DEF IInv

-----------------------------------------------------------------------------
(* GameSession implements Match: PersistRound plays a round, CompleteGame  *)
(* records the result if the transaction commits, all else is a stutter.   *)

LEMMA StartsAsABoard == Init => Board!MatchInit
BY DEF Init, Board!MatchInit, Board!Sides, Player

LEMMA StepsAsABoard == IInv /\ IInv' /\ [Next]_vars => [Board!MatchNext]_(Board!matchVars)
<1> SUFFICES ASSUME IInv, IInv', [Next]_vars
             PROVE  [Board!MatchNext]_(Board!matchVars)
  OBVIOUS
<1>0. Rounds \in Nat \ {0}
  BY SizesAssumption
<1> USE <1>0 DEF hub, store, session
<1>1. CASE PersistRound
  <2>1. match.status = "active" /\ round \in 1..Rounds /\ round' = round + 1
    <3>1. match.status # "completed"
      BY <1>1 DEF PersistRound, Ready, IInv, OverOnce, Over
    <3> QED
      BY <1>1, <3>1 DEF PersistRound, Ready, IInv, TypeOK, RoundInStep, Playing
  <2>2. total' \in [Player -> Nat] /\ UNCHANGED match
    BY <1>1 DEF PersistRound, IInv, TypeOK
  <2>3. \A p \in Player : total'[p] - total[p] \in 0..MaxPoints
    <3> SUFFICES ASSUME NEW p \in Player PROVE total'[p] - total[p] \in 0..MaxPoints
      OBVIOUS
    <3>1. total'[p] = total[p] + points[p]
      BY <1>1 DEF PersistRound, PersistTotal
    <3>2. total[p] \in Nat /\ points[p] \in Nat /\ points[p] <= MaxPoints
      BY DEF IInv, TypeOK, PointsBounded
    <3>3. MaxPoints \in Nat /\ total'[p] - total[p] = points[p]
      BY <3>1, <3>2 DEF MaxPoints
    <3> QED
      BY <3>2, <3>3
  <2>4. Board!PlayRound
    <3>1. Board!Sides = Player /\ Board!MaxPoints = MaxPoints
      BY DEF Board!Sides, Player, Board!MaxPoints, MaxPoints
    <3>2. round - 1 < Rounds /\ round' - 1 = (round - 1) + 1
      BY <2>1
    <3> QED
      BY <2>1, <2>2, <2>3, <3>1, <3>2 DEF Board!PlayRound
  <2> QED
    BY <2>4 DEF Board!MatchNext
<1>2. CASE CompleteGame
  <2>1. match.status = "active" /\ round = Rounds + 1 /\ UNCHANGED <<round, total>>
    <3>1. match.status # "completed"
      BY <1>2 DEF CompleteGame, Ready, IInv, OverOnce, Over
    <3> QED
      BY <1>2, <3>1 DEF CompleteGame, Ready, IInv, TypeOK, RoundInStep
  <2>2. CASE match' = [status |-> "completed", score |-> total, winner |-> Winner(total)]
    <3>1. Board!RecordResult
      BY <2>1, <2>2 DEF Board!RecordResult
    <3> QED
      BY <3>1 DEF Board!MatchNext
  <2>3. CASE UNCHANGED match
    BY <2>1, <2>3 DEF Board!matchVars
  <2> QED
    BY <1>2, <2>2, <2>3 DEF CompleteGame
<1>3. CASE UNCHANGED <<round, total, match>>
  BY <1>3 DEF Board!matchVars
<1>4. [Next]_vars => PersistRound \/ CompleteGame \/ UNCHANGED <<round, total, match>>
  BY DEF vars, Next, SessionStep, Environment, Stopped, StartSession, SendQuestion,
       StartTimer, ReceiveAnswer, SeeClosed, TimerFires, BothAnswered, ScoreRound,
       LeaveSession, SendNext, SendPanics, QueueAnswer, WriteOne, Unregister,
       OtherTraffic, NewerJoins, NewerLeaves, Tick
<1> QED
  BY <1>1, <1>2, <1>3, <1>4

(* Every game, whatever its players and the network do, behaves as the     *)
(* scoreboard of module Match.                                             *)
THEOREM GameImplementsMatch == Spec => ImplementsMatch
<1>1. Init => Board!MatchInit
  BY StartsAsABoard
<1>2. IInv /\ IInv' /\ [Next]_vars => [Board!MatchNext]_(Board!matchVars)
  BY StepsAsABoard
<1>3. Spec => []IInv
  BY Invariance
<1> QED
  BY <1>1, <1>2, <1>3, PTL DEF Spec, ImplementsMatch, Board!MatchSpec

-----------------------------------------------------------------------------
(* How a game ends.                                                        *)

(* A closed channel stays closed, so that the reason for an early end is   *)
(* still there when Run gets to it.                                        *)
LEMMA ClosedStays ==
  ASSUME TypeOK, NEW p \in Player, Closed(p), [Next]_vars
  PROVE  Closed(p)'
<1>1. ASSUME NEW q \in Player, Unregister(q) PROVE Closed(p)'
  BY <1>1 DEF Unregister, Closed, TypeOK
<1>2. ASSUME UNCHANGED conn PROVE Closed(p)'
  BY <1>2 DEF Closed
<1>3. (\E q \in Player : Unregister(q)) \/ UNCHANGED conn
  BY DEF vars, session, hub, Next, SessionStep, Environment, Stopped, StartSession,
     SendQuestion, StartTimer, ReceiveAnswer, SeeClosed, TimerFires, BothAnswered, ScoreRound,
     PersistRound, CompleteGame, LeaveSession, SendNext, SendPanics, QueueAnswer, WriteOne,
     OtherTraffic, NewerJoins, NewerLeaves, Tick
<1> QED
  BY <1>1, <1>2, <1>3

(* The strengthening: the reason is there as soon as Run is on its way out.*)
LeftForACause == pc \in Over /\ round <= Rounds => \E p \in Player : Closed(p)

LEMMA LeavingStep ==
  ASSUME IInv, LeftForACause, [Next]_vars
  PROVE  LeftForACause'
<1> SUFFICES ASSUME pc' \in Over, round' <= Rounds PROVE \E p \in Player : Closed(p)'
  BY DEF LeftForACause
<1>1. CASE pc \in Over
  <2>1. UNCHANGED round
    BY <1>1 DEF Over, vars, session, hub, Next, SessionStep, Environment, Stopped, Ready,
       StartSession, SendQuestion, StartTimer, ReceiveAnswer, SeeClosed, TimerFires,
       BothAnswered, ScoreRound, PersistRound, CompleteGame, LeaveSession, SendNext, SendPanics,
       QueueAnswer, WriteOne, Unregister, OtherTraffic, NewerJoins, NewerLeaves, Tick
  <2> QED
    BY <1>1, <2>1, ClosedStays DEF LeftForACause, IInv
<1>2. CASE pc \notin Over
  <2>1. (\E p \in Player : SeeClosed(p)) \/ CompleteGame \/ SendPanics
    BY <1>2 DEF Over, vars, session, hub, Next, SessionStep, Environment, Stopped, Ready,
       StartSession, SendQuestion, StartTimer, ReceiveAnswer, TimerFires, BothAnswered,
       ScoreRound, PersistRound, LeaveSession, SendNext, QueueAnswer, WriteOne, Unregister,
       OtherTraffic, NewerJoins, NewerLeaves, Tick
  <2>2. ~CompleteGame
    <3>1. CompleteGame => round = Rounds + 1 /\ round' = round
      BY DEF CompleteGame, Ready, IInv, RoundInStep
    <3> QED
      BY <3>1, SizesAssumption
  <2>3. ASSUME NEW p \in Player, SeeClosed(p) PROVE Closed(p)
    BY <2>3 DEF SeeClosed
  <2>4. SendPanics => \E p \in Player : Closed(p)
    <3>1. SendPanics => Head(outbox) \in [to : Player, msg : Message]
      BY HeadTailProperties DEF SendPanics, IInv, TypeOK
    <3> QED
      BY <3>1 DEF SendPanics
  <2> QED
    BY <2>1, <2>2, <2>3, <2>4, ClosedStays DEF IInv
<1> QED
  BY <1>1, <1>2

(* A game ends before its last round only because somebody has left.       *)
THEOREM EarlyEndsHaveALeaver == Spec => []StopsOnlyForALeaver
<1>1. Init => LeftForACause
  BY DEF Init, LeftForACause, Over
<1>2. IInv /\ LeftForACause /\ [Next]_vars => LeftForACause'
  BY LeavingStep
<1>3. LeftForACause => StopsOnlyForALeaver
  BY DEF LeftForACause, StopsOnlyForALeaver, Ended, Over
<1> QED
  BY <1>1, <1>2, <1>3, Invariance, PTL DEF Spec

-----------------------------------------------------------------------------
(* The answers of a round.                                                 *)

(* Until the round is scored, an answer that is in stays as it is.         *)
THEOREM AnswersAreFirst == Spec => FirstAnswerStands
<1>1. IInv /\ [Next]_vars =>
        \A p \in Player :
          pc \in {"await", "score"} /\ ans[p].by # "nil" => ans'[p] = ans[p]
  <2> SUFFICES ASSUME IInv, [Next]_vars, NEW p \in Player,
                      pc \in {"await", "score"}, ans[p].by # "nil"
               PROVE  ans'[p] = ans[p]
    OBVIOUS
  <2>0. ans \in [Player -> Slot]
    BY DEF IInv, TypeOK
  <2>1. ASSUME NEW q \in Player, ReceiveAnswer(q) PROVE ans'[p] = ans[p]
    BY <2>0, <2>1 DEF ReceiveAnswer, Accepts
  <2>2. CASE TimerFires
    BY <2>2 DEF TimerFires, FillTimeouts
  <2>3. (\E q \in Player : ReceiveAnswer(q)) \/ TimerFires \/ UNCHANGED ans
    BY DEF vars, session, hub, Next, SessionStep, Environment, Stopped, Ready, StartSession,
       SendQuestion, StartTimer, SeeClosed, BothAnswered, ScoreRound, PersistRound,
       CompleteGame, LeaveSession, SendNext, SendPanics, QueueAnswer, WriteOne, Unregister,
       OtherTraffic, NewerJoins, NewerLeaves, Tick
  <2> QED
    BY <2>1, <2>2, <2>3
<1>2. IInv /\ [Next]_vars =>
        [\A p \in Player :
           pc \in {"await", "score"} /\ ans[p].by # "nil" => ans'[p] = ans[p]]_vars
  BY <1>1
<1> QED
  BY <1>2, Invariance, PTL DEF Spec, FirstAnswerStands

-----------------------------------------------------------------------------
(* Sums over rounds.  The library's induction theorems are about operators;*)
(* what is needed here is induction about a set, which follows from a      *)
(* least element of what it leaves out.                                    *)

LEMMA SetInduction ==
  ASSUME NEW T \in SUBSET Nat, 0 \in T, \A n \in T : n + 1 \in T
  PROVE  T = Nat
<1> DEFINE Rest == Nat \ T
<1>1. SUFFICES ASSUME Rest # {} PROVE FALSE
  OBVIOUS
<1>2. PICK n \in Rest : \A m \in Rest : <<m, n>> \notin OpToRel(<, Nat)
  <2>1. Rest \subseteq Nat
    OBVIOUS
  <2> HIDE DEF Rest
  <2> QED
    BY <1>1, <2>1, WFMin, NatLessThanWellFounded
<1>3. n \in Nat /\ n - 1 \in Nat /\ (n - 1) + 1 = n
  OBVIOUS
<1>4. n - 1 \in Rest
  BY <1>3
<1>5. <<n - 1, n>> \in OpToRel(<, Nat)
  BY <1>3 DEF OpToRel
<1> QED
  BY <1>2, <1>4, <1>5

(* The recursion of SumOf, up to round n.                                  *)
AddsUp(s, f, n) == s = [r \in 0..n |-> IF r = 0 THEN 0 ELSE s[r - 1] + f[r]]

LEMMA AddsUpExists ==
  ASSUME NEW f, NEW n \in Nat
  PROVE  \E s : AddsUp(s, f, n)
<1> DEFINE T == {m \in Nat : \E s : AddsUp(s, f, m)}
<1>1. 0 \in T
  <2>1. AddsUp([r \in 0..0 |-> 0], f, 0)
    BY DEF AddsUp
  <2> QED
    BY <2>1
<1>2. ASSUME NEW m \in T PROVE m + 1 \in T
  <2>1. PICK s : AddsUp(s, f, m)
    OBVIOUS
  <2> DEFINE t == [r \in 0..(m + 1) |-> IF r = m + 1 THEN s[m] + f[m + 1] ELSE s[r]]
  <2>2. \A r \in 0..(m + 1) : t[r] = IF r = 0 THEN 0 ELSE t[r - 1] + f[r]
    <3>1. \A r \in 0..m : s[r] = IF r = 0 THEN 0 ELSE s[r - 1] + f[r]
      BY <2>1 DEF AddsUp
    <3> QED
      BY <3>1
  <2>3. AddsUp(t, f, m + 1)
    <3>1. t = [r \in 0..(m + 1) |-> t[r]]
      OBVIOUS
    <3> HIDE DEF t
    <3> QED
      BY <2>2, <3>1, Zenon DEF AddsUp
  <2> QED
    BY <2>3
<1>3. T = Nat
  <2>1. T \in SUBSET Nat /\ \A m \in T : m + 1 \in T
    BY <1>2
  <2> HIDE DEF T
  <2> QED
    BY <1>1, <2>1, SetInduction
<1> QED
  BY <1>3

(* SumOf is the last of the partial sums.                                  *)
LEMMA SumIsLast ==
  ASSUME NEW f
  PROVE  \E s : AddsUp(s, f, Rounds) /\ SumOf(f) = s[Rounds]
<1> DEFINE s == CHOOSE s : AddsUp(s, f, Rounds)
<1>1. AddsUp(s, f, Rounds)
  BY AddsUpExists, SizesAssumption
<1>2. SumOf(f) = s[Rounds]
  BY DEF SumOf, AddsUp
<1> QED
  BY <1>1, <1>2

LEMMA PartialSums ==
  ASSUME NEW f \in [1..Rounds -> Int], NEW s, AddsUp(s, f, Rounds)
  PROVE  /\ s[0] = 0 /\ s[Rounds] \in Int
         /\ \A r \in 1..Rounds : s[r - 1] \in Int /\ s[r] = s[r - 1] + f[r]
<1>0. Rounds \in Nat \ {0}
  BY SizesAssumption
<1>1. s[0] = 0 /\ \A r \in 1..Rounds : s[r] = s[r - 1] + f[r]
  BY <1>0 DEF AddsUp
<1> DEFINE T == {n \in Nat : n <= Rounds => s[n] \in Int}
<1>2. T = Nat
  <2>1. 0 \in T
    BY <1>1
  <2>2. ASSUME NEW n \in T PROVE n + 1 \in T
    <3> SUFFICES ASSUME n + 1 <= Rounds PROVE s[n + 1] \in Int
      OBVIOUS
    <3>1. n + 1 \in 1..Rounds /\ (n + 1) - 1 = n /\ n <= Rounds
      BY <1>0
    <3>2. s[n + 1] = s[n] + f[n + 1] /\ f[n + 1] \in Int
      BY <1>1, <3>1
    <3>3. s[n] \in Int
      BY <3>1
    <3> QED
      BY <3>2, <3>3
  <2>3. T \in SUBSET Nat /\ \A n \in T : n + 1 \in T
    BY <2>2
  <2> HIDE DEF T
  <2> QED
    BY <2>1, <2>3, SetInduction
<1>3. \A n \in 0..Rounds : s[n] \in Int
  <2>1. \A n \in 0..Rounds : n \in Nat /\ n <= Rounds
    BY <1>0
  <2> QED
    BY <1>2, <2>1
<1> QED
  BY <1>0, <1>1, <1>3

LEMMA SumType ==
  ASSUME NEW f \in [1..Rounds -> Int]
  PROVE  SumOf(f) \in Int
BY SumIsLast, PartialSums

(* A column of zeros adds up to zero.                                      *)
LEMMA SumOfZeros == SumOf([r \in 1..Rounds |-> 0]) = 0
<1> DEFINE f == [r \in 1..Rounds |-> 0]
<1>0. Rounds \in Nat \ {0} /\ f \in [1..Rounds -> Int]
  BY SizesAssumption
<1>1. PICK s : AddsUp(s, f, Rounds) /\ SumOf(f) = s[Rounds]
  BY SumIsLast
<1>2. s[0] = 0 /\ \A r \in 1..Rounds : s[r - 1] \in Int /\ s[r] = s[r - 1] + f[r]
  <2> HIDE DEF f
  <2> QED
    BY <1>0, <1>1, PartialSums
<1> DEFINE T == {n \in Nat : n <= Rounds => s[n] = 0}
<1>3. 0 \in T
  BY <1>2
<1>4. ASSUME NEW n \in T PROVE n + 1 \in T
  <2> SUFFICES ASSUME n + 1 <= Rounds PROVE s[n + 1] = 0
    OBVIOUS
  <2>1. n + 1 \in 1..Rounds /\ (n + 1) - 1 = n /\ n <= Rounds
    BY <1>0
  <2>2. s[n + 1] = s[n] + f[n + 1] /\ f[n + 1] = 0
    BY <1>2, <2>1
  <2>3. s[n] = 0
    BY <2>1
  <2> QED
    BY <2>2, <2>3
<1>5. T = Nat
  <2>1. T \in SUBSET Nat /\ \A n \in T : n + 1 \in T
    BY <1>4
  <2> HIDE DEF T
  <2> QED
    BY <1>3, <2>1, SetInduction
<1> QED
  BY <1>0, <1>1, <1>5

(* What is added to one round is added to the sum.                         *)
LEMMA SumGrows ==
  ASSUME NEW f \in [1..Rounds -> Int], NEW k \in 1..Rounds, NEW d \in Int,
         NEW g \in [1..Rounds -> Int],
         g[k] = f[k] + d, \A r \in (1..Rounds) \ {k} : g[r] = f[r]
  PROVE  SumOf(g) = SumOf(f) + d
<1>0. Rounds \in Nat \ {0}
  BY SizesAssumption
<1>1. PICK s : AddsUp(s, f, Rounds) /\ SumOf(f) = s[Rounds]
  BY SumIsLast
<1>2. PICK t : AddsUp(t, g, Rounds) /\ SumOf(g) = t[Rounds]
  BY SumIsLast
<1>3. s[0] = 0 /\ \A r \in 1..Rounds : s[r - 1] \in Int /\ s[r] = s[r - 1] + f[r]
  BY <1>1, PartialSums
<1>4. t[0] = 0 /\ \A r \in 1..Rounds : t[r - 1] \in Int /\ t[r] = t[r - 1] + g[r]
  BY <1>2, PartialSums
<1> DEFINE T == {n \in Nat : n <= Rounds => t[n] = IF n < k THEN s[n] ELSE s[n] + d}
<1>5. 0 \in T
  BY <1>3, <1>4
<1>6. ASSUME NEW n \in T PROVE n + 1 \in T
  <2> SUFFICES ASSUME n + 1 <= Rounds
               PROVE  t[n + 1] = IF n + 1 < k THEN s[n + 1] ELSE s[n + 1] + d
    OBVIOUS
  <2>1. n + 1 \in 1..Rounds /\ (n + 1) - 1 = n /\ n <= Rounds
    BY <1>0
  <2>2. t[n] = IF n < k THEN s[n] ELSE s[n] + d
    BY <2>1
  <2>3. /\ s[n] \in Int /\ s[n + 1] = s[n] + f[n + 1]
        /\ t[n] \in Int /\ t[n + 1] = t[n] + g[n + 1]
    BY <1>3, <1>4, <2>1
  <2>4. f[n + 1] \in Int /\ g[n + 1] = IF n + 1 = k THEN f[n + 1] + d ELSE f[n + 1]
    BY <2>1
  <2> QED
    BY <2>2, <2>3, <2>4
<1>7. T = Nat
  <2>1. T \in SUBSET Nat /\ \A n \in T : n + 1 \in T
    BY <1>6
  <2> HIDE DEF T
  <2> QED
    BY <1>5, <2>1, SetInduction
<1>8. t[Rounds] = s[Rounds] + d
  BY <1>0, <1>7
<1> QED
  BY <1>1, <1>2, <1>8

-----------------------------------------------------------------------------
(* The two tables.                                                         *)

(* The strengthening: a row is whole or not there, and none is there for a *)
(* round that has not been played.                                         *)
RowsFit ==
  \A r \in 1..Rounds :
    /\ rows[r] = NoRow \/ rows[r] \in [Player -> Nat]
    /\ r >= round => rows[r] = NoRow

SumsAgree ==
  \A p \in Player :
    /\ SumOf(Column(p)) <= total[p]
    /\ (\A r \in 1..Rounds : Played(r) => rows[r] # NoRow)
         => SumOf(Column(p)) = total[p]

LEMMA ColumnType ==
  ASSUME RowsFit, NEW p \in Player
  PROVE  Column(p) \in [1..Rounds -> Int]
BY DEF RowsFit, Column

LEMMA LedgerStarts == Init => RowsFit /\ SumsAgree
<1> SUFFICES ASSUME Init PROVE RowsFit /\ SumsAgree
  OBVIOUS
<1>1. RowsFit
  BY DEF Init, RowsFit
<1>2. ASSUME NEW p \in Player PROVE SumOf(Column(p)) = 0 /\ total[p] = 0
  <2>1. Column(p) = [r \in 1..Rounds |-> 0]
    BY DEF Init, Column
  <2> QED
    BY <2>1, SumOfZeros DEF Init
<1> QED
  BY <1>1, <1>2 DEF SumsAgree

(* PersistRound, with its row stored: the row of the round was empty, so a *)
(* player's column grows by what the total grows by.                       *)
LEMMA StoredRound ==
  ASSUME IInv, RowsFit, SumsAgree, PersistRound, rows' = [rows EXCEPT ![round] = points]
  PROVE  RowsFit' /\ SumsAgree'
<1>1. /\ Rounds \in Nat \ {0} /\ round \in 1..Rounds /\ round' = round + 1
      /\ points \in [Player -> Nat] /\ rows \in [1..Rounds -> [Player -> Nat \cup {-1}]]
      /\ total \in [Player -> Nat] /\ total' = [p \in Player |-> total[p] + points[p]]
  BY SizesAssumption DEF IInv, TypeOK, RoundInStep, Playing, PersistRound, Ready, PersistTotal
<1>2. points # NoRow /\ rows[round] = NoRow
  <2>1. 1 \in Player /\ points[1] # -1
    BY <1>1 DEF Player
  <2> QED
    BY <1>1, <2>1 DEF NoRow, RowsFit
<1>3. RowsFit'
  BY <1>1 DEF RowsFit
<1>4. ASSUME NEW p \in Player
      PROVE  SumOf(Column(p))' = SumOf(Column(p)) + points[p]
  <2> DEFINE f == Column(p)
             g == Column(p)'
  <2>1. f \in [1..Rounds -> Int] /\ points[p] \in Int
    BY <1>1, ColumnType
  <2>2. f[round] = 0
    BY <1>1, <1>2 DEF Column
  <2>3. g[round] = f[round] + points[p] /\ \A r \in (1..Rounds) \ {round} : g[r] = f[r]
    <3>1. /\ g = [r \in 1..Rounds |-> IF rows'[r] = NoRow THEN 0 ELSE rows'[r][p]]
          /\ f = [r \in 1..Rounds |-> IF rows[r] = NoRow THEN 0 ELSE rows[r][p]]
      BY DEF Column, NoRow
    <3>2. rows'[round] = points /\ \A r \in (1..Rounds) \ {round} : rows'[r] = rows[r]
      BY <1>1
    <3>3. g[round] = f[round] + points[p]
      BY <1>1, <1>2, <2>2, <3>1, <3>2
    <3>4. \A r \in (1..Rounds) \ {round} : g[r] = f[r]
      BY <3>1, <3>2
    <3> QED
      BY <1>1, <3>3, <3>4
  <2>4. g \in [1..Rounds -> Int]
    <3>1. \A r \in 1..Rounds : g[r] \in Int
      BY <1>1, <2>1, <2>3
    <3>2. g = [r \in 1..Rounds |-> g[r]]
      BY DEF Column
    <3> HIDE DEF g
    <3> QED
      BY <3>1, <3>2
  <2>5. SumOf(g) = SumOf(f) + points[p]
    <3> HIDE DEF f, g
    <3>1. f \in [1..Rounds -> Int] /\ g \in [1..Rounds -> Int]
      BY <2>1, <2>4
    <3>2. round \in 1..Rounds /\ points[p] \in Int
      BY <1>1, <2>1
    <3>3. g[round] = f[round] + points[p]
      BY <2>3
    <3>4. \A r \in (1..Rounds) \ {round} : g[r] = f[r]
      BY <2>3
    <3> QED
      BY <3>1, <3>2, <3>3, <3>4, SumGrows
  <2>6. SumOf(Column(p))' = SumOf(g)
    BY DEF SumOf
  <2> QED
    BY <2>5, <2>6
<1>5. ASSUME NEW p \in Player
      PROVE  /\ SumOf(Column(p))' <= total'[p]
             /\ (\A r \in 1..Rounds : Played(r)' => rows'[r] # NoRow)
                  => SumOf(Column(p))' = total'[p]
  <2>1. SumOf(Column(p)) \in Int /\ total[p] \in Int /\ points[p] \in Int
    BY <1>1, ColumnType, SumType
  <2>2. total'[p] = total[p] + points[p]
    BY <1>1
  <2>3. (\A r \in 1..Rounds : Played(r)' => rows'[r] # NoRow)
          => \A r \in 1..Rounds : Played(r) => rows[r] # NoRow
    BY <1>1 DEF Played
  <2> QED
    BY <1>4, <2>1, <2>2, <2>3 DEF SumsAgree
<1> QED
  BY <1>3, <1>5 DEF SumsAgree, NoRow

(* PersistRound, with its row lost: the column stays, the total grows, and *)
(* a round that was played has no row.                                     *)
LEMMA LostRound ==
  ASSUME IInv, RowsFit, SumsAgree, PersistRound, UNCHANGED rows
  PROVE  RowsFit' /\ SumsAgree'
<1>1. /\ Rounds \in Nat \ {0} /\ round \in 1..Rounds /\ round' = round + 1
      /\ points \in [Player -> Nat]
      /\ total \in [Player -> Nat] /\ total' = [p \in Player |-> total[p] + points[p]]
  BY SizesAssumption DEF IInv, TypeOK, RoundInStep, Playing, PersistRound, Ready, PersistTotal
<1>2. RowsFit'
  BY <1>1 DEF RowsFit, NoRow
<1>3. ~ \A r \in 1..Rounds : Played(r)' => rows'[r] # NoRow
  <2>1. PICK r \in 1..Rounds : r = round
    BY <1>1
  <2>2. Played(r)' /\ rows'[r] = NoRow
    BY <1>1, <2>1 DEF Played, RowsFit
  <2> QED
    BY <2>2
<1>4. ASSUME NEW p \in Player PROVE SumOf(Column(p))' <= total'[p]
  <2>1. SumOf(Column(p))' = SumOf(Column(p))
    BY DEF SumOf, Column, NoRow
  <2>2. /\ SumOf(Column(p)) \in Int /\ total[p] \in Int /\ points[p] \in Nat
        /\ total'[p] = total[p] + points[p]
    BY <1>1, ColumnType, SumType
  <2> QED
    BY <2>1, <2>2 DEF SumsAgree
<1> QED
  BY <1>2, <1>3, <1>4 DEF SumsAgree, NoRow

LEMMA LedgerStep ==
  ASSUME IInv, RowsFit, SumsAgree, [Next]_vars
  PROVE  RowsFit' /\ SumsAgree'
<1>1. CASE PersistRound
  BY <1>1, StoredRound, LostRound DEF PersistRound
<1>2. CASE UNCHANGED <<round, total, rows>>
  <2>1. RowsFit'
    BY <1>2 DEF RowsFit, NoRow
  <2>2. \A p \in Player : SumOf(Column(p))' = SumOf(Column(p))
    BY <1>2 DEF SumOf, Column, NoRow
  <2>3. \A r \in 1..Rounds : /\ Played(r)' <=> Played(r)
                             /\ (rows'[r] # NoRow) <=> (rows[r] # NoRow)
    BY <1>2 DEF Played
  <2> QED
    BY <1>2, <2>1, <2>2, <2>3 DEF SumsAgree, NoRow
<1>3. PersistRound \/ UNCHANGED <<round, total, rows>>
  BY DEF vars, session, store, Next, SessionStep, Environment, Stopped, StartSession,
     SendQuestion, StartTimer, ReceiveAnswer, SeeClosed, TimerFires, BothAnswered, ScoreRound,
     CompleteGame, LeaveSession, SendNext, SendPanics, QueueAnswer, WriteOne, Unregister,
     OtherTraffic, NewerJoins, NewerLeaves, Tick
<1> QED
  BY <1>1, <1>2, <1>3

(* match_rounds and matches agree, for any number of rounds: the totals    *)
(* are the sums of the rows, less only what failed to be stored.           *)
THEOREM TablesAgree == Spec => []LedgerAgrees
<1>1. Init => RowsFit /\ SumsAgree
  BY LedgerStarts
<1>2. IInv /\ (RowsFit /\ SumsAgree) /\ [Next]_vars => (RowsFit /\ SumsAgree)'
  BY LedgerStep
<1>3. IInv /\ SumsAgree => LedgerAgrees
  BY DEF IInv, OverOnce, SumsAgree, LedgerAgrees
<1> QED
  BY <1>1, <1>2, <1>3, Invariance, PTL DEF Spec

-----------------------------------------------------------------------------
(* What the players are told.                                              *)

(* The positions of a queue of which the first is taken, or to which       *)
(* something is added.                                                     *)
LEMMA TakenFirst ==
  ASSUME NEW S, NEW s \in Seq(S), s # << >>
  PROVE  /\ Head(s) \in S /\ Head(s) = s[1] /\ 1 \in DOMAIN s
         /\ Tail(s) \in Seq(S)
         /\ \A i \in DOMAIN Tail(s) : i + 1 \in DOMAIN s /\ Tail(s)[i] = s[i + 1]
<1>1. /\ Len(s) \in Nat \ {0} /\ DOMAIN s = 1..Len(s)
      /\ Head(s) \in S /\ Head(s) = s[1]
  OBVIOUS
<1>2. /\ Tail(s) \in Seq(S) /\ Len(Tail(s)) = Len(s) - 1
      /\ \A i \in 1..Len(Tail(s)) : Tail(s)[i] = s[i + 1]
  BY HeadTailProperties
<1>3. DOMAIN Tail(s) = 1..Len(Tail(s))
  BY <1>2
<1> QED
  BY <1>1, <1>2, <1>3

LEMMA AddedLast ==
  ASSUME NEW S, NEW s \in Seq(S), NEW e \in S
  PROVE  /\ Append(s, e) \in Seq(S)
         /\ \A i \in DOMAIN Append(s, e) :
              \/ i \in DOMAIN s /\ Append(s, e)[i] = s[i]
              \/ i = Len(s) + 1 /\ Append(s, e)[i] = e
<1>1. /\ Append(s, e) \in Seq(S) /\ Len(Append(s, e)) = Len(s) + 1
      /\ \A i \in 1..Len(s) : Append(s, e)[i] = s[i]
      /\ Append(s, e)[Len(s) + 1] = e
  BY AppendProperties
<1>2. /\ DOMAIN Append(s, e) = 1..Len(Append(s, e))
      /\ DOMAIN s = 1..Len(s) /\ Len(s) \in Nat
  BY <1>1
<1> QED
  BY <1>1, <1>2

LEMMA OutboxElements ==
  ASSUME TypeOK, NEW i \in DOMAIN outbox
  PROVE  outbox[i].to \in Player /\ outbox[i].msg \in Message
<1>1. outbox \in Seq([to : Player, msg : Message])
  BY DEF TypeOK
<1>2. DOMAIN outbox = 1..Len(outbox)
  BY <1>1
<1>3. outbox[i] \in [to : Player, msg : Message]
  BY <1>1, <1>2, ElementOfSeq
<1> QED
  BY <1>3

LEMMA SaidAreMessages ==
  ASSUME TypeOK, NEW p \in Player
  PROVE  Said(p) \subseteq Message
<1>1. \A i \in DOMAIN send[p] : send[p][i] \in Message
  BY DEF TypeOK
<1> QED
  BY <1>1, OutboxElements DEF Said

(* One message for each player is composed.                                *)
LEMMA SaidToBoth ==
  ASSUME TypeOK, NEW a, NEW b, UNCHANGED send, outbox = << >>,
         outbox' = << [to |-> 1, msg |-> a], [to |-> 2, msg |-> b] >>
  PROVE  /\ Said(1)' \subseteq Said(1) \cup {a}
         /\ Said(2)' \subseteq Said(2) \cup {b}
<1>1. DOMAIN outbox' = {1, 2}
  OBVIOUS
<1>2. /\ outbox'[1].to = 1 /\ outbox'[1].msg = a
      /\ outbox'[2].to = 2 /\ outbox'[2].msg = b
  OBVIOUS
<1> QED
  BY <1>1, <1>2 DEF Said

(* Everything else that happens to messages moves them, drops them, or     *)
(* puts one that is not of the game into a queue.                          *)
Composes ==
  \/ StartSession \/ SendQuestion \/ ScoreRound \/ CompleteGame
  \/ \E p \in Player : ReceiveAnswer(p)

MovesOne ==
  \/ SendNext \/ SendPanics
  \/ \E p \in Player : WriteOne(p)
  \/ \E p \in Noisy : OtherTraffic(p)

LEMMA MessageSteps ==
  ASSUME [Next]_vars
  PROVE  Composes \/ MovesOne \/ UNCHANGED <<send, outbox>>
BY DEF Composes, MovesOne, vars, session, Next, SessionStep, Environment, Stopped, StartTimer,
   SeeClosed, TimerFires, BothAnswered, PersistRound, LeaveSession, QueueAnswer, Unregister,
   NewerJoins, NewerLeaves, Tick

LEMMA SaidByMoving ==
  ASSUME TypeOK, MovesOne, NEW p \in Player, NEW m \in Said(p)'
  PROVE  m \in Said(p) \/ m.kind = "other"
<1>0. /\ outbox \in Seq([to : Player, msg : Message])
      /\ send \in [Player -> Seq(Message)]
  BY DEF TypeOK
<1>1. CASE SendNext
  <2> DEFINE first == Head(outbox)
  <2>1. /\ first \in [to : Player, msg : Message] /\ first = outbox[1]
        /\ 1 \in DOMAIN outbox
        /\ Tail(outbox) \in Seq([to : Player, msg : Message])
        /\ \A i \in DOMAIN Tail(outbox) :
             i + 1 \in DOMAIN outbox /\ Tail(outbox)[i] = outbox[i + 1]
    <3>1. outbox # << >>
      BY <1>1 DEF SendNext
    <3> QED
      BY <1>0, <3>1, TakenFirst
  <2>2. ASSUME NEW i \in DOMAIN outbox', outbox'[i].to = p PROVE outbox'[i].msg \in Said(p)
    BY <1>1, <2>1, <2>2 DEF SendNext, Said
  <2>3. ASSUME NEW i \in DOMAIN send'[p] PROVE send'[p][i] \in Said(p)
    <3>1. CASE send'[p] = send[p]
      BY <2>3, <3>1 DEF Said
    <3>2. CASE p = first.to /\ send'[p] = Append(send[p], first.msg)
      <4>1. send'[p][i] = first.msg \/ (i \in DOMAIN send[p] /\ send'[p][i] = send[p][i])
        <5>1. send[p] \in Seq(Message) /\ first.msg \in Message
          BY <1>0, <2>1
        <5> HIDE DEF first
        <5> QED
          BY <2>3, <3>2, <5>1, AddedLast
      <4> QED
        BY <2>1, <3>2, <4>1 DEF Said
    <3>3. send'[p] = send[p] \/ (p = first.to /\ send'[p] = Append(send[p], first.msg))
      BY <1>0, <1>1, <2>1 DEF SendNext
    <3> QED
      BY <3>1, <3>2, <3>3
  <2> QED
    BY <2>2, <2>3 DEF Said
<1>2. CASE SendPanics
  BY <1>2 DEF SendPanics, Said
<1>3. ASSUME NEW q \in Player, WriteOne(q) PROVE m \in Said(p)
  <2>1. /\ Tail(send[q]) \in Seq(Message)
        /\ \A i \in DOMAIN Tail(send[q]) :
             i + 1 \in DOMAIN send[q] /\ Tail(send[q])[i] = send[q][i + 1]
    BY <1>0, <1>3, TakenFirst DEF WriteOne
  <2>2. outbox' = outbox /\ send' = [send EXCEPT ![q] = Tail(send[q])]
    BY <1>3 DEF WriteOne, session
  <2>3. ASSUME NEW i \in DOMAIN send'[p] PROVE \E j \in DOMAIN send[p] : send'[p][i] = send[p][j]
    BY <1>0, <2>1, <2>2, <2>3
  <2> QED
    BY <2>2, <2>3 DEF Said
<1>4. ASSUME NEW q \in Noisy, OtherTraffic(q) PROVE m \in Said(p) \/ m.kind = "other"
  <2> DEFINE noise == Msg("other", 0, 0, 0)
  <2>1. noise \in Message /\ noise.kind = "other" /\ q \in Player
    BY MsgType, SizesAssumption DEF Msg
  <2>2. outbox' = outbox /\ send' = [send EXCEPT ![q] = Append(send[q], noise)]
    BY <1>4 DEF OtherTraffic, session
  <2>3. ASSUME NEW i \in DOMAIN send'[p]
        PROVE  send'[p][i] = noise \/ \E j \in DOMAIN send[p] : send'[p][i] = send[p][j]
    <3> HIDE DEF noise
    <3>1. send'[p] = send[p] \/ send'[p] = Append(send[p], noise)
      BY <1>0, <2>1, <2>2
    <3>2. \A k \in DOMAIN Append(send[p], noise) :
            \/ k \in DOMAIN send[p] /\ Append(send[p], noise)[k] = send[p][k]
            \/ Append(send[p], noise)[k] = noise
      <4>1. send[p] \in Seq(Message) /\ noise \in Message
        BY <1>0, <2>1
      <4> QED
        BY <4>1, AddedLast
    <3> QED
      BY <2>3, <3>1, <3>2
  <2> QED
    BY <2>1, <2>2, <2>3 DEF Said
<1> QED
  BY <1>1, <1>2, <1>3, <1>4 DEF MovesOne

(* The strengthening: a result of the round being played has been composed *)
(* only when that round is about to be persisted, and a final score only   *)
(* when the game is over.                                                  *)
SaidInTime ==
  \A p \in Player : \A m \in Said(p) :
    /\ m.kind = "game_end" => pc \in Over /\ round = Rounds + 1
    /\ m.kind = "round_result" =>
         m.round <= round /\ (m.round = round => pc \in {"persist", "panic"})

(* A round_result or game_end has the totals of Run, before or after it    *)
(* has added the points of the round, and the two players have the same.   *)
ToldTotals ==
  \A p \in Player : \A m \in Said(p) :
    /\ m.kind = "game_end" => Tells(m, p, total)
    /\ m.kind = "round_result" =>
         /\ m.round = round - 1 => Tells(m, p, total)
         /\ m.round = round => Tells(m, p, [q \in Player |-> total[q] + points[q]])
         /\ \A n \in Said(Other(p)) :
              n.kind = "round_result" /\ n.round = m.round =>
                m.you = n.them /\ m.them = n.you

Told == SaidInTime /\ ToldTotals

(* Steps that compose no score and leave the scores alone.                 *)
LEMMA ToldKept ==
  ASSUME Told, UNCHANGED <<round, total, points>>,
         pc \in Over => pc' \in Over,
         pc \in {"persist", "panic"} => pc' \in {"persist", "panic"},
         \A p \in Player : \A m \in Said(p)' :
           m \in Said(p) \/ m.kind \notin {"game_end", "round_result"}
  PROVE  Told'
<1>1. SaidInTime'
  BY DEF Told, SaidInTime
<1>2. ASSUME NEW p \in Player, NEW m \in Said(p)'
      PROVE  /\ m.kind = "game_end" => Tells(m, p, total')
             /\ m.kind = "round_result" =>
                  /\ m.round = round' - 1 => Tells(m, p, total')
                  /\ m.round = round' => Tells(m, p, [q \in Player |-> total'[q] + points'[q]])
                  /\ \A n \in Said(Other(p))' :
                       n.kind = "round_result" /\ n.round = m.round =>
                         m.you = n.them /\ m.them = n.you
  <2>1. Other(p) \in Player
    BY DEF Other, Player
  <2>2. CASE m \notin Said(p)
    BY <1>2, <2>2
  <2>3. CASE m \in Said(p)
    <3>1. \A n \in Said(Other(p))' : n.kind = "round_result" => n \in Said(Other(p))
      BY <2>1
    <3> QED
      BY <2>3, <3>1 DEF Told, ToldTotals
  <2> QED
    BY <2>2, <2>3
<1>3. ToldTotals'
  BY <1>2 DEF ToldTotals, Tells
<1> QED
  BY <1>1, <1>3 DEF Told

(* ScoreRound composes the results of the round, the first about it, each  *)
(* with both players' points as the other's has them.                      *)
LEMMA ToldByScoring ==
  ASSUME IInv, Told, ScoreRound
  PROVE  Told'
<1>0. /\ pc = "score" /\ pc' = "persist" /\ round \in Nat
      /\ UNCHANGED <<round, total, send>>
      /\ Other(1) = 2 /\ Other(2) = 1
  BY DEF ScoreRound, Ready, IInv, TypeOK, Other
<1> DEFINE a == ResultMsg(1, points')
           b == ResultMsg(2, points')
           after == [q \in Player |-> total[q] + points'[q]]
<1>1. /\ a.kind = "round_result" /\ a.round = round
      /\ a.you = after[1] /\ a.them = after[2]
      /\ b.kind = "round_result" /\ b.round = round
      /\ b.you = after[2] /\ b.them = after[1]
  BY <1>0 DEF ResultMsg, Msg, Player
<1>2. Said(1)' \subseteq Said(1) \cup {a} /\ Said(2)' \subseteq Said(2) \cup {b}
  <2>1. outbox = << >> /\ outbox' = << [to |-> 1, msg |-> a], [to |-> 2, msg |-> b] >>
    BY DEF ScoreRound, Ready, ToBoth, Player
  <2> QED
    BY <1>0, <2>1, SaidToBoth DEF IInv
<1> HIDE DEF a, b
<1>3. \A p \in Player : \A m \in Said(p) :
        /\ m.kind # "game_end"
        /\ m.kind = "round_result" => m.round <= round /\ m.round # round
  BY <1>0 DEF Told, SaidInTime, Over
<1>4. SaidInTime'
  BY <1>0, <1>1, <1>2, <1>3 DEF SaidInTime, Player
<1>5. ASSUME NEW p \in Player, NEW m \in Said(p)', m.kind = "round_result"
      PROVE  /\ m.round = round - 1 => Tells(m, p, total)
             /\ m.round = round => Tells(m, p, after)
             /\ \A n \in Said(Other(p))' :
                  n.kind = "round_result" /\ n.round = m.round =>
                    m.you = n.them /\ m.them = n.you
  <2>1. CASE m \in Said(p)
    <3>1. \A n \in Said(Other(p))' : n.kind = "round_result" /\ n.round = m.round
            => n \in Said(Other(p))
      BY <1>0, <1>1, <1>2, <1>3, <1>5, <2>1 DEF Player
    <3> QED
      BY <1>3, <1>5, <2>1, <3>1 DEF Told, ToldTotals
  <2>2. CASE m \notin Said(p)
    <3>1. m = IF p = 1 THEN a ELSE b
      BY <1>2, <2>2 DEF Player
    <3>2. \A n \in Said(Other(p))' : n.kind = "round_result" /\ n.round = round
            => n = IF p = 1 THEN b ELSE a
      BY <1>0, <1>2, <1>3 DEF Player
    <3> QED
      BY <1>0, <1>1, <3>1, <3>2 DEF Tells, Player
  <2> QED
    BY <2>1, <2>2
<1>6. \A p \in Player : \A m \in Said(p)' : m.kind # "game_end"
  BY <1>1, <1>2, <1>3 DEF Player
<1>7. ToldTotals'
  BY <1>0, <1>5, <1>6 DEF ToldTotals, Tells
<1> QED
  BY <1>4, <1>7 DEF Told

(* PersistRound adds to the totals what the results of the round said.     *)
LEMMA ToldByPersisting ==
  ASSUME IInv, Told, PersistRound
  PROVE  Told'
<1>0. /\ pc = "persist" /\ round \in Nat /\ round' = round + 1
      /\ total' = [p \in Player |-> total[p] + points[p]]
      /\ UNCHANGED <<send, outbox>>
  BY DEF PersistRound, PersistTotal, Ready, IInv, TypeOK
<1>1. \A p \in Player : Said(p)' = Said(p)
  BY <1>0 DEF Said
<1>2. \A p \in Player : \A m \in Said(p) :
        m.kind = "round_result" => m \in Message /\ m.round \in Nat /\ m.round <= round
  <2>1. \A p \in Player : Said(p) \subseteq Message
    BY SaidAreMessages DEF IInv
  <2>2. \A m \in Message : m.round \in Nat
    BY SizesAssumption DEF Message
  <2> QED
    BY <2>1, <2>2 DEF Told, SaidInTime
<1>3. \A p \in Player : \A m \in Said(p) : m.kind # "game_end"
  BY <1>0 DEF Told, SaidInTime, Over
<1>4. SaidInTime'
  BY <1>0, <1>1, <1>2, <1>3 DEF SaidInTime
<1>5. ASSUME NEW p \in Player, NEW m \in Said(p), m.kind = "round_result"
      PROVE  /\ m.round = round' - 1 => Tells(m, p, total')
             /\ m.round # round'
             /\ \A n \in Said(Other(p)) :
                  n.kind = "round_result" /\ n.round = m.round =>
                    m.you = n.them /\ m.them = n.you
  BY <1>0, <1>2, <1>5 DEF Told, ToldTotals
<1>6. ASSUME NEW p \in Player PROVE Said(Other(p))' = Said(Other(p))
  BY <1>1 DEF Other, Player
<1>7. ToldTotals'
  BY <1>1, <1>3, <1>5, <1>6 DEF ToldTotals, Tells
<1> QED
  BY <1>4, <1>7 DEF Told

(* CompleteGame composes the final scores.                                 *)
LEMMA ToldByCompleting ==
  ASSUME IInv, Told, CompleteGame
  PROVE  Told'
<1>0. /\ pc = "complete" /\ pc' = "exit" /\ round = Rounds + 1
      /\ UNCHANGED <<round, total, points, send>>
      /\ Other(1) = 2 /\ Other(2) = 1
  BY DEF CompleteGame, Ready, Other, IInv, RoundInStep
<1> DEFINE a == Msg("game_end", 0, total[1], total[2])
           b == Msg("game_end", 0, total[2], total[1])
<1>1. /\ a.kind = "game_end" /\ a.you = total[1] /\ a.them = total[2]
      /\ b.kind = "game_end" /\ b.you = total[2] /\ b.them = total[1]
  BY DEF Msg
<1>2. Said(1)' \subseteq Said(1) \cup {a} /\ Said(2)' \subseteq Said(2) \cup {b}
  <2>1. outbox = << >> /\ outbox' = << [to |-> 1, msg |-> a], [to |-> 2, msg |-> b] >>
    BY <1>0 DEF CompleteGame, Ready, ToBoth, Player
  <2> QED
    BY <1>0, <2>1, SaidToBoth DEF IInv
<1> HIDE DEF a, b
<1>3. \A p \in Player : \A m \in Said(p) :
        /\ m.kind # "game_end"
        /\ m.kind = "round_result" => m.round <= round /\ m.round # round
  BY <1>0 DEF Told, SaidInTime, Over
<1>4. \A p \in Player : \A m \in Said(p)' :
        /\ m.kind = "game_end" => Tells(m, p, total)
        /\ m.kind = "round_result" => m \in Said(p)
  BY <1>0, <1>1, <1>2, <1>3 DEF Tells, Player
<1>5. SaidInTime'
  BY <1>0, <1>3, <1>4 DEF SaidInTime, Over
<1>6. ASSUME NEW p \in Player, NEW m \in Said(p)', m.kind = "round_result"
      PROVE  /\ m.round = round - 1 => Tells(m, p, total)
             /\ m.round # round
             /\ \A n \in Said(Other(p))' :
                  n.kind = "round_result" /\ n.round = m.round =>
                    m.you = n.them /\ m.them = n.you
  <2>1. Other(p) \in Player
    BY DEF Other, Player
  <2>2. m \in Said(p) /\ \A n \in Said(Other(p))' : n.kind = "round_result" => n \in Said(Other(p))
    BY <1>4, <1>6, <2>1
  <2> QED
    BY <1>3, <1>6, <2>2 DEF Told, ToldTotals
<1>7. ToldTotals'
  BY <1>0, <1>4, <1>6 DEF ToldTotals, Tells
<1> QED
  BY <1>5, <1>7 DEF Told

LEMMA SaidOtherwise ==
  ASSUME IInv, [Next]_vars, ~ScoreRound, ~CompleteGame,
         NEW p \in Player, NEW m \in Said(p)'
  PROVE  m \in Said(p) \/ m.kind \notin {"game_end", "round_result"}
<1>1. CASE StartSession \/ SendQuestion
  <2>1. PICK a, b : /\ outbox' = << [to |-> 1, msg |-> a], [to |-> 2, msg |-> b] >>
                    /\ a.kind \in {"game_start", "question"}
                    /\ b.kind \in {"game_start", "question"}
    BY <1>1 DEF StartSession, SendQuestion, QuestionMsg, ToBoth, Msg, Player
  <2>2. outbox = << >> /\ UNCHANGED send
    BY <1>1 DEF StartSession, SendQuestion, Ready
  <2> QED
    BY <2>1, <2>2, SaidToBoth DEF IInv, Player
<1>2. ASSUME NEW q \in Player, ReceiveAnswer(q)
      PROVE  m \in Said(p) \/ m.kind \notin {"game_end", "round_result"}
  <2>1. CASE UNCHANGED outbox
    BY <1>2, <2>1 DEF ReceiveAnswer, Said
  <2>2. CASE outbox' = << [to |-> Other(q), msg |-> Msg("opponent_answered", round, 0, 0)] >>
    <3>1. \A i \in DOMAIN outbox' : outbox'[i].msg.kind = "opponent_answered"
      BY <2>2 DEF Msg
    <3> QED
      BY <1>2, <3>1 DEF ReceiveAnswer, Said
  <2> QED
    BY <1>2, <2>1, <2>2 DEF ReceiveAnswer
<1>3. CASE MovesOne
  BY <1>3, SaidByMoving DEF IInv
<1>4. CASE UNCHANGED <<send, outbox>>
  BY <1>4 DEF Said
<1> QED
  BY <1>1, <1>2, <1>3, <1>4, MessageSteps DEF Composes

LEMMA ToldStep ==
  ASSUME IInv, Told, [Next]_vars
  PROVE  Told'
<1>1. CASE ScoreRound
  BY <1>1, ToldByScoring
<1>2. CASE PersistRound
  BY <1>2, ToldByPersisting
<1>3. CASE CompleteGame
  BY <1>3, ToldByCompleting
<1>4. CASE ~ScoreRound /\ ~PersistRound /\ ~CompleteGame
  <2>1. /\ UNCHANGED <<round, total, points>>
        /\ pc \in Over => pc' \in Over
        /\ pc \in {"persist", "panic"} => pc' \in {"persist", "panic"}
    BY <1>4 DEF Over, vars, session, Next, SessionStep, Environment, Stopped, Ready,
       StartSession, SendQuestion, StartTimer, ReceiveAnswer, SeeClosed, TimerFires,
       BothAnswered, LeaveSession, SendNext, SendPanics, QueueAnswer, WriteOne, Unregister,
       OtherTraffic, NewerJoins, NewerLeaves, Tick
  <2>2. \A p \in Player : \A m \in Said(p)' :
          m \in Said(p) \/ m.kind \notin {"game_end", "round_result"}
    BY <1>4, SaidOtherwise
  <2> QED
    BY <2>1, <2>2, ToldKept
<1> QED
  BY <1>1, <1>2, <1>3, <1>4

(* A result of a round before the last one shows what the rows had then,   *)
(* and they have not changed since.                                        *)
EarlierFits ==
  \A p \in Player : \A m \in Said(p) :
    m.kind = "round_result" /\ m.round < round - 1 /\ Stored(m.round)
      => Tells(m, p, Sums(m.round))

(* After the last round that was played there are no rows, so that the     *)
(* sums up to it are those of all rows, which are the totals.              *)
LEMMA SumsToNow ==
  ASSUME IInv, RowsFit, SumsAgree, Stored(round - 1), NEW p \in Player
  PROVE  Sums(round - 1)[p] = total[p]
<1>1. Rounds \in Nat /\ round \in 1..(Rounds + 1)
  BY SizesAssumption DEF IInv, TypeOK
<1>2. UpTo(Column(p), round - 1) = Column(p)
  <2>1. \A r \in 1..Rounds : ~(r <= round - 1) => Column(p)[r] = 0
    BY <1>1 DEF RowsFit, Column
  <2>2. Column(p) = [r \in 1..Rounds |-> Column(p)[r]]
    BY DEF Column
  <2> QED
    BY <2>1, <2>2 DEF UpTo
<1>3. SumOf(Column(p)) = total[p]
  BY <1>1 DEF SumsAgree, Stored, Played
<1> QED
  BY <1>2, <1>3 DEF Sums

(* The rows of earlier rounds do not change.                               *)
LEMMA SumsStay ==
  ASSUME IInv, [Next]_vars, NEW k \in Nat, k < round
  PROVE  (Stored(k)' <=> Stored(k)) /\ Sums(k)' = Sums(k)
<1>1. \A r \in 1..Rounds : r <= k => rows'[r] = rows[r]
  <2>1. CASE PersistRound
    <3>1. round \in 1..(Rounds + 1) /\ rows \in [1..Rounds -> [Player -> Nat \cup {-1}]]
      BY DEF IInv, TypeOK
    <3>2. \A r \in 1..Rounds : r # round => rows'[r] = rows[r]
      BY <2>1, <3>1 DEF PersistRound
    <3> QED
      BY <3>1, <3>2, SizesAssumption
  <2>2. CASE UNCHANGED rows
    BY <2>2
  <2> QED
    BY <2>1, <2>2 DEF vars, store, Next, SessionStep, Environment, Stopped, StartSession,
       SendQuestion, StartTimer, ReceiveAnswer, SeeClosed, TimerFires, BothAnswered, ScoreRound,
       CompleteGame, LeaveSession, SendNext, SendPanics, QueueAnswer, WriteOne, Unregister,
       OtherTraffic, NewerJoins, NewerLeaves, Tick
<1>2. Rounds \in Nat /\ round <= Rounds + 1 /\ round \in Nat /\ k <= Rounds
  BY SizesAssumption DEF IInv, TypeOK
<1>3. Stored(k)' <=> Stored(k)
  <2>1. \A r \in 1..k : rows'[r] = rows[r]
    BY <1>1, <1>2
  <2> QED
    BY <2>1 DEF Stored, NoRow
<1>4. ASSUME NEW p \in Player PROVE UpTo(Column(p), k)' = UpTo(Column(p), k)
  BY <1>1 DEF UpTo, Column, NoRow
<1>5. ASSUME NEW p \in Player
      PROVE  SumOf(UpTo(Column(p), k))' = SumOf(UpTo(Column(p), k))
  BY <1>4 DEF SumOf
<1> QED
  BY <1>3, <1>5 DEF Sums

LEMMA ResultRounds ==
  ASSUME TypeOK, NEW p \in Player, NEW m \in Said(p)
  PROVE  m.round \in 0..Rounds
BY SaidAreMessages DEF Message

LEMMA EarlierStep ==
  ASSUME IInv, RowsFit, SumsAgree, Told, EarlierFits, [Next]_vars
  PROVE  EarlierFits'
<1> SUFFICES ASSUME NEW p \in Player, NEW m \in Said(p)', m.kind = "round_result",
                    m.round < round' - 1, Stored(m.round)'
             PROVE  Tells(m, p, Sums(m.round)')
  BY DEF EarlierFits, Tells
<1>0. Rounds \in Nat /\ round \in Nat
  BY SizesAssumption DEF IInv, TypeOK
<1>1. CASE PersistRound
  <2>1. m \in Said(p) /\ round' = round + 1
    BY <1>1 DEF PersistRound, Said
  <2>2. m.round \in Nat /\ m.round < round
    BY <1>0, <2>1, ResultRounds DEF IInv
  <2>3. Stored(m.round) /\ Sums(m.round)' = Sums(m.round)
    BY <2>2, SumsStay
  <2>4. CASE m.round = round - 1
    <3>1. Tells(m, p, total)
      BY <2>1, <2>4 DEF Told, ToldTotals
    <3>2. Other(p) \in Player
      BY DEF Other, Player
    <3>3. Sums(round - 1)[p] = total[p] /\ Sums(round - 1)[Other(p)] = total[Other(p)]
      BY <2>3, <2>4, <3>2, SumsToNow
    <3> QED
      BY <2>3, <2>4, <3>1, <3>3 DEF Tells
  <2>5. CASE m.round < round - 1
    BY <2>1, <2>3, <2>5 DEF EarlierFits
  <2> QED
    BY <1>0, <2>2, <2>4, <2>5
<1>2. CASE ~PersistRound
  <2>1. UNCHANGED round
    BY <1>2 DEF vars, session, Next, SessionStep, Environment, Stopped, StartSession,
       SendQuestion, StartTimer, ReceiveAnswer, SeeClosed, TimerFires, BothAnswered, ScoreRound,
       CompleteGame, LeaveSession, SendNext, SendPanics, QueueAnswer, WriteOne, Unregister,
       OtherTraffic, NewerJoins, NewerLeaves, Tick
  <2>2. m \in Said(p)
    <3>1. CASE ScoreRound
      <4>1. outbox = << >> /\ UNCHANGED send
            /\ outbox' = << [to |-> 1, msg |-> ResultMsg(1, points')],
                            [to |-> 2, msg |-> ResultMsg(2, points')] >>
        BY <3>1 DEF ScoreRound, Ready, ToBoth, Player
      <4>2. m \in Said(p) \/ m = ResultMsg(1, points') \/ m = ResultMsg(2, points')
        BY <4>1, SaidToBoth DEF IInv, Player
      <4>3. ResultMsg(1, points').round = round /\ ResultMsg(2, points').round = round
        BY DEF ResultMsg, Msg
      <4> QED
        BY <1>0, <2>1, <4>2, <4>3
    <3>2. CASE CompleteGame
      <4> DEFINE a == Msg("game_end", 0, total[1], total[2])
                 b == Msg("game_end", 0, total[2], total[1])
      <4>1. /\ outbox = << >> /\ UNCHANGED send
            /\ outbox' = << [to |-> 1, msg |-> a], [to |-> 2, msg |-> b] >>
        BY <3>2 DEF CompleteGame, Ready, ToBoth, Player, Other
      <4>2. a.kind = "game_end" /\ b.kind = "game_end"
        BY DEF Msg
      <4> HIDE DEF a, b
      <4> QED
        BY <4>1, <4>2, SaidToBoth DEF IInv, Player
    <3> QED
      BY <3>1, <3>2, SaidOtherwise
  <2>3. m.round \in Nat /\ m.round < round
    BY <1>0, <2>1, <2>2, ResultRounds DEF IInv
  <2>4. Stored(m.round) /\ Sums(m.round)' = Sums(m.round)
    BY <2>3, SumsStay
  <2> QED
    BY <2>1, <2>2, <2>4 DEF EarlierFits
<1> QED
  BY <1>1, <1>2

LEMMA StoredIsTold ==
  ASSUME IInv, RowsFit, SumsAgree, Told, EarlierFits
  PROVE  ToldIsStored
<1>0. Rounds \in Nat \ {0} /\ round \in 1..(Rounds + 1)
  BY SizesAssumption DEF IInv, TypeOK
<1>1. ASSUME Stored(round - 1), NEW p \in Player, NEW m, Tells(m, p, total)
      PROVE  Tells(m, p, Sums(round - 1))
  <2>1. Other(p) \in Player
    BY DEF Other, Player
  <2> QED
    BY <1>1, <2>1, SumsToNow DEF Tells
<1>2. ASSUME NEW p \in Player, NEW m \in Said(p), m.kind = "game_end"
      PROVE  /\ match.status = "completed" => Tells(m, p, match.score)
             /\ Stored(Rounds) => Tells(m, p, Sums(Rounds))
  <2>1. Tells(m, p, total)
    BY <1>2 DEF Told, ToldTotals
  <2>3. round - 1 = Rounds
    BY <1>0, <1>2 DEF Told, SaidInTime
  <2>2. match.status = "completed" => match.score = total
    BY DEF IInv, OverOnce
  <2> QED
    BY <1>1, <2>1, <2>2, <2>3
<1>3. ASSUME NEW p \in Player, NEW m \in Said(p), m.kind = "round_result", Stored(m.round)
      PROVE  Tells(m, p, Sums(m.round))
  <2>1. m.round \in 0..Rounds /\ m.round <= round
    BY <1>3, ResultRounds DEF IInv, Told, SaidInTime
  <2>2. m.round # round
    <3>1. round \in 1..Rounds => rows[round] = NoRow
      BY <1>0 DEF RowsFit
    <3> QED
      BY <1>0, <1>3, <2>1, <3>1 DEF Stored
  <2>3. CASE m.round = round - 1
    BY <1>1, <1>3, <2>3 DEF Told, ToldTotals
  <2>4. CASE m.round < round - 1
    BY <1>3, <2>4 DEF EarlierFits
  <2> QED
    BY <1>0, <2>1, <2>2, <2>3, <2>4
<1>4. \A p \in Player : \A m \in Said(p) : m.kind = "round_result" =>
        \A n \in Said(Other(p)) : n.kind = "round_result" /\ n.round = m.round =>
          m.you = n.them /\ m.them = n.you
  BY DEF Told, ToldTotals
<1> QED
  BY <1>2, <1>3, <1>4 DEF ToldIsStored

(* What the players are told is what is stored, as far as it is, and the   *)
(* same for both, whatever is lost, dropped or interleaved.                *)
THEOREM PlayersAreToldWhatIsStored == Spec => []ToldIsStored
<1> DEFINE Fits == RowsFit /\ SumsAgree /\ Told /\ EarlierFits
<1>1. Init => Fits
  <2>1. Init => \A p \in Player : Said(p) = {}
    BY DEF Init, Said
  <2> QED
    BY <2>1, LedgerStarts DEF Told, SaidInTime, ToldTotals, EarlierFits
<1>2. IInv /\ Fits /\ [Next]_vars => Fits'
  BY LedgerStep, ToldStep, EarlierStep
<1>3. IInv /\ Fits => ToldIsStored
  BY StoredIsTold
<1> HIDE DEF Fits
<1> QED
  BY <1>1, <1>2, <1>3, Invariance, PTL DEF Spec

-----------------------------------------------------------------------------
(* The order of what the players are told.                                 *)

(* The strengthening: how far, in the order of the game, what has been     *)
(* composed for a player can be, by where Run is; opponent_answered is     *)
(* composed once, as it takes the other's answer from nil.                 *)
Level(p) ==
  CASE pc = "start" -> -1
    [] pc \in {"question", "complete"} -> 3 * round - 1
    [] pc = "asked" -> 3 * round
    [] pc = "await" -> IF ans[Other(p)].by = "answer" THEN 3 * round + 1 ELSE 3 * round
    [] pc = "score" -> 3 * round + 1
    [] pc = "persist" -> 3 * round + 2
    [] OTHER -> 3 * Rounds + 3

RankedSoFar ==
  \A p \in Player : \A m \in Said(p) : m.kind # "other" => Rank(m) <= Level(p)

(* At most one message is on its way to each player, behind everything     *)
(* that is in the player's queue.                                          *)
OneEach == \A i, j \in DOMAIN outbox : outbox[i].to = outbox[j].to => i = j

Before(m, n) == m.kind # "other" /\ n.kind # "other" => Rank(m) < Rank(n)

QueuedFirst ==
  \A j \in DOMAIN outbox : \A i \in DOMAIN send[outbox[j].to] :
    Before(send[outbox[j].to][i], outbox[j].msg)

Ordered == RankedSoFar /\ OneEach /\ QueuedFirst /\ QueuesInOrder

LEMMA OrderAfter ==
  /\ (\A j \in DOMAIN outbox' : \A i \in DOMAIN send'[outbox'[j].to] :
        Before(send'[outbox'[j].to][i], outbox'[j].msg))
       => QueuedFirst'
  /\ (\A p \in Player : \A i, j \in DOMAIN send'[p] :
        i < j => Before(send'[p][i], send'[p][j]))
       => QueuesInOrder'
BY DEF QueuedFirst, QueuesInOrder, Before, Rank

LEMMA RankType ==
  ASSUME NEW m \in Message, m.kind # "other"
  PROVE  Rank(m) \in Nat
<1>1. Rounds \in Nat /\ m.round \in Nat
  BY SizesAssumption DEF Message
<1>2. m.kind \in {"game_start", "question", "opponent_answered", "round_result", "game_end"}
  BY DEF Message
<1> QED
  BY <1>1, <1>2 DEF Rank

LEMMA LevelType ==
  ASSUME TypeOK, NEW p \in Player
  PROVE  Level(p) \in Int
<1>1. round \in Int /\ Rounds \in Int
  BY SizesAssumption DEF TypeOK
<1> QED
  BY <1>1 DEF Level

(* Every step of Run leaves room for what it may have composed before.     *)
LEMMA LevelGrows ==
  ASSUME IInv, [Next]_vars, NEW p \in Player
  PROVE  Level(p) <= Level(p)'
<1>0. /\ Rounds \in Nat /\ round \in Nat /\ round <= Rounds + 1
      /\ pc \in Playing => round <= Rounds
      /\ pc \in Playing \cup Over \cup {"complete"}
      /\ ans \in [Player -> Slot] /\ Other(p) \in Player
  BY SizesAssumption DEF IInv, TypeOK, RoundInStep, Playing, Over, Other, Player
<1>1. CASE pc' = pc /\ round' = round /\ (ans[Other(p)].by = "answer" => ans'[Other(p)].by = "answer")
  BY <1>0, <1>1 DEF Level, Playing, Over
<1>2. CASE pc \notin Over /\ pc' \in Over
  BY <1>0, <1>2 DEF Level, Playing, Over
<1>3. CASE pc \in Over /\ pc' \in Over
  BY <1>0, <1>3 DEF Level, Over
<1>4. CASE StartSession \/ SendQuestion \/ StartTimer
  BY <1>0, <1>4 DEF StartSession, SendQuestion, StartTimer, Ready, Level, Nil, NoAnswer, Playing
<1>5. CASE pc = "await" /\ pc' = "score" /\ round' = round
  BY <1>0, <1>5 DEF Level
<1>6. CASE ScoreRound
  BY <1>0, <1>6 DEF ScoreRound, Ready, Level
<1>7. CASE PersistRound
  BY <1>0, <1>7 DEF PersistRound, Ready, Level, LastRound, Playing
<1>8. ASSUME NEW q \in Player, ReceiveAnswer(q)
      PROVE  /\ pc' = pc /\ round' = round
             /\ ans[Other(p)].by = "answer" => ans'[Other(p)].by = "answer"
  BY <1>0, <1>8 DEF ReceiveAnswer, Arrived
<1>9. \/ pc' = pc /\ round' = round /\ ans' = ans
      \/ pc \notin Over /\ pc' \in Over
      \/ pc \in Over /\ pc' \in Over
      \/ StartSession \/ SendQuestion \/ StartTimer
      \/ pc = "await" /\ pc' = "score" /\ round' = round
      \/ ScoreRound \/ PersistRound
      \/ \E q \in Player : ReceiveAnswer(q)
  BY DEF Over, vars, session, Next, SessionStep, Environment, Stopped, Ready, SeeClosed,
     TimerFires, BothAnswered, CompleteGame, LeaveSession, SendNext, SendPanics, QueueAnswer,
     WriteOne, Unregister, OtherTraffic, NewerJoins, NewerLeaves, Tick
<1> QED
  BY <1>1, <1>2, <1>3, <1>4, <1>5, <1>6, <1>7, <1>8, <1>9

(* One message for each player, further in the order than all before.      *)
LEMMA OrderedToBoth ==
  ASSUME IInv, Ordered, [Next]_vars, NEW a, NEW b, UNCHANGED send, outbox = << >>,
         outbox' = << [to |-> 1, msg |-> a], [to |-> 2, msg |-> b] >>,
         Level(1) < Rank(a), Rank(a) <= Level(1)', Rank(a) \in Int,
         Level(2) < Rank(b), Rank(b) <= Level(2)', Rank(b) \in Int
  PROVE  Ordered'
<1>0. /\ 1 \in Player /\ 2 \in Player /\ \A p \in Player : p = 1 \/ p = 2
      /\ DOMAIN outbox' = {1, 2}
      /\ outbox'[1] = [to |-> 1, msg |-> a] /\ outbox'[2] = [to |-> 2, msg |-> b]
  BY DEF Player
<1>1. \A p \in Player : \A m \in Said(p) : m.kind # "other" =>
        Rank(m) \in Int /\ Level(p) \in Int /\ Rank(m) <= Level(p)
  BY SaidAreMessages, RankType, LevelType DEF IInv, Ordered, RankedSoFar
<1>2. RankedSoFar'
  <2>1. Said(1)' \subseteq Said(1) \cup {a} /\ Said(2)' \subseteq Said(2) \cup {b}
    BY SaidToBoth DEF IInv
  <2>2. \A p \in Player : Level(p) <= Level(p)' /\ Level(p) \in Int
    BY LevelGrows, LevelType DEF IInv
  <2>3. \A p \in Player : Level(p)' \in Int
    <3>1. round' \in Int /\ Rounds \in Int
      BY NextPreserves, SizesAssumption DEF IInv, TypeOK
    <3> QED
      BY <3>1 DEF Level
  <2>4. ASSUME NEW p \in Player, NEW m \in Said(p)', m.kind # "other"
        PROVE  Rank(m) <= Level(p)'
    <3>1. m \in Said(p) \/ (p = 1 /\ m = a) \/ (p = 2 /\ m = b)
      BY <1>0, <2>1, <2>4
    <3>2. CASE m \in Said(p)
      BY <1>1, <2>2, <2>3, <2>4, <3>2
    <3> QED
      BY <3>1, <3>2
  <2> QED
    BY <2>4 DEF RankedSoFar
<1>3. OneEach'
  BY <1>0 DEF OneEach
<1>4. QueuedFirst'
  <2>1. \A p \in Player : \A i \in DOMAIN send[p] : send[p][i] \in Said(p)
    BY DEF Said
  <2> QED
    BY <1>0, <1>1, <2>1 DEF QueuedFirst, Before
<1>5. QueuesInOrder'
  BY DEF Ordered, QueuesInOrder
<1> QED
  BY <1>2, <1>3, <1>4, <1>5 DEF Ordered

LEMMA OrderedByComposing ==
  ASSUME IInv, Ordered, [Next]_vars, StartSession \/ SendQuestion \/ ScoreRound \/ CompleteGame
  PROVE  Ordered'
<1>0. /\ Rounds \in Nat \ {0} /\ round \in Nat /\ outbox = << >> /\ UNCHANGED <<round, send>>
      /\ pc = "complete" => round = Rounds + 1
  BY SizesAssumption DEF IInv, TypeOK, RoundInStep, StartSession, SendQuestion, ScoreRound,
     CompleteGame, Ready
<1>1. CASE StartSession
  <2> DEFINE a == Msg("game_start", 0, 0, 0)
  <2>1. outbox' = << [to |-> 1, msg |-> a], [to |-> 2, msg |-> a] >>
    BY <1>1 DEF StartSession, ToBoth, Player
  <2>2. Rank(a) = 0
    BY DEF Rank, Msg
  <2>3. \A p \in Player : Level(p) = -1 /\ Level(p)' = 3 * round - 1 /\ 0 <= 3 * round - 1
    <3>1. round >= 1
      BY DEF IInv, TypeOK
    <3> QED
      BY <1>0, <1>1, <3>1 DEF StartSession, Ready, Level
  <2> HIDE DEF a
  <2> QED
    BY <1>0, <2>1, <2>2, <2>3, OrderedToBoth DEF Player
<1>2. CASE SendQuestion
  <2> DEFINE a == Msg("question", round, 0, 0)
  <2>1. outbox' = << [to |-> 1, msg |-> a], [to |-> 2, msg |-> a] >>
    BY <1>2 DEF SendQuestion, QuestionMsg, ToBoth, Player
  <2>2. Rank(a) = 3 * round
    BY DEF Rank, Msg
  <2>3. \A p \in Player : Level(p) = 3 * round - 1 /\ Level(p)' = 3 * round
    BY <1>0, <1>2 DEF SendQuestion, Ready, Level
  <2> HIDE DEF a
  <2> QED
    BY <1>0, <2>1, <2>2, <2>3, OrderedToBoth DEF Player
<1>3. CASE ScoreRound
  <2> DEFINE a == ResultMsg(1, points')
             b == ResultMsg(2, points')
  <2>1. outbox' = << [to |-> 1, msg |-> a], [to |-> 2, msg |-> b] >>
    BY <1>3 DEF ScoreRound, ToBoth, Player
  <2>2. Rank(a) = 3 * round + 2 /\ Rank(b) = 3 * round + 2
    BY DEF Rank, ResultMsg, Msg
  <2>3. \A p \in Player : Level(p) = 3 * round + 1 /\ Level(p)' = 3 * round + 2
    BY <1>0, <1>3 DEF ScoreRound, Ready, Level
  <2> HIDE DEF a, b
  <2> QED
    BY <1>0, <2>1, <2>2, <2>3, OrderedToBoth DEF Player
<1>4. CASE CompleteGame
  <2> DEFINE a == Msg("game_end", 0, total[1], total[2])
             b == Msg("game_end", 0, total[2], total[1])
  <2>1. outbox' = << [to |-> 1, msg |-> a], [to |-> 2, msg |-> b] >>
    BY <1>4 DEF CompleteGame, ToBoth, Player, Other
  <2>2. Rank(a) = 3 * Rounds + 3 /\ Rank(b) = 3 * Rounds + 3
    BY DEF Rank, Msg
  <2>3. \A p \in Player : Level(p) = 3 * Rounds + 2 /\ Level(p)' = 3 * Rounds + 3
    BY <1>0, <1>4 DEF CompleteGame, Ready, Level
  <2> HIDE DEF a, b
  <2> QED
    BY <1>0, <2>1, <2>2, <2>3, OrderedToBoth DEF Player
<1> QED
  BY <1>1, <1>2, <1>3, <1>4

(* Steps that compose nothing keep what is in the outbox, or some of it.   *)
LEMMA RankedStays ==
  ASSUME IInv, Ordered, [Next]_vars,
         \A p \in Player : \A m \in Said(p)' : m \in Said(p) \/ m.kind = "other"
  PROVE  RankedSoFar'
<1> SUFFICES ASSUME NEW p \in Player, NEW m \in Said(p)', m.kind # "other"
             PROVE  Rank(m) <= Level(p)'
  BY DEF RankedSoFar
<1>1. m \in Said(p) /\ m \in Message
  BY SaidAreMessages DEF IInv
<1>2. Rank(m) \in Int /\ Rank(m) <= Level(p)
  BY <1>1, RankType DEF Ordered, RankedSoFar
<1>3. Level(p) \in Int /\ Level(p) <= Level(p)'
  BY LevelGrows, LevelType DEF IInv
<1>4. Level(p)' \in Int
  <2>1. round' \in Int /\ Rounds \in Int
    BY NextPreserves, SizesAssumption DEF IInv, TypeOK
  <2> QED
    BY <2>1 DEF Level
<1> QED
  BY <1>2, <1>3, <1>4

(* Of an answer that counts, only the other player is told, and only once. *)
LEMMA OrderedByReceiving ==
  ASSUME IInv, Ordered, [Next]_vars, NEW p \in Player, ReceiveAnswer(p)
  PROVE  Ordered'
<1> DEFINE q == Other(p)
           a == Msg("opponent_answered", round, 0, 0)
<1>0. /\ round \in Nat /\ outbox = << >> /\ UNCHANGED <<send, round, pc>> /\ pc = "await"
      /\ q \in Player /\ Other(q) = p /\ ans \in [Player -> Slot]
  BY DEF ReceiveAnswer, Ready, IInv, TypeOK, Other, Player
<1>1. CASE UNCHANGED outbox
  <2>1. \A r \in Player : Said(r)' = Said(r)
    BY <1>0, <1>1 DEF Said
  <2>2. RankedSoFar'
    BY <2>1, RankedStays
  <2> QED
    BY <1>0, <1>1, <2>2 DEF Ordered, OneEach, QueuedFirst, QueuesInOrder
<1>2. CASE /\ ans[p].by = "nil" /\ ans' = [ans EXCEPT ![p] = Arrived(Head(gameCh[p]), elapsed)]
           /\ outbox' = << [to |-> q, msg |-> a] >>
  <2>1. Level(q) = 3 * round /\ Level(q)' = 3 * round + 1
    BY <1>0, <1>2 DEF Level, Arrived
  <2>2. Rank(a) = 3 * round + 1
    BY DEF Rank, Msg
  <2>3. DOMAIN outbox' = {1} /\ outbox'[1] = [to |-> q, msg |-> a]
    BY <1>2
  <2>4. \A m \in Said(q) : m.kind # "other" => Rank(m) \in Int /\ Rank(m) <= 3 * round
    BY <1>0, <2>1, SaidAreMessages, RankType DEF IInv, Ordered, RankedSoFar
  <2>5. RankedSoFar'
    <3> SUFFICES ASSUME NEW r \in Player, NEW m \in Said(r)', m.kind # "other"
                 PROVE  Rank(m) <= Level(r)'
      BY DEF RankedSoFar
    <3>1. m \in Said(r) \/ (r = q /\ m = a)
      BY <1>0, <2>3 DEF Said
    <3>2. CASE m \in Said(r)
      <4>1. Rank(m) \in Int /\ Rank(m) <= Level(r)
        BY <3>2, SaidAreMessages, RankType DEF IInv, Ordered, RankedSoFar
      <4>2. Level(r) \in Int /\ Level(r) <= Level(r)'
        BY LevelGrows, LevelType DEF IInv
      <4>3. Level(r)' \in Int
        <5>1. round' \in Int /\ Rounds \in Int
          BY <1>0, SizesAssumption
        <5> QED
          BY <5>1 DEF Level
      <4> QED
        BY <4>1, <4>2, <4>3
    <3>3. CASE r = q /\ m = a
      BY <1>0, <2>1, <2>2, <3>3
    <3> QED
      BY <3>1, <3>2, <3>3
  <2>6. QueuedFirst'
    <3>1. \A i \in DOMAIN send[q] : send[q][i] \in Said(q)
      BY DEF Said
    <3> HIDE DEF a
    <3> QED
      BY <1>0, <2>2, <2>3, <2>4, <3>1 DEF QueuedFirst, Before
  <2>7. OneEach' /\ QueuesInOrder'
    BY <1>0, <2>3 DEF OneEach, Ordered, QueuesInOrder
  <2> QED
    BY <2>5, <2>6, <2>7 DEF Ordered
<1> QED
  BY <1>1, <1>2 DEF ReceiveAnswer, Accepts

(* A message moves from the outbox to the end of a queue, or is dropped.   *)
LEMMA OrderedBySending ==
  ASSUME IInv, Ordered, [Next]_vars, SendNext
  PROVE  Ordered'
<1> DEFINE first == Head(outbox)
           p == first.to
<1>0. /\ outbox \in Seq([to : Player, msg : Message]) /\ outbox # << >>
      /\ send \in [Player -> Seq(Message)] /\ outbox' = Tail(outbox)
  BY DEF IInv, TypeOK, SendNext
<1>1. /\ first \in [to : Player, msg : Message] /\ first = outbox[1] /\ 1 \in DOMAIN outbox
      /\ \A i \in DOMAIN outbox' :
           i \in Nat /\ i # 0 /\ i + 1 \in DOMAIN outbox /\ outbox'[i] = outbox[i + 1]
  <2>1. \A i \in DOMAIN Tail(outbox) : i \in Nat /\ i # 0
    BY <1>0
  <2> QED
    BY <1>0, <2>1, TakenFirst
<1>2. /\ p \in Player /\ first.msg \in Message /\ outbox[1].to = p
      /\ \A r \in Player : r # p => send'[r] = send[r]
      /\ send'[p] = send[p] \/ send'[p] = Append(send[p], first.msg)
  BY <1>0, <1>1 DEF SendNext
<1>3. RankedSoFar'
  <2>1. MovesOne
    BY DEF MovesOne
  <2> QED
    BY <2>1, SaidByMoving, RankedStays DEF IInv
<1>4. \A i \in DOMAIN outbox' : outbox'[i].to # p
  BY <1>1, <1>2 DEF Ordered, OneEach
<1>5. OneEach'
  <2> SUFFICES ASSUME NEW i \in DOMAIN outbox', NEW j \in DOMAIN outbox',
                      outbox'[i].to = outbox'[j].to
               PROVE  i = j
    BY DEF OneEach
  <2>1. i + 1 = j + 1 /\ i \in Nat /\ j \in Nat
    BY <1>1 DEF Ordered, OneEach
  <2> QED
    BY <2>1
<1>6. QueuedFirst'
  <2> SUFFICES ASSUME NEW j \in DOMAIN outbox', NEW i \in DOMAIN send'[outbox'[j].to]
               PROVE  Before(send'[outbox'[j].to][i], outbox'[j].msg)
    BY OrderAfter
  <2>1. outbox'[j].to \in Player /\ outbox'[j].to # p
    BY <1>1, <1>4, OutboxElements DEF IInv
  <2> QED
    BY <1>1, <1>2, <2>1 DEF Ordered, QueuedFirst
<1>7. QueuesInOrder'
  <2> SUFFICES ASSUME NEW r \in Player, NEW i \in DOMAIN send'[r], NEW j \in DOMAIN send'[r],
                      i < j
               PROVE  Before(send'[r][i], send'[r][j])
    BY OrderAfter
  <2>1. CASE send'[r] = send[r]
    BY <2>1 DEF Ordered, QueuesInOrder, Before
  <2>2. CASE r = p /\ send'[r] = Append(send[r], first.msg)
    <3>1. /\ send[r] \in Seq(Message) /\ Len(send[r]) \in Nat
          /\ \A k \in DOMAIN send[r] : k \in Nat /\ k <= Len(send[r])
      BY <1>0
    <3>2. \A k \in DOMAIN send'[r] :
            \/ k \in DOMAIN send[r] /\ send'[r][k] = send[r][k]
            \/ k = Len(send[r]) + 1 /\ send'[r][k] = first.msg
      BY <1>2, <2>2, <3>1, AddedLast
    <3>3. i \in DOMAIN send[r] /\ send'[r][i] = send[r][i]
      <4>1. i # Len(send[r]) + 1
        BY <3>1, <3>2
      <4> QED
        BY <3>2, <4>1
    <3>4. CASE j \in DOMAIN send[r] /\ send'[r][j] = send[r][j]
      BY <3>3, <3>4 DEF Ordered, QueuesInOrder, Before
    <3>5. CASE send'[r][j] = first.msg
      BY <1>1, <1>2, <2>2, <3>3, <3>5 DEF Ordered, QueuedFirst
    <3> QED
      BY <3>2, <3>4, <3>5
  <2> QED
    BY <1>2, <2>1, <2>2
<1> QED
  BY <1>3, <1>5, <1>6, <1>7 DEF Ordered

(* writePump and other goroutines only take the first or add what is not   *)
(* of the game.                                                            *)
LEMMA OrderedByOthers ==
  ASSUME IInv, Ordered, [Next]_vars, NEW q \in Player, UNCHANGED outbox,
         NEW s \in Seq(Message), send' = [send EXCEPT ![q] = s],
         \A i, j \in DOMAIN s : i < j =>
           \/ s[i].kind = "other" \/ s[j].kind = "other"
           \/ \E k, l \in DOMAIN send[q] : k < l /\ s[i] = send[q][k] /\ s[j] = send[q][l],
         \A i \in DOMAIN s : s[i].kind = "other" \/ \E k \in DOMAIN send[q] : s[i] = send[q][k]
  PROVE  Ordered'
<1>0. /\ send'[q] = s /\ \A r \in Player : r # q => send'[r] = send[r]
  BY DEF IInv, TypeOK
<1>1. RankedSoFar'
  <2>1. ASSUME NEW p \in Player, NEW m \in Said(p)' PROVE m \in Said(p) \/ m.kind = "other"
    BY <1>0, <2>1 DEF Said
  <2> QED
    BY <2>1, RankedStays
<1>2. OneEach'
  BY DEF Ordered, OneEach
<1>3. QueuedFirst'
  <2> SUFFICES ASSUME NEW j \in DOMAIN outbox', NEW i \in DOMAIN send'[outbox'[j].to]
               PROVE  Before(send'[outbox'[j].to][i], outbox'[j].msg)
    BY OrderAfter
  <2>1. outbox' = outbox /\ j \in DOMAIN outbox /\ outbox[j].to \in Player
    BY OutboxElements DEF IInv
  <2>2. CASE outbox[j].to # q
    BY <1>0, <2>1, <2>2 DEF Ordered, QueuedFirst
  <2>3. CASE outbox[j].to = q
    <3>1. i \in DOMAIN s /\ send'[outbox'[j].to][i] = s[i]
      BY <1>0, <2>1, <2>3
    <3>2. CASE s[i].kind = "other"
      BY <3>1, <3>2 DEF Before
    <3>3. CASE \E k \in DOMAIN send[q] : s[i] = send[q][k]
      <4>1. PICK k \in DOMAIN send[q] : s[i] = send[q][k]
        BY <3>3
      <4>2. Before(send[q][k], outbox[j].msg)
        BY <2>1, <2>3 DEF Ordered, QueuedFirst
      <4>3. send'[outbox'[j].to][i] = send[q][k] /\ outbox'[j].msg = outbox[j].msg
        BY <2>1, <3>1, <4>1
      <4> QED
        BY <4>2, <4>3
    <3> QED
      BY <3>1, <3>2, <3>3
  <2> QED
    BY <2>2, <2>3
<1>4. QueuesInOrder'
  <2> SUFFICES ASSUME NEW r \in Player, NEW i \in DOMAIN send'[r], NEW j \in DOMAIN send'[r],
                      i < j
               PROVE  Before(send'[r][i], send'[r][j])
    BY OrderAfter
  <2>1. CASE r # q
    BY <1>0, <2>1 DEF Ordered, QueuesInOrder, Before
  <2>2. CASE r = q
    BY <1>0, <2>2 DEF Ordered, QueuesInOrder, Before
  <2> QED
    BY <2>1, <2>2
<1> QED
  BY <1>1, <1>2, <1>3, <1>4 DEF Ordered

LEMMA OrderedByMoving ==
  ASSUME IInv, Ordered, [Next]_vars, MovesOne
  PROVE  Ordered'
<1>0. send \in [Player -> Seq(Message)]
  BY DEF IInv, TypeOK
<1>1. CASE SendNext
  BY <1>1, OrderedBySending
<1>2. CASE SendPanics
  <2>1. RankedSoFar'
    BY SaidByMoving, RankedStays DEF IInv
  <2>2. outbox' = << >> /\ UNCHANGED send
    BY <1>2 DEF SendPanics
  <2>3. DOMAIN outbox' = {}
    BY <2>2
  <2>4. OneEach' /\ QueuedFirst'
    BY <2>3 DEF OneEach, QueuedFirst
  <2> QED
    BY <2>1, <2>2, <2>4 DEF Ordered, QueuesInOrder
<1>3. ASSUME NEW q \in Player, WriteOne(q) PROVE Ordered'
  <2> DEFINE s == Tail(send[q])
  <2>1. /\ s \in Seq(Message)
        /\ \A i \in DOMAIN s : i + 1 \in DOMAIN send[q] /\ s[i] = send[q][i + 1]
    BY <1>0, <1>3, TakenFirst DEF WriteOne
  <2>2. \A i, j \in DOMAIN s : i < j => i + 1 < j + 1
    BY <2>1
  <2>3. UNCHANGED outbox /\ send' = [send EXCEPT ![q] = s]
    BY <1>3 DEF WriteOne, session
  <2> HIDE DEF s
  <2> QED
    BY <2>1, <2>2, <2>3, OrderedByOthers
<1>4. ASSUME NEW q \in Noisy, OtherTraffic(q) PROVE Ordered'
  <2> DEFINE noise == Msg("other", 0, 0, 0)
             s == Append(send[q], noise)
  <2>1. noise \in Message /\ noise.kind = "other" /\ q \in Player
    BY MsgType, SizesAssumption DEF Msg
  <2>2. UNCHANGED outbox /\ send' = [send EXCEPT ![q] = s]
    BY <1>4 DEF OtherTraffic, session
  <2>3. send[q] \in Seq(Message)
    BY <1>0, <2>1
  <2> HIDE DEF noise
  <2>4. s \in Seq(Message) /\ \A i \in DOMAIN s :
          (i \in DOMAIN send[q] /\ s[i] = send[q][i]) \/ s[i] = noise
    BY <2>1, <2>3, AddedLast
  <2> HIDE DEF s
  <2> QED
    BY <2>1, <2>2, <2>4, OrderedByOthers
<1> QED
  BY <1>1, <1>2, <1>3, <1>4 DEF MovesOne

LEMMA OrderedStep ==
  ASSUME IInv, Ordered, [Next]_vars
  PROVE  Ordered'
<1>1. CASE UNCHANGED <<send, outbox>>
  <2>1. \A p \in Player : Said(p)' = Said(p)
    BY <1>1 DEF Said
  <2>2. RankedSoFar'
    BY <2>1, RankedStays
  <2> QED
    BY <1>1, <2>2 DEF Ordered, OneEach, QueuedFirst, QueuesInOrder
<1> QED
  BY <1>1, MessageSteps, OrderedByComposing, OrderedByReceiving, OrderedByMoving DEF Composes

(* However slowly a client is served and whatever is dropped, what is in   *)
(* its queue is in the order of the game, nothing twice.                   *)
THEOREM QueuesAreInOrder == Spec => []QueuesInOrder
<1>1. Init => Ordered
  <2> SUFFICES ASSUME Init PROVE Ordered
    OBVIOUS
  <2>1. outbox = << >> /\ send = [p \in Player |-> << >>]
    BY DEF Init
  <2>2. \A p \in Player : Said(p) = {}
    BY <2>1 DEF Said
  <2> QED
    BY <2>1, <2>2 DEF Ordered, RankedSoFar, OneEach, QueuedFirst, QueuesInOrder
<1>2. IInv /\ Ordered /\ [Next]_vars => Ordered'
  BY OrderedStep
<1>3. Ordered => QueuesInOrder
  BY DEF Ordered
<1> QED
  BY <1>1, <1>2, <1>3, Invariance, PTL DEF Spec

=============================================================================
