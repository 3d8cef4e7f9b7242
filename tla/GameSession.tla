---------------------------- MODULE GameSession ----------------------------
(***************************************************************************)
(* One trivia game: the goroutine GameSession.Run of                       *)
(* internal/game/session.go between its two players' connections.          *)
(*                                                                         *)
(* The session shares with other goroutines, and so interleaves with them  *)
(* on, four things: each client's GameCh (filled by its readPump), each    *)
(* client's Send (drained by its writePump, also filled by pings and       *)
(* presence), the closing of both (by Hub.Run on unregister), and the      *)
(* hub's entry of each player, which a newer connection of the same user   *)
(* takes over.  Everything else is its own.                                *)
(***************************************************************************)
EXTENDS Integers, Sequences, Scoring

CONSTANTS
  Rounds,        \* totalRounds
  Timeout,       \* roundTimeout, in ticks of the clock
  TickMs,        \* milliseconds in a tick
  MaxElapsed,    \* bound: the session goroutine runs before this tick
  SendCap,       \* capacity of a client's Send channel
  GameCap,       \* capacity of a client's GameCh channel
  Leftovers,     \* bound: what an earlier game may have left in each GameCh
  Answers,       \* bound: the answers each player sends in this game
  Noisy,         \* bound: players whose Send other goroutines fill as well
  Returning,     \* bound: players who may open another connection
  DBFails,       \* bound: may a write to the database fail?
  RTTs,          \* the values GetRTT may return, in milliseconds
  StartRating,   \* the ratings read when the challenge was accepted
  Expected       \* expected score by rating difference, see Scoring

Player == {1, 2}
Other(p) == 3 - p

ASSUME SizesAssumption ==
  /\ Rounds \in Nat \ {0}
  /\ Timeout \in Nat
  /\ MaxElapsed \in Nat /\ Timeout <= MaxElapsed
  /\ TickMs \in Nat
  /\ SendCap \in Nat \ {0}
  /\ GameCap \in Nat \ {0}
  /\ Noisy \subseteq Player /\ Returning \subseteq Player
  /\ DBFails \in BOOLEAN

ASSUME RatingAssumption ==
  /\ RTTs \subseteq Nat /\ RTTs # {}
  /\ StartRating \in [Player -> Int]
  /\ Expected[StartRating[1] - StartRating[2]] \in 0..Certain

VARIABLES
  pc,        \* where Run is
  round,     \* loop variable of Run
  total,     \* p1Total and p2Total
  abandoned, \* Run's local of that name
  ans,       \* p1Ans and p2Ans of awaitAnswers
  points,    \* p1Points and p2Points of the round being played
  elapsed,   \* ticks since questionSendTime
  outbox,    \* sends the session is in the middle of, in order
  send,      \* each client's Send channel
  gameCh,    \* each client's GameCh channel
  conn,      \* each client: connected, closed by the hub, or gone unclosed
  newer,     \* does the player have a newer connection than the client?
  presence,  \* what GetPresence says of each player's hub entry
  rows,      \* match_rounds of this match, by round number
  match,     \* this match's row in matches
  rating     \* the players' rating column in users

session == <<pc, round, total, abandoned, ans, points, elapsed, outbox>>
store == <<rows, match, rating>>   \* the database
hub == <<conn, newer, presence>>
vars == <<session, send, gameCh, hub, store>>

-----------------------------------------------------------------------------
(* Messages and answers.                                                   *)

(* What a client may send as an answer: the round it names (0 stands for a *)
(* payload that does not parse), whether its choice is the right one, and  *)
(* the game whose question the player was looking at.                      *)
Answer == [round : 0..Rounds, right : BOOLEAN, game : {"this", "earlier"}]

(* A playerAnswer: nil, timedOut, or a choice with its time of arrival.    *)
Slot == [by : {"nil", "timeout", "answer"}, right : BOOLEAN, at : 0..MaxElapsed,
         round : 0..Rounds, game : {"this", "earlier"}]

NoAnswer(by) == [by |-> by, right |-> FALSE, at |-> 0, round |-> 0, game |-> "this"]
Nil == NoAnswer("nil")
TimedOut == NoAnswer("timeout")
Arrived(a, now) == [by |-> "answer", right |-> a.right, at |-> now,
                    round |-> a.round, game |-> a.game]

Msg(kind, rnd, you, them) ==
  [kind |-> kind, round |-> rnd, you |-> you, them |-> them]

ASSUME AnswersAssumption ==
  Answers \in [Player -> SUBSET {a \in Answer : a.game = "this"}]

(* A GameCh outlives a game: answers that came after an earlier game had   *)
(* stopped reading may still be there.                                     *)
ASSUME LeftoversAssumption ==
  \A p \in Player : \A q \in Leftovers[p] :
    /\ q \in Seq(Answer) /\ Len(q) <= GameCap
    /\ \A i \in 1..Len(q) : q[i].game = "earlier"

Message == [kind : {"game_start", "question", "opponent_answered",
                    "round_result", "game_end", "other"},
            round : 0..Rounds, you : Nat, them : Nat]

NoRow == [p \in Player |-> -1]

ToBoth(msgs) == << [to |-> 1, msg |-> msgs[1]], [to |-> 2, msg |-> msgs[2]] >>

-----------------------------------------------------------------------------
(* Slips a maintainer could make, each a variant of the definition of the  *)
(* same name below; the properties are shown to reject them.               *)

Accepts_AnyRound(p, a) == ans[p].by = "nil"
FillTimeouts_Everyone(slots) == [p \in Player |-> TimedOut]
PersistTotal_Twice(p) == total[p] + 2 * points[p]
ResultMsg_OldTotals(p, pts) == Msg("round_result", round, total[p], total[Other(p)])
QuestionMsg_Ahead(p) == Msg("question", IF round < Rounds THEN round + 1 ELSE round, 0, 0)
LastRound_OffByOne(r) == r + 1 >= Rounds
Winner_NoDraw(score) == IF score[1] >= score[2] THEN 1 ELSE 2
Due_Never == FALSE

-----------------------------------------------------------------------------
(* Helpers of the session.                                                 *)

Closed(p) == conn[p] = "closed"

(* The select arm keeps an answer only for the current round, and only the *)
(* first one.                                                              *)
Accepts(p, a) == ans[p].by = "nil" /\ a.round = round

FillTimeouts(slots) ==
  [p \in Player |-> IF slots[p].by = "nil" THEN TimedOut ELSE slots[p]]

AwaitOver == \A p \in Player : ans[p].by # "nil"

(* The timer of the round has run out.                                     *)
Due == elapsed >= Timeout

(* scorePlayer: nothing for a missing or timed-out answer.                 *)
ScorePlayer(slot, rtt) ==
  IF slot.by = "answer"
    THEN ComputePoints(ComputeFairTime(slot.at * TickMs, rtt), slot.right)
    ELSE 0

QuestionMsg(p) == Msg("question", round, 0, 0)

(* With newP1Total and newP2Total, computed before Run adds the points.    *)
ResultMsg(p, pts) ==
  Msg("round_result", round, total[p] + pts[p], total[Other(p)] + pts[Other(p)])

PersistTotal(p) == total[p] + points[p]

LastRound(r) == r >= Rounds

(* The match winner, 0 for a draw.                                         *)
Winner(score) ==
  IF score[1] > score[2] THEN 1 ELSE IF score[2] > score[1] THEN 2 ELSE 0

Outcome(score) ==
  CASE Winner(score) = 1 -> "a" [] Winner(score) = 2 -> "b" [] OTHER -> "draw"

RatingChange(score) ==
  ComputeELO(Expected, StartRating[1], StartRating[2], Outcome(score))

(* SetInMatch changes the entry the player has at that moment, if any.     *)
SetInMatch ==
  [p \in Player |-> IF presence[p] = "offline" THEN "offline" ELSE "in_match"]

ClearInMatch ==
  [p \in Player |-> IF presence[p] = "offline" THEN "offline" ELSE "online"]

-----------------------------------------------------------------------------
(* The session goroutine.  It goes on to its next piece of code when the   *)
(* sends of the previous one are done.                                     *)

Ready(label) == pc = label /\ outbox = << >>

(* Run marks both players as playing and announces the game.               *)
StartSession ==
  /\ Ready("start")
  /\ presence' = SetInMatch
  /\ outbox' = ToBoth([p \in Player |-> Msg("game_start", 0, 0, 0)])
  /\ pc' = "question"
  /\ UNCHANGED <<round, total, abandoned, ans, points, elapsed, send, gameCh,
                 conn, newer, store>>

(* playRound sends the same question to both players.                      *)
SendQuestion ==
  /\ Ready("question")
  /\ outbox' = ToBoth([p \in Player |-> QuestionMsg(p)])
  /\ pc' = "asked"
  /\ UNCHANGED <<round, total, abandoned, ans, points, elapsed, send, gameCh,
                 hub, store>>

(* questionSendTime is taken after both sends; awaitAnswers starts its     *)
(* timer with both answers nil.                                            *)
StartTimer ==
  /\ Ready("asked")
  /\ elapsed' = 0
  /\ ans' = [p \in Player |-> Nil]
  /\ pc' = "await"
  /\ UNCHANGED <<round, total, abandoned, points, outbox, send, gameCh, hub,
                 store>>

(* The select arm of player p's GameCh, with an envelope to read.  The     *)
(* arrival time is taken here, not when the readPump queued the answer.    *)
ReceiveAnswer(p) ==
  /\ Ready("await") /\ ~AwaitOver
  /\ gameCh[p] # << >>
  /\ gameCh' = [gameCh EXCEPT ![p] = Tail(@)]
  /\ LET a == Head(gameCh[p]) IN
     IF Accepts(p, a)
       THEN /\ ans' = [ans EXCEPT ![p] = Arrived(a, elapsed)]
            /\ outbox' = << [to |-> Other(p),
                             msg |-> Msg("opponent_answered", round, 0, 0)] >>
       ELSE UNCHANGED <<ans, outbox>>
  /\ UNCHANGED <<pc, round, total, abandoned, points, elapsed, send, hub, store>>

(* awaitAnswers returns, which stops the timer.                            *)
StopTimer == elapsed' = 0

(* The select arm of player p's GameCh, closed and drained: awaitAnswers   *)
(* returns at once.  With no answer at all the game is abandoned.          *)
SeeClosed(p) ==
  /\ Ready("await") /\ ~AwaitOver
  /\ gameCh[p] = << >> /\ Closed(p)
  /\ abandoned' = \A q \in Player : ans[q].by = "nil"
  /\ pc' = IF abandoned' THEN "exit" ELSE "score"
  /\ StopTimer
  /\ UNCHANGED <<round, total, ans, points, outbox, send, gameCh, hub, store>>

(* The select arm of the timer: whoever has not answered has timed out.    *)
TimerFires ==
  /\ Ready("await") /\ ~AwaitOver
  /\ Due
  /\ ans' = FillTimeouts(ans)
  /\ pc' = "score"
  /\ StopTimer
  /\ UNCHANGED <<round, total, abandoned, points, outbox, send, gameCh, hub,
                 store>>

BothAnswered ==
  /\ Ready("await") /\ AwaitOver
  /\ pc' = "score"
  /\ StopTimer
  /\ UNCHANGED <<round, total, abandoned, ans, points, outbox, send, gameCh,
                 hub, store>>

(* The round is scored with the round-trip times of this moment, and each  *)
(* player is sent the result.                                              *)
ScoreRound ==
  /\ Ready("score")
  /\ \E rtt \in [Player -> RTTs] :
       points' = [p \in Player |-> ScorePlayer(ans[p], rtt[p])]
  /\ outbox' = ToBoth([p \in Player |-> ResultMsg(p, points')])
  /\ pc' = "persist"
  /\ UNCHANGED <<round, total, abandoned, ans, elapsed, send, gameCh, hub, store>>

(* InsertMatchRound, whose failure is only logged; playRound returns, its  *)
(* locals with it, and Run adds the points and goes on.                    *)
PersistRound ==
  /\ Ready("persist")
  /\ \/ rows' = [rows EXCEPT ![round] = points]
     \/ DBFails /\ UNCHANGED rows
  /\ total' = [p \in Player |-> PersistTotal(p)]
  /\ ans' = [p \in Player |-> Nil] /\ points' = [p \in Player |-> 0]
  /\ pc' = IF LastRound(round) THEN "complete" ELSE "question"
  /\ round' = round + 1
  /\ UNCHANGED <<abandoned, elapsed, outbox, send, gameCh, hub, match, rating>>

(* CompleteMatchTx, all or nothing and its failure only logged; then both  *)
(* players are told the final score.                                       *)
CompleteGame ==
  /\ Ready("complete")
  /\ \/ /\ match' = [status |-> "completed", score |-> total, winner |-> Winner(total)]
        /\ rating' = [p \in Player |-> StartRating[p] + RatingChange(total)[p]]
     \/ DBFails /\ UNCHANGED <<match, rating>>
  /\ outbox' = ToBoth([p \in Player |-> Msg("game_end", 0, total[p], total[Other(p)])])
  /\ pc' = "exit"
  /\ UNCHANGED <<round, total, abandoned, ans, points, elapsed, send, gameCh,
                 hub, rows>>

(* Run's deferred function.                                                *)
LeaveSession ==
  /\ Ready("exit")
  /\ presence' = ClearInMatch
  /\ pc' = "done"
  /\ UNCHANGED <<round, total, abandoned, ans, points, elapsed, outbox, send,
                 gameCh, conn, newer, store>>

(* send, one message at a time: queued, or dropped when the channel is     *)
(* full.                                                                   *)
SendNext ==
  /\ outbox # << >>
  /\ LET p == Head(outbox).to IN
     /\ ~Closed(p)
     /\ send' = IF Len(send[p]) < SendCap
                  THEN [send EXCEPT ![p] = Append(@, Head(outbox).msg)]
                  ELSE send
  /\ outbox' = Tail(outbox)
  /\ UNCHANGED <<pc, round, total, abandoned, ans, points, elapsed, gameCh, hub,
                 store>>

(* A send on a channel the hub has closed panics; the deferred function    *)
(* runs and, nothing recovering in this goroutine, the process dies.       *)
SendPanics ==
  /\ outbox # << >>
  /\ Closed(Head(outbox).to)
  /\ outbox' = << >>
  /\ presence' = ClearInMatch
  /\ pc' = "panic"
  /\ UNCHANGED <<round, total, abandoned, ans, points, elapsed, send, gameCh,
                 conn, newer, store>>

SessionStep ==
  \/ StartSession \/ SendQuestion \/ StartTimer
  \/ \E p \in Player : ReceiveAnswer(p) \/ SeeClosed(p)
  \/ TimerFires \/ BothAnswered
  \/ ScoreRound \/ PersistRound \/ CompleteGame \/ LeaveSession
  \/ SendNext \/ SendPanics

-----------------------------------------------------------------------------
(* The goroutines around the session, followed until it has ended.         *)

Ended == pc \in {"done", "panic"}

(* readPump queues an answer, and drops it when GameCh is full.            *)
QueueAnswer(p, a) ==
  /\ ~Ended /\ conn[p] = "up"
  /\ Len(gameCh[p]) < GameCap
  /\ gameCh' = [gameCh EXCEPT ![p] = Append(@, a)]
  /\ UNCHANGED <<session, send, hub, store>>

(* writePump takes the next message for the wire.                          *)
WriteOne(p) ==
  /\ ~Ended /\ send[p] # << >>
  /\ send' = [send EXCEPT ![p] = Tail(@)]
  /\ UNCHANGED <<session, gameCh, hub, store>>

(* pingLoop and BroadcastPresence share the Send channel.                  *)
OtherTraffic(p) ==
  /\ ~Ended /\ ~Closed(p)
  /\ Len(send[p]) < SendCap
  /\ send' = [send EXCEPT ![p] = Append(@, Msg("other", 0, 0, 0))]
  /\ UNCHANGED <<session, gameCh, hub, store>>

(* Hub.Run unregisters the client when its readPump has returned.  It      *)
(* closes the client's channels only if the player still has an entry.     *)
Unregister(p) ==
  /\ ~Ended /\ conn[p] = "up"
  /\ \/ /\ presence[p] # "offline"
        /\ conn' = [conn EXCEPT ![p] = "closed"]
        /\ presence' = [presence EXCEPT ![p] = "offline"]
     \/ /\ presence[p] = "offline"
        /\ conn' = [conn EXCEPT ![p] = "gone"]
        /\ UNCHANGED presence
  /\ UNCHANGED <<session, send, gameCh, newer, store>>

(* The player opens another connection, whose registration replaces the    *)
(* entry; closing that one removes whatever entry there is.                *)
NewerJoins(p) ==
  /\ ~Ended /\ ~newer[p]
  /\ newer' = [newer EXCEPT ![p] = TRUE]
  /\ presence' = [presence EXCEPT ![p] = "online"]
  /\ UNCHANGED <<session, send, gameCh, conn, store>>

NewerLeaves(p) ==
  /\ ~Ended /\ newer[p]
  /\ newer' = [newer EXCEPT ![p] = FALSE]
  /\ presence' = [presence EXCEPT ![p] = "offline"]
  /\ UNCHANGED <<session, send, gameCh, conn, store>>

(* Time passes, up to the bound, while the session waits for answers.      *)
Tick ==
  /\ pc = "await" /\ elapsed < MaxElapsed
  /\ elapsed' = elapsed + 1
  /\ UNCHANGED <<pc, round, total, abandoned, ans, points, outbox, send, gameCh,
                 hub, store>>

Environment ==
  \/ \E p \in Player : \/ \E a \in Answers[p] : QueueAnswer(p, a)
                       \/ WriteOne(p) \/ Unregister(p)
  \/ \E p \in Noisy : OtherTraffic(p)
  \/ \E p \in Returning : NewerJoins(p) \/ NewerLeaves(p)
  \/ Tick

(* A finished session, or a dead process, is not a deadlock.               *)
Stopped == Ended /\ UNCHANGED vars

-----------------------------------------------------------------------------

Init ==
  /\ pc = "start" /\ round = 1
  /\ total = [p \in Player |-> 0] /\ points = [p \in Player |-> 0]
  /\ abandoned = FALSE
  /\ ans = [p \in Player |-> Nil]
  /\ elapsed = 0
  /\ outbox = << >>
  /\ send = [p \in Player |-> << >>]
  /\ gameCh \in {q \in [Player -> Leftovers[1] \cup Leftovers[2]] :
                  \A p \in Player : q[p] \in Leftovers[p]}
  /\ conn = [p \in Player |-> "up"]
  /\ newer = [p \in Player |-> FALSE]
  /\ presence = [p \in Player |-> "online"]
  /\ rows = [r \in 1..Rounds |-> NoRow]
  /\ match = [status |-> "active", score |-> [p \in Player |-> 0], winner |-> 0]
  /\ rating = StartRating

Next == SessionStep \/ Environment \/ Stopped

Spec == Init /\ [][Next]_vars

(* The goroutine is scheduled and time passes; Go's select picks at random *)
(* among the ready arms, so a timer that has fired is not passed over for  *)
(* ever by a player who keeps answering.                                   *)
Fairness == WF_vars(SessionStep) /\ WF_vars(TimerFires) /\ WF_vars(Tick)

FairSpec == Spec /\ Fairness

-----------------------------------------------------------------------------
(* Properties.                                                             *)

(* Every variable keeps its type; in particular no player ever has a       *)
(* negative total, which is ComputePoints's clamp at work.                 *)
TypeOK ==
  /\ pc \in {"start", "question", "asked", "await", "score", "persist",
            "complete", "exit", "done", "panic"}
  /\ round \in 1..(Rounds + 1)
  /\ total \in [Player -> Nat] /\ points \in [Player -> Nat]
  /\ abandoned \in BOOLEAN
  /\ ans \in [Player -> Slot]
  /\ elapsed \in 0..MaxElapsed
  /\ outbox \in Seq([to : Player, msg : Message])
  /\ send \in [Player -> Seq(Message)]
  /\ gameCh \in [Player -> Seq(Answer)]
  /\ conn \in [Player -> {"up", "closed", "gone"}]
  /\ newer \in [Player -> BOOLEAN]
  /\ presence \in [Player -> {"offline", "online", "in_match"}]
  /\ rows \in [1..Rounds -> [Player -> Nat \cup {-1}]]
  /\ match \in [status : {"active", "completed"}, score : [Player -> Nat],
               winner : {0} \cup Player]
  /\ rating \in [Player -> Int]

(* A late answer to an earlier round, a premature one to a later round or  *)
(* one left over from another round never becomes a player's answer:       *)
(* awaitAnswers drops what does not name the round being played.           *)
AnswersForThisRound ==
  pc \in {"await", "score", "persist"} =>
    \A p \in Player : ans[p].by = "answer" => ans[p].round = round

(* A second answer, a timeout or the opponent's leaving never replaces an  *)
(* answer once it is in: until the round is scored the first one stands.   *)
FirstAnswerStands ==
  [][\A p \in Player :
       pc \in {"await", "score"} /\ ans[p].by # "nil" => ans'[p] = ans[p]]_vars

(* The two tables agree: while no InsertMatchRound was lost a player's     *)
(* total is the sum of the player's column of match_rounds, a lost row     *)
(* only ever makes the sum smaller, and a completed match carries exactly  *)
(* the totals that Run accumulated.                                        *)
Played(r) == r \in 1..(round - 1)
Column(p) == [r \in 1..Rounds |-> IF rows[r] = NoRow THEN 0 ELSE rows[r][p]]
SumOf(f) ==
  LET upTo[r \in 0..Rounds] == IF r = 0 THEN 0 ELSE upTo[r - 1] + f[r]
  IN  upTo[Rounds]

LedgerAgrees ==
  /\ \A p \in Player :
       /\ SumOf(Column(p)) <= total[p]
       /\ (\A r \in 1..Rounds : Played(r) => rows[r] # NoRow)
            => SumOf(Column(p)) = total[p]
  /\ match.status = "completed" => match.score = total

(* What the players are told is what is stored.  The totals of a           *)
(* round_result, though computed before its row is written and apart from  *)
(* Run's, are the sums of the rows up to its round, if none of them was    *)
(* lost; so are those of a game_end for all rounds, and they are the score *)
(* of the match, if it is completed.  Both players are told the same.      *)
Said(p) == {send[p][i] : i \in DOMAIN send[p]}
           \cup {outbox[i].msg : i \in {j \in DOMAIN outbox : outbox[j].to = p}}
Tells(m, p, score) == m.you = score[p] /\ m.them = score[Other(p)]

Stored(k) == \A r \in 1..k : rows[r] # NoRow
UpTo(f, k) == [r \in 1..Rounds |-> IF r <= k THEN f[r] ELSE 0]
Sums(k) == [p \in Player |-> SumOf(UpTo(Column(p), k))]

ToldIsStored ==
  \A p \in Player : \A m \in Said(p) :
    /\ m.kind = "game_end" =>
         /\ match.status = "completed" => Tells(m, p, match.score)
         /\ Stored(Rounds) => Tells(m, p, Sums(Rounds))
    /\ m.kind = "round_result" =>
         /\ Stored(m.round) => Tells(m, p, Sums(m.round))
         /\ \A n \in Said(Other(p)) :
              n.kind = "round_result" /\ n.round = m.round =>
                m.you = n.them /\ m.them = n.you

(* Whatever is dropped, a client never sees the game out of order: in its  *)
(* Send channel a round's question comes before opponent_answered, that    *)
(* before the round's result, rounds in order, each message at most once.  *)
Rank(m) == CASE m.kind = "game_start" -> 0
             [] m.kind = "question" -> 3 * m.round
             [] m.kind = "opponent_answered" -> 3 * m.round + 1
             [] m.kind = "round_result" -> 3 * m.round + 2
             [] m.kind = "game_end" -> 3 * Rounds + 3

QueuesInOrder ==
  \A p \in Player : \A i, j \in DOMAIN send[p] :
    i < j /\ send[p][i].kind # "other" /\ send[p][j].kind # "other"
      => Rank(send[p][i]) < Rank(send[p][j])

(* A match is marked completed only after every round was played and never *)
(* when it was abandoned; its winner really has more points, a tie has     *)
(* none, no winner loses rating, and what one player wins the other loses. *)
CompletedIsEarned ==
  match.status = "completed" =>
    /\ ~abandoned /\ round = Rounds + 1
    /\ \A p \in Player : match.winner = p <=> match.score[p] > match.score[Other(p)]
    /\ \A p \in Player : match.winner = p => rating[p] >= StartRating[p]
    /\ rating[1] + rating[2] = StartRating[1] + StartRating[2]

(* A game ends before its last round only because somebody has left.       *)
StopsOnlyForALeaver ==
  Ended /\ round <= Rounds => \E p \in Player : Closed(p)

(* The game implements the scoreboard of module Match.                     *)
Board == INSTANCE Match WITH played <- round - 1, score <- total,
                             status <- match.status, final <- match.score
ImplementsMatch == Board!MatchSpec

(* A game always ends, whether or not its players answer, stay or read:    *)
(* the timer bounds each round and no send ever blocks.                    *)
SessionEnds == <>Ended

-----------------------------------------------------------------------------
(* What the repository says and the code does not keep.                    *)

(* A comment of playRound says a game is given up when "Both disconnected  *)
(* or context cancelled"; then as long as one player is connected, a game  *)
(* goes on to its last round.                                              *)
StopsEarlyOnlyByBoth ==
  Ended /\ round <= Rounds => \A p \in Player : conn[p] # "up"

=============================================================================
