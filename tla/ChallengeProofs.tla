--------------------------- MODULE ChallengeProofs ---------------------------
(***************************************************************************)
(* What is proved of Challenge for any users, connections, capacity and    *)
(* number of challenges.                                                   *)
(***************************************************************************)
EXTENDS Challenge, FiniteSetTheorems, TLAPS

-----------------------------------------------------------------------------
(* The invariant, in three parts.  First the hub's entries, and that the   *)
(* bound on challenges leaves an ID for every one that is being made.      *)

EntryIsOwn == \A u \in User : entry[u] # None => Owner[entry[u]] = u

ChallengersAreUsers == \A id \in 1..made : challenger[id] \in User

RoomToMake == made + Cardinality(InMaking) <= MaxChallenges

Shape == TypeOK /\ EntryIsOwn /\ ChallengersAreUsers /\ RoomToMake

(* Then where a challenge is: not made, pending, in the hand of the one    *)
(* readPump that took it out, or begun as a game.                          *)

InHand(c, id) ==
  task[c].do \in {"find_player1", "find_player2", "start"} /\ task[c].id = id

NotMade ==
  \A id \in Id : id > made => starts[id] = 0 /\ \A c \in Client : ~InHand(c, id)

PendingIsFree ==
  \A id \in pending : starts[id] = 0 /\ \A c \in Client : ~InHand(c, id)

TakenOnce ==
  \A c \in Client, id \in Id : InHand(c, id) =>
    /\ starts[id] = 0
    /\ taker[id] = Owner[c] /\ Owner[task[c].challenger] = challenger[id]
    /\ \A d \in Client : InHand(d, id) => d = c

GamesFit ==
  /\ \A g \in games :
       /\ g.id <= made /\ starts[g.id] = 1
       /\ Owner[g.p1] = challenger[g.id] /\ Owner[g.p2] = taker[g.id]
  /\ \A g, h \in games : g.id = h.id => g = h

Whereabouts == NotMade /\ PendingIsFree /\ TakenOnce /\ GamesFit /\ StartsOnce

(* Last the ratings that have been read: unless games have overlapped, no  *)
(* two readers have read the same user's, none has read one for both sides *)
(* of a game, and what they read is current.                               *)

GameUsers(g) == {Owner[g.p1], Owner[g.p2]}
ReadUsers(c) ==
  IF task[c].do = "find_player2" THEN {Owner[task[c].challenger]}
  ELSE IF task[c].do = "start" THEN {Owner[task[c].challenger], Owner[c]}
  ELSE {}

ReadsAreCurrent ==
  /\ \A g \in games : g.r1 = rating[Owner[g.p1]] /\ g.r2 = rating[Owner[g.p2]]
  /\ \A c \in Client :
       /\ task[c].do \in {"find_player2", "start"} =>
            task[c].r1 = rating[Owner[task[c].challenger]]
       /\ task[c].do = "start" => task[c].r2 = rating[Owner[c]]

NobodyTwice ==
  /\ \A g, h \in games : g # h => GameUsers(g) \cap GameUsers(h) = {}
  /\ \A g \in games, c \in Client : GameUsers(g) \cap ReadUsers(c) = {}
  /\ \A c, d \in Client : c # d => ReadUsers(c) \cap ReadUsers(d) = {}
  /\ \A g \in games : Owner[g.p1] # Owner[g.p2]
  /\ \A c \in Client : task[c].do = "start" => Owner[task[c].challenger] # Owner[c]

Ratings == RatingsAddUp /\ (~overlapped => ReadsAreCurrent /\ NobodyTwice)

IInv == Shape /\ Whereabouts /\ Ratings

-----------------------------------------------------------------------------
(* Types.                                                                  *)

(* What a handler holds in its locals at each of its steps.                *)
LEMMA LocalTypes ==
  ASSUME TypeOK, NEW c \in Client
  PROVE  /\ task[c].do = "find_challenger" => task[c].opponent \in Client
         /\ task[c].do = "send" => task[c].opponent \in Client /\ task[c].id \in Id
         /\ task[c].do \in {"decline", "tell_first"} => task[c].challenger \in Client
         /\ task[c].do \in {"find_player1", "find_player2", "start"} =>
              task[c].challenger \in Client /\ task[c].id \in Id
         /\ task[c].do \in {"find_player2", "start"} => task[c].r1 \in Int
         /\ task[c].do = "start" => task[c].r2 \in Int
<1>1. task[c] \in Task
  BY DEF TypeOK
<1> QED
  BY <1>1 DEF Task, Idle, TellSecond, FindChallenger, SendTo, Decline, FindPlayer1, TellFirst

LEMMA StepTypes ==
  /\ Idle \in Task /\ TellSecond \in Task
  /\ \A d \in Client : /\ FindChallenger(d) \in Task
                       /\ Decline(d) \in Task /\ TellFirst(d) \in Task
  /\ \A d \in Client, id \in Id : SendTo(d, id) \in Task /\ FindPlayer1(d, id) \in Task
  /\ \A d \in Client, id \in Id, r1 \in Int : FindPlayer2(d, id, r1) \in Task
  /\ \A d \in Client, id \in Id, r1, r2 \in Int : Start(d, id, r1, r2) \in Task
BY DEF Task, FindPlayer2, Start

LEMMA ContinueType ==
  ASSUME TypeOK, NEW c \in Client, NEW t \in Task, Continue(c, t)
  PROVE  /\ task' \in [Client -> Task]
         /\ task'[c] = t
         /\ \A d \in Client : d # c => task'[d] = task[d]
BY DEF TypeOK, Continue

LEMMA OfferType ==
  ASSUME TypeOK, NEW c \in Client, Offer(c)
  PROVE  queued' \in [Client -> 0..SendCap]
<1>1. queued \in [Client -> 0..SendCap] /\ SendCap \in Nat
  BY ChallengeAssumption DEF TypeOK
<1> QED
  BY <1>1 DEF Offer

(* TypeOK by what changes together.                                        *)
ConnsOK ==
  /\ stage \in [Client -> {"new", "reading", "gone"}]
  /\ writing \in [Client -> BOOLEAN] /\ closed \in [Client -> BOOLEAN]
  /\ entry \in [User -> Client \cup {None}] /\ EntryIsOwn
QueuesOK == queued \in [Client -> 0..SendCap]
TasksOK == task \in [Client -> Task]
ChallengesOK ==
  /\ made \in 0..MaxChallenges
  /\ challenger \in [Id -> User \cup {None}] /\ taker \in [Id -> User \cup {None}]
  /\ pending \subseteq 1..made /\ ChallengersAreUsers
GamesOK ==
  /\ games \subseteq [p1 : Client, p2 : Client, id : Id, r1 : Int, r2 : Int]
  /\ starts \in [Id -> Nat]
  /\ overlapped \in BOOLEAN
ScoresOK == rating \in [User -> Int] /\ earned \in [User -> Int]

AllOK == ConnsOK /\ QueuesOK /\ TasksOK /\ ChallengesOK /\ GamesOK /\ ScoresOK

LEMMA Parts == TypeOK /\ EntryIsOwn /\ ChallengersAreUsers <=> AllOK
BY DEF TypeOK, AllOK, ConnsOK, QueuesOK, TasksOK, ChallengesOK, GamesOK, ScoresOK

LEMMA Frames ==
  /\ UNCHANGED conns /\ ConnsOK => ConnsOK'
  /\ UNCHANGED queued /\ QueuesOK => QueuesOK'
  /\ UNCHANGED task /\ TasksOK => TasksOK'
  /\ UNCHANGED challenges /\ ChallengesOK => ChallengesOK'
  /\ UNCHANGED <<games, starts, overlapped>> /\ GamesOK => GamesOK'
  /\ UNCHANGED scores /\ ScoresOK => ScoresOK'
BY DEF conns, challenges, scores, ConnsOK, EntryIsOwn, ChallengersAreUsers, QueuesOK, TasksOK, ChallengesOK,
       GamesOK, ScoresOK

(* A connection that goes leaves the hub's entries in order.               *)
LEMMA LeavesTypes ==
  ASSUME ConnsOK, NEW c \in Client, Leaves(c)
  PROVE  ConnsOK'
<1>1. /\ stage' \in [Client -> {"new", "reading", "gone"}]
      /\ writing' \in [Client -> BOOLEAN] /\ closed' \in [Client -> BOOLEAN]
  BY DEF Leaves, Closing, ConnsOK
<1>2. entry' = [entry EXCEPT ![Owner[c]] = None] \/ entry' = entry
  BY DEF Leaves
<1> QED
  BY <1>1, <1>2 DEF EntryIsOwn, ConnsOK

LEMMA PanicTypes ==
  ASSUME AllOK, NEW c \in Client, HandlerPanics(c)
  PROVE  AllOK'
<1>1. TypeOK
  BY Parts
<1>2. ConnsOK' /\ TasksOK'
  BY <1>1, LeavesTypes, ContinueType, StepTypes DEF HandlerPanics, AllOK, TasksOK
<1> QED
  BY <1>1, <1>2, Frames DEF HandlerPanics, AllOK

(* The handler's reply changes its client's queue and its own task.        *)
LEMMA ReplyTypes ==
  ASSUME TypeOK, NEW c \in Client, ReplyError(c)
  PROVE  QueuesOK' /\ TasksOK'
BY OfferType, ContinueType, StepTypes DEF ReplyError, QueuesOK, TasksOK

(* The challenge that is about to be made has an ID left.                  *)
LEMMA RoomForOne ==
  ASSUME Shape, NEW c \in Client, task[c].do = "find_challenger"
  PROVE  made + 1 \in Id /\ made + 1 \in 0..MaxChallenges
<1>1. InMaking \subseteq Client
  BY DEF InMaking
<1>2. IsFiniteSet(InMaking)
  BY <1>1, FS_Subset, ChallengeAssumption
<1>3. InMaking # {}
  BY DEF InMaking
<1>4. Cardinality(InMaking) \in Nat /\ Cardinality(InMaking) # 0
  BY <1>2, <1>3, FS_CardinalityType, FS_EmptySet
<1>5. made \in Nat /\ MaxChallenges \in Nat
  BY ChallengeAssumption DEF Shape, TypeOK
<1> QED
  BY <1>4, <1>5 DEF Shape, RoomToMake, Id

(* What an answer to a challenge can do.                                   *)
TakesOut(c, id) ==
  id \in pending /\ pending' = pending \ {id} /\ taker' = [taker EXCEPT ![id] = Owner[c]]

Answers(c, id) ==
  \/ ReplyError(c) /\ UNCHANGED <<pending, taker>>
  \/ /\ TakesOut(c, id)
     /\ \/ ReplyError(c) \/ UNCHANGED <<task, queued>>
        \/ /\ UNCHANGED queued /\ entry[challenger[id]] # None
           /\ \/ Continue(c, Decline(entry[challenger[id]]))
              \/ Continue(c, FindPlayer1(entry[challenger[id]], id))

LEMMA AnswersIn ==
  ASSUME NEW c \in Client, NEW id \in Id, NEW accepted \in BOOLEAN,
         ReceiveResponse(c, id, accepted)
  PROVE  Answers(c, id)
<1> DEFINE ch == entry[challenger[id]]
<1>1. CASE id \notin pending
  BY <1>1 DEF ReceiveResponse, Answers
<1>2. CASE id \in pending
  <2>1. TakesOut(c, id)
    BY <1>2 DEF ReceiveResponse, TakeChallenge, TakesOut
  <2>2. \/ accepted /\ ch = None /\ ReplyError(c)
        \/ ~accepted /\ ch = None /\ UNCHANGED <<task, queued>>
        \/ accepted /\ ch # None /\ Continue(c, FindPlayer1(ch, id)) /\ UNCHANGED queued
        \/ ~accepted /\ ch # None /\ Continue(c, Decline(ch)) /\ UNCHANGED queued
    BY <1>2 DEF ReceiveResponse
  <2> QED
    BY <2>1, <2>2 DEF Answers
<1> QED
  BY <1>1, <1>2

LEMMA TypesPreserved ==
  ASSUME Shape, [Next]_vars
  PROVE  AllOK'
<1>0. /\ TypeOK /\ EntryIsOwn /\ ChallengersAreUsers /\ AllOK
      /\ Owner \in [Client -> User] /\ None \notin Client \cup User
      /\ SendCap \in Nat /\ StartRating \in Int /\ Changes \subseteq Int
      /\ MaxChallenges \in Nat
  BY ChallengeAssumption, Parts DEF Shape
<1> USE <1>0, Frames DEF AllOK
<1>1. ASSUME NEW c \in Client, Connect(c) PROVE AllOK'
  <2>1. ConnsOK'
    BY <1>1 DEF Connect, ConnsOK, EntryIsOwn
  <2> QED
    BY <1>1, <2>1 DEF Connect
<1>2. ASSUME NEW c \in Client, Disconnect(c) PROVE AllOK'
  BY <1>2, LeavesTypes DEF Disconnect
<1>3. ASSUME NEW c \in Client, WriteOne(c) PROVE AllOK'
  <2>1. QueuesOK'
    BY <1>3 DEF WriteOne, Drains, QueuesOK
  <2>2. TasksOK'
    <3>1. CASE \E d \in Waiting(c) :
                 Continue(d, IF task[d].do = "tell_first" THEN TellSecond ELSE Idle)
      <4>1. PICK d \in Client :
              Continue(d, IF task[d].do = "tell_first" THEN TellSecond ELSE Idle)
        BY <3>1 DEF Waiting
      <4> QED
        BY <4>1, StepTypes, ContinueType DEF TasksOK
    <3> QED
      BY <1>3, <3>1 DEF WriteOne
  <2> QED
    BY <1>3, <2>1, <2>2 DEF WriteOne
<1>4. ASSUME NEW c \in Client, WriterFails(c) PROVE AllOK'
  <2>1. ConnsOK'
    BY <1>4 DEF WriterFails, ConnsOK, EntryIsOwn
  <2> QED
    BY <1>4, <2>1 DEF WriterFails
<1>5. ASSUME NEW c \in Client, NEW u \in User, ReceiveChallenge(c, u) PROVE AllOK'
  <2>1. CASE entry[u] = None
    BY <1>5, <2>1, ReplyTypes DEF ReceiveChallenge
  <2>2. CASE entry[u] # None
    <3>1. entry[u] \in Client
      BY <2>2 DEF ConnsOK
    <3>2. TasksOK'
      BY <1>5, <2>2, <3>1, StepTypes, ContinueType DEF ReceiveChallenge, TasksOK
    <3> QED
      BY <1>5, <2>2, <3>2 DEF ReceiveChallenge
  <2> QED
    BY <2>1, <2>2
<1>6. ASSUME NEW c \in Client, NEW id \in Id, NEW accepted \in BOOLEAN,
             ReceiveResponse(c, id, accepted)
      PROVE  AllOK'
  <2>1. ChallengesOK'
    <3>1. taker' \in [Id -> User \cup {None}] /\ pending' \subseteq pending
      BY <1>6 DEF ReceiveResponse, TakeChallenge, ChallengesOK
    <3> QED
      BY <1>6, <3>1 DEF ReceiveResponse, ChallengesOK, ChallengersAreUsers
  <2>2. QueuesOK' /\ TasksOK'
    <3> DEFINE ch == entry[challenger[id]]
    <3>1. Answers(c, id)
      BY <1>6, AnswersIn
    <3>2. CASE ReplyError(c)
      BY <3>2, ReplyTypes
    <3>3. CASE UNCHANGED <<task, queued>>
      BY <3>3
    <3>4. CASE /\ TakesOut(c, id) /\ ch # None /\ UNCHANGED queued
               /\ Continue(c, FindPlayer1(ch, id)) \/ Continue(c, Decline(ch))
      <4>1. challenger[id] \in User
        BY <3>4 DEF TakesOut, ChallengesOK, ChallengersAreUsers, Id
      <4>2. ch \in Client
        BY <3>4, <4>1 DEF ConnsOK
      <4> QED
        BY <3>4, <4>2, StepTypes, ContinueType DEF TasksOK
    <3> QED
      BY <3>1, <3>2, <3>3, <3>4 DEF Answers
  <2> QED
    BY <1>6, <2>1, <2>2 DEF ReceiveResponse
<1>7. ASSUME NEW c \in Client, MakeChallenge(c) PROVE AllOK'
  <2>1. task[c].opponent \in Client /\ made + 1 \in Id /\ made + 1 \in 0..MaxChallenges
    BY <1>7, RoomForOne, LocalTypes DEF MakeChallenge, Does
  <2>2. CASE ReplyError(c) /\ UNCHANGED challenges
    BY <1>7, <2>2, ReplyTypes DEF MakeChallenge
  <2>3. CASE /\ made' = made + 1
             /\ challenger' = [challenger EXCEPT ![made + 1] = Owner[c]]
             /\ pending' = pending \cup {made + 1}
             /\ Continue(c, SendTo(task[c].opponent, made + 1))
             /\ UNCHANGED <<taker, queued>>
    <3>1. TasksOK'
      BY <2>1, <2>3, StepTypes, ContinueType DEF TasksOK
    <3>2. made \in Nat /\ 1..made' = 1..made \cup {made + 1}
      BY <2>3 DEF ChallengesOK
    <3>3. ChallengesOK'
      BY <2>1, <2>3, <3>2 DEF ChallengesOK, ChallengersAreUsers
    <3> QED
      BY <1>7, <2>3, <3>1, <3>3 DEF MakeChallenge
  <2> QED
    BY <1>7, <2>2, <2>3 DEF MakeChallenge
<1>8. ASSUME NEW c \in Client, SendChallenge(c) PROVE AllOK'
  <2>1. task[c].opponent \in Client
    BY <1>8, LocalTypes DEF SendChallenge, Does
  <2>2. QueuesOK' /\ TasksOK'
    BY <1>8, <2>1, OfferType, ContinueType, ReplyTypes, StepTypes
    DEF SendChallenge, QueuesOK, TasksOK
  <2> QED
    BY <1>8, <2>2 DEF SendChallenge
<1>9. ASSUME NEW c \in Client,
             \/ SendChallengePanics(c) \/ SendDeclinePanics(c) \/ TellPlayer1Panics(c)
      PROVE  AllOK'
  BY <1>9, PanicTypes DEF SendChallengePanics, SendDeclinePanics, TellPlayer1Panics
<1>10. ASSUME NEW c \in Client, SendDecline(c) PROVE AllOK'
  <2>1. task[c].challenger \in Client
    BY <1>10, LocalTypes DEF SendDecline, Does
  <2>2. QueuesOK' /\ TasksOK'
    BY <1>10, <2>1, OfferType, ContinueType, StepTypes DEF SendDecline, QueuesOK, TasksOK
  <2> QED
    BY <1>10, <2>2 DEF SendDecline
<1>11. ASSUME NEW c \in Client, ReadPlayer1(c) PROVE AllOK'
  <2>1. task[c].challenger \in Client /\ task[c].id \in Id
    BY <1>11, LocalTypes DEF ReadPlayer1, Does
  <2>2. rating[Owner[task[c].challenger]] \in Int
    BY <2>1 DEF ScoresOK
  <2>3. TasksOK'
    BY <1>11, <2>1, <2>2, ContinueType, StepTypes DEF ReadPlayer1, TasksOK
  <2>4. GamesOK'
    BY <1>11 DEF ReadPlayer1, GamesOK, Engaged
  <2> QED
    BY <1>11, <2>3, <2>4 DEF ReadPlayer1
<1>12. ASSUME NEW c \in Client, ReadPlayer2(c) PROVE AllOK'
  <2>1. /\ task[c].challenger \in Client /\ task[c].id \in Id /\ task[c].r1 \in Int
        /\ rating[Owner[c]] \in Int
    BY <1>12, LocalTypes DEF ReadPlayer2, Does, ScoresOK
  <2>2. QueuesOK' /\ TasksOK'
    BY <1>12, <2>1, ContinueType, StepTypes, ReplyTypes DEF ReadPlayer2, TasksOK
  <2>3. GamesOK'
    BY <1>12 DEF ReadPlayer2, GamesOK, Engaged
  <2> QED
    BY <1>12, <2>2, <2>3 DEF ReadPlayer2
<1>13. ASSUME NEW c \in Client, StartGame(c) PROVE AllOK'
  <2>1. /\ task[c].challenger \in Client /\ task[c].id \in Id
        /\ task[c].r1 \in Int /\ task[c].r2 \in Int
    BY <1>13, LocalTypes DEF StartGame, Does
  <2>2. TasksOK'
    BY <1>13, <2>1, ContinueType, StepTypes DEF StartGame, TasksOK
  <2>3. GamesOK'
    BY <1>13, <2>1 DEF StartGame, GamesOK, Players, Game
  <2> QED
    BY <1>13, <2>2, <2>3 DEF StartGame
<1>14. ASSUME NEW c \in Client, TellPlayer1(c) PROVE AllOK'
  <2>1. task[c].challenger \in Client
    BY <1>14, LocalTypes DEF TellPlayer1, Does
  <2>2. QueuesOK' /\ TasksOK'
    BY <1>14, <2>1, OfferType, ContinueType, StepTypes DEF TellPlayer1, QueuesOK, TasksOK
  <2> QED
    BY <1>14, <2>2 DEF TellPlayer1
<1>15. ASSUME NEW c \in Client, TellPlayer2(c) PROVE AllOK'
  BY <1>15, ReplyTypes DEF TellPlayer2
<1>16. ASSUME NEW g \in games, NEW d \in Changes, FinishGame(g, d) PROVE AllOK'
  <2>1. /\ g.r1 + d \in Int /\ g.r2 - d \in Int /\ d \in Int
        /\ Owner[g.p1] \in User /\ Owner[g.p2] \in User
    BY DEF GamesOK
  <2>2. ScoresOK'
    <3>1. rating' \in [User -> Int]
      BY <1>16, <2>1 DEF FinishGame, NewRating, ScoresOK
    <3>2. earned' \in [User -> Int]
      BY <1>16, <2>1 DEF FinishGame, ScoresOK
    <3> QED
      BY <3>1, <3>2 DEF ScoresOK
  <2>3. GamesOK'
    BY <1>16 DEF FinishGame, GamesOK
  <2> QED
    BY <1>16, <2>2, <2>3 DEF FinishGame
<1>17. ASSUME NEW g \in games, GiveUpGame(g) PROVE AllOK'
  BY <1>17 DEF GiveUpGame, GamesOK
<1>18. CASE UNCHANGED vars
  BY <1>18 DEF vars
<1> QED
  BY <1>1, <1>2, <1>3, <1>4, <1>5, <1>6, <1>7, <1>8, <1>9, <1>10, <1>11, <1>12, <1>13,
     <1>14, <1>15, <1>16, <1>17, <1>18
  DEF Next, Handle

-----------------------------------------------------------------------------
(* Steps that take no challenge, read no rating, begin no game.            *)

(* A readPump whose task is new neither makes nor holds a challenge, or    *)
(* holds the one it held.                                                  *)
HoldsOn(c) ==
  /\ \E id \in Id : InHand(c, id) /\ InHand(c, id)'
  /\ task'[c].challenger = task[c].challenger

Settles(c) == task'[c].do \in {"idle", "decline", "tell_first", "tell_second"}

NothingTaken ==
  /\ \A c \in Client : task'[c] = task[c] \/ Settles(c) \/ HoldsOn(c)
  /\ games' \subseteq games /\ pending' \subseteq pending
  /\ UNCHANGED <<made, challenger, taker, starts>>

NothingRead ==
  /\ \A c \in Client : task'[c] = task[c] \/ task'[c].do \notin {"find_player2", "start"}
  /\ games' \subseteq games
  /\ UNCHANGED <<rating, earned, overlapped>>

(* Nobody begins to make a challenge.                                      *)
LEMMA RoomKept ==
  ASSUME Shape, UNCHANGED made,
         \A c \in Client : task'[c] = task[c] \/ task'[c].do # "find_challenger"
  PROVE  RoomToMake'
<1>1. InMaking' \subseteq InMaking /\ InMaking \subseteq Client
  BY DEF InMaking
<1>2. IsFiniteSet(InMaking)
  BY <1>1, FS_Subset, ChallengeAssumption
<1>3. Cardinality(InMaking') <= Cardinality(InMaking) /\ IsFiniteSet(InMaking')
  BY <1>1, <1>2, FS_Subset
<1>4. Cardinality(InMaking') \in Nat /\ Cardinality(InMaking) \in Nat
  BY <1>2, <1>3, FS_CardinalityType
<1>5. made \in Nat /\ MaxChallenges \in Nat
  BY ChallengeAssumption DEF Shape, TypeOK
<1> QED
  BY <1>3, <1>4, <1>5 DEF Shape, RoomToMake

LEMMA WhereaboutsKept ==
  ASSUME Shape, Whereabouts, NothingTaken
  PROVE  RoomToMake' /\ Whereabouts'
<1>1. /\ \A c \in Client : task'[c].do = "find_challenger" => task'[c] = task[c]
      /\ \A c \in Client, id \in Id :
           InHand(c, id)' => InHand(c, id) /\ task'[c].challenger = task[c].challenger
  BY DEF NothingTaken, Settles, HoldsOn, InHand
<1>2. RoomToMake'
  BY <1>1, RoomKept DEF NothingTaken
<1>3. NotMade' /\ TakenOnce'
  BY <1>1 DEF Whereabouts, NothingTaken, NotMade, TakenOnce
<1>4. GamesFit' /\ StartsOnce'
  BY DEF Whereabouts, NothingTaken, GamesFit, StartsOnce
<1>5. PendingIsFree'
  <2>1. pending \subseteq Id
    BY ChallengeAssumption DEF Shape, TypeOK, Id
  <2> QED
    BY <1>1, <2>1 DEF Whereabouts, NothingTaken, PendingIsFree
<1> QED
  BY <1>2, <1>3, <1>4, <1>5 DEF Whereabouts

LEMMA RatingsKept ==
  ASSUME Ratings, NothingRead
  PROVE  Ratings'
<1>1. RatingsAddUp'
  BY DEF Ratings, NothingRead, RatingsAddUp
<1>2. \A c \in Client : ReadUsers(c)' \subseteq ReadUsers(c)
  BY DEF NothingRead, ReadUsers
<1>3. ASSUME ~overlapped PROVE ReadsAreCurrent' /\ NobodyTwice'
  <2>1. ReadsAreCurrent'
    BY <1>3 DEF Ratings, NothingRead, ReadsAreCurrent
  <2>2. \A g, h \in games' : g # h => GameUsers(g) \cap GameUsers(h) = {}
    BY <1>3 DEF Ratings, NothingRead, NobodyTwice
  <2>3. \A g \in games', c \in Client : GameUsers(g) \cap ReadUsers(c)' = {}
    BY <1>2, <1>3 DEF Ratings, NothingRead, NobodyTwice
  <2>4. \A c, d \in Client : c # d => ReadUsers(c)' \cap ReadUsers(d)' = {}
    BY <1>2, <1>3 DEF Ratings, NobodyTwice
  <2>5. /\ \A g \in games' : Owner[g.p1] # Owner[g.p2]
        /\ \A c \in Client : task'[c].do = "start" => Owner[task'[c].challenger] # Owner[c]
    BY <1>3 DEF Ratings, NothingRead, NobodyTwice
  <2> QED
    BY <2>1, <2>2, <2>3, <2>4, <2>5 DEF NobodyTwice, GameUsers
<1> QED
  BY <1>1, <1>3 DEF Ratings, NothingRead

-----------------------------------------------------------------------------
(* The steps that do.                                                      *)

(* The challenge has been followed up.                                     *)
LEMMA Following ==
  ASSUME Shape, Whereabouts, Ratings, NEW c \in Client, NEW u \in User,
         ReceiveChallenge(c, u), entry[u] # None
  PROVE  RoomToMake' /\ Whereabouts' /\ Ratings'
<1>1. /\ entry[u] \in Client /\ task[c].do = "idle"
      /\ Continue(c, FindChallenger(entry[u]))
      /\ UNCHANGED <<made, challenger, pending, taker, games, starts, rating, earned, overlapped>>
  BY DEF ReceiveChallenge, Listens, Does, Shape, TypeOK, challenges, scores
<1>2. /\ task'[c] = FindChallenger(entry[u])
      /\ \A d \in Client : d # c => task'[d] = task[d]
  BY <1>1, ContinueType, StepTypes DEF Shape
<1>3. RoomToMake'
  <2>1. InMaking' = InMaking \cup {c} /\ c \notin InMaking /\ InMaking \subseteq Client
    BY <1>1, <1>2 DEF InMaking, FindChallenger
  <2>2. IsFiniteSet(InMaking)
    BY <2>1, FS_Subset, ChallengeAssumption
  <2>3. Cardinality(InMaking') = Cardinality(InMaking) + 1 /\ Cardinality(InMaking) \in Nat
    BY <2>1, <2>2, FS_AddElement, FS_CardinalityType
  <2>4. made + Cardinality(InMaking) < MaxChallenges
    BY DEF ReceiveChallenge
  <2> QED
    BY <1>1, <2>3, <2>4, ChallengeAssumption DEF RoomToMake, Shape, TypeOK
<1>4. \A d \in Client, id \in Id : InHand(d, id)' => d # c /\ InHand(d, id)
  BY <1>2 DEF InHand, FindChallenger
<1>5. NotMade' /\ TakenOnce'
  BY <1>1, <1>2, <1>4 DEF Whereabouts, NotMade, TakenOnce
<1>6. PendingIsFree'
  <2>1. pending \subseteq Id
    BY ChallengeAssumption DEF Shape, TypeOK, Id
  <2> QED
    BY <1>1, <1>4, <2>1 DEF Whereabouts, PendingIsFree
<1>7. GamesFit' /\ StartsOnce'
  BY <1>1 DEF Whereabouts, GamesFit, StartsOnce
<1>8. Ratings'
  BY <1>1, <1>2, RatingsKept DEF NothingRead, FindChallenger
<1> QED
  BY <1>3, <1>5, <1>6, <1>7, <1>8 DEF Whereabouts

(* The challenge has been made and is pending, under an ID nobody has.     *)
LEMMA Making ==
  ASSUME Shape, Whereabouts, Ratings, NEW c \in Client,
         task[c].do = "find_challenger",
         made' = made + 1,
         challenger' = [challenger EXCEPT ![made + 1] = Owner[c]],
         pending' = pending \cup {made + 1},
         Continue(c, SendTo(task[c].opponent, made + 1)),
         UNCHANGED <<taker, games, starts, rating, earned, overlapped>>
  PROVE  RoomToMake' /\ Whereabouts' /\ Ratings'
<1>1. /\ made + 1 \in Id /\ task[c].opponent \in Client
      /\ made \in Nat /\ Id \subseteq Int
  <2>1. made + 1 \in Id /\ task[c].opponent \in Client
    BY RoomForOne, LocalTypes DEF Shape
  <2>2. made \in Nat /\ Id \subseteq Int
    BY DEF Shape, TypeOK, Id
  <2> QED
    BY <2>1, <2>2
<1>2. /\ task'[c] = SendTo(task[c].opponent, made + 1)
      /\ \A d \in Client : d # c => task'[d] = task[d]
  BY <1>1, ContinueType, StepTypes DEF Shape
<1>3. /\ challenger'[made + 1] = Owner[c]
      /\ \A id \in Id : id # made + 1 => challenger'[id] = challenger[id]
  BY <1>1 DEF Shape, TypeOK
<1>4. RoomToMake'
  <2>1. InMaking' = InMaking \ {c} /\ c \in InMaking /\ InMaking \subseteq Client
    BY <1>2 DEF InMaking, SendTo
  <2>2. IsFiniteSet(InMaking)
    BY <2>1, FS_Subset, ChallengeAssumption
  <2>3. Cardinality(InMaking') = Cardinality(InMaking) - 1 /\ Cardinality(InMaking) \in Nat
    BY <2>1, <2>2, FS_RemoveElement, FS_CardinalityType
  <2> QED
    BY <1>1, <2>3, ChallengeAssumption DEF RoomToMake, Shape
<1>5. starts[made + 1] = 0 /\ \A d \in Client : ~InHand(d, made + 1)
  BY <1>1 DEF Whereabouts, NotMade
<1>6. ASSUME NEW d \in Client, NEW id \in Id, InHand(d, id)'
      PROVE  d # c /\ id # made + 1 /\ InHand(d, id)
  <2>1. d # c
    BY <1>2, <1>6 DEF InHand, SendTo
  <2>2. InHand(d, id)
    BY <1>2, <1>6, <2>1 DEF InHand
  <2> QED
    BY <1>5, <2>1, <2>2
<1>7. NotMade'
  <2> SUFFICES ASSUME NEW id \in Id, id > made'
               PROVE  starts[id] = 0 /\ \A d \in Client : ~InHand(d, id)'
    BY DEF NotMade
  <2>1. id > made
    BY <1>1
  <2> QED
    BY <1>6, <2>1 DEF Whereabouts, NotMade
<1>8. TakenOnce'
  BY <1>2, <1>3, <1>6 DEF Whereabouts, TakenOnce
<1>9. PendingIsFree'
  <2>1. pending \subseteq Id
    BY ChallengeAssumption DEF Shape, TypeOK, Id
  <2> QED
    BY <1>1, <1>5, <1>6, <2>1 DEF Whereabouts, PendingIsFree
<1>10. GamesFit'
  <2>1. \A g \in games : g.id \in Id /\ g.id <= made
    BY DEF Whereabouts, GamesFit, Shape, TypeOK
  <2>2. ASSUME NEW g \in games PROVE g.id # made + 1 /\ g.id <= made + 1
    <3>1. g.id \in Id /\ g.id <= made
      BY <2>1
    <3>2. g.id \in Int /\ made \in Int
      BY <1>1, <3>1, ChallengeAssumption DEF Id
    <3> QED
      BY <3>1, <3>2
  <2> QED
    BY <1>3, <2>1, <2>2 DEF Whereabouts, GamesFit
<1>11. StartsOnce'
  BY DEF Whereabouts, StartsOnce
<1>12. Ratings'
  BY <1>2, RatingsKept DEF NothingRead, SendTo
<1> QED
  BY <1>4, <1>7, <1>8, <1>9, <1>10, <1>11, <1>12 DEF Whereabouts

LEMMA MadeBefore ==
  ASSUME Shape, Whereabouts, NEW c \in Client, NEW id \in Id, InHand(c, id)
  PROVE  id <= made
<1>1. ~(id > made)
  BY DEF Whereabouts, NotMade
<1>2. id \in Int /\ made \in Int
  BY DEF Shape, TypeOK, Id
<1> QED
  BY <1>1, <1>2

(* The challenge is answered: it leaves the pending ones, for the hand of  *)
(* the readPump that has the answer if it is accepted.                     *)
LEMMA Taken ==
  ASSUME Shape, Whereabouts, Ratings, NEW c \in Client, NEW id \in Id, TakesOut(c, id),
         \/ task' = task
         \/ /\ \A d \in Client : d # c => task'[d] = task[d]
            /\ \/ task'[c].do \in {"idle", "decline"}
               \/ \E ch \in Client :
                    Owner[ch] = challenger[id] /\ task'[c] = FindPlayer1(ch, id),
         UNCHANGED <<made, challenger, games, starts, rating, earned, overlapped>>
  PROVE  RoomToMake' /\ Whereabouts' /\ Ratings'
<1>1. /\ id <= made /\ pending \subseteq Id /\ Id \subseteq Int /\ made \in Nat
      /\ id \in pending /\ pending' \subseteq pending
      /\ taker'[id] = Owner[c] /\ \A j \in Id : j # id => taker'[j] = taker[j]
  BY ChallengeAssumption DEF TakesOut, Shape, TypeOK, Id
<1>2. starts[id] = 0 /\ \A d \in Client : ~InHand(d, id)
  BY <1>1 DEF Whereabouts, PendingIsFree
<1>0. ASSUME NEW d \in Client, task'[d] # task[d]
      PROVE  /\ d = c
             /\ \/ task'[c].do \in {"idle", "decline"}
                \/ /\ task'[c].do = "find_player1" /\ task'[c].id = id
                   /\ Owner[task'[c].challenger] = challenger[id]
  <2>1. d = c /\ task' # task
    BY <1>0
  <2>2. CASE \E ch \in Client :
               Owner[ch] = challenger[id] /\ task'[c] = FindPlayer1(ch, id)
    BY <2>1, <2>2 DEF FindPlayer1
  <2> QED
    BY <2>1, <2>2
<1>3. ASSUME NEW d \in Client, NEW j \in Id, InHand(d, j)'
      PROVE  \/ d = c /\ j = id /\ Owner[task'[c].challenger] = challenger[id]
             \/ j # id /\ InHand(d, j) /\ task'[d] = task[d]
  <2>1. CASE task'[d] = task[d]
    BY <1>2, <1>3, <2>1 DEF InHand
  <2>2. CASE task'[d] # task[d]
    BY <1>0, <1>3, <2>2 DEF InHand
  <2> QED
    BY <2>1, <2>2
<1>4. \A d \in Client : task'[d] = task[d] \/ task'[d].do \in {"idle", "decline", "find_player1"}
  BY <1>0
<1>5. RoomToMake'
  BY <1>4, RoomKept
<1>6. NotMade'
  BY <1>1, <1>3 DEF Whereabouts, NotMade
<1>7. PendingIsFree'
  BY <1>1, <1>3 DEF TakesOut, Whereabouts, PendingIsFree
<1>8. TakenOnce'
  <2>1. ASSUME NEW d \in Client, NEW j \in Id, InHand(d, j)', j # id
        PROVE  /\ starts'[j] = 0
               /\ taker'[j] = Owner[d] /\ Owner[task'[d].challenger] = challenger'[j]
               /\ \A e \in Client : InHand(e, j)' => e = d
    <3>1. InHand(d, j) /\ task'[d] = task[d]
      BY <1>3, <2>1
    <3>2. \A e \in Client : InHand(e, j)' => InHand(e, j)
      BY <1>3, <2>1
    <3> QED
      BY <1>1, <2>1, <3>1, <3>2 DEF Whereabouts, TakenOnce
  <2>2. ASSUME NEW d \in Client, InHand(d, id)'
        PROVE  /\ starts'[id] = 0
               /\ taker'[id] = Owner[d] /\ Owner[task'[d].challenger] = challenger'[id]
               /\ \A e \in Client : InHand(e, id)' => e = d
    <3>1. \A e \in Client :
            InHand(e, id)' => e = c /\ Owner[task'[c].challenger] = challenger[id]
      BY <1>3
    <3> QED
      BY <1>1, <1>2, <2>2, <3>1
  <2> QED
    BY <2>1, <2>2 DEF TakenOnce
<1>9. GamesFit'
  <2>1. \A g \in games : g.id \in Id /\ g.id # id
    BY <1>2 DEF Whereabouts, GamesFit, Shape, TypeOK
  <2> QED
    BY <1>1, <2>1 DEF Whereabouts, GamesFit
<1>10. StartsOnce'
  BY DEF Whereabouts, StartsOnce
<1>11. Ratings'
  BY <1>4, RatingsKept DEF NothingRead
<1> QED
  BY <1>5, <1>6, <1>7, <1>8, <1>9, <1>10, <1>11 DEF Whereabouts

(* The game begins: the challenge leaves the hand it was in for good.      *)
LEMMA Started ==
  ASSUME Shape, Whereabouts, NEW c \in Client, task[c].do = "start",
         Continue(c, Idle),
         games' = games \cup {Players(c, task[c])},
         starts' = [starts EXCEPT ![task[c].id] = @ + 1],
         UNCHANGED <<made, challenger, pending, taker>>
  PROVE  RoomToMake' /\ Whereabouts'
<1> DEFINE g0 == Players(c, task[c])
<1>0. PICK i \in Id : i = task[c].id
  BY LocalTypes DEF Shape
<1>1. /\ i \in Id /\ InHand(c, i) /\ pending \subseteq Id
      /\ made \in Nat /\ Id \subseteq Int
  BY <1>0, ChallengeAssumption DEF Shape, TypeOK, Id, InHand
<1>2. /\ task'[c] = Idle
      /\ \A d \in Client : d # c => task'[d] = task[d]
  BY ContinueType, StepTypes DEF Shape
<1>3. /\ starts[i] = 0 /\ taker[i] = Owner[c] /\ Owner[task[c].challenger] = challenger[i]
      /\ \A d \in Client : InHand(d, i) => d = c
  BY <1>0, <1>1 DEF Whereabouts, TakenOnce
<1>4. starts'[i] = 1 /\ \A id \in Id : id # i => starts'[id] = starts[id]
  BY <1>0, <1>1, <1>3 DEF Shape, TypeOK
<1>5. i <= made /\ i \notin pending
  BY <1>1, MadeBefore DEF Whereabouts, PendingIsFree
<1>6. \A d \in Client, id \in Id : InHand(d, id)' => d # c /\ id # i /\ InHand(d, id)
  BY <1>2, <1>3 DEF InHand, Idle
<1>7. RoomToMake'
  BY <1>2, RoomKept DEF Idle
<1>8. NotMade'
  BY <1>1, <1>4, <1>5, <1>6 DEF Whereabouts, NotMade
<1>9. PendingIsFree'
  BY <1>1, <1>4, <1>5, <1>6 DEF Whereabouts, PendingIsFree
<1>10. TakenOnce'
  BY <1>2, <1>4, <1>6 DEF Whereabouts, TakenOnce
<1>11. StartsOnce'
  BY <1>4 DEF Whereabouts, StartsOnce
<1>12. GamesFit'
  <2>1. \A g \in games : g.id \in Id /\ g.id # i
    BY <1>3 DEF Whereabouts, GamesFit, Shape, TypeOK
  <2>2. /\ g0.id = i /\ Owner[g0.p1] = challenger[i] /\ Owner[g0.p2] = taker[i]
    BY <1>0, <1>3 DEF Players, Game
  <2>3. \A g \in games' :
          /\ g.id <= made' /\ starts'[g.id] = 1
          /\ Owner[g.p1] = challenger'[g.id] /\ Owner[g.p2] = taker'[g.id]
    BY <1>4, <1>5, <2>1, <2>2 DEF Whereabouts, GamesFit
  <2>4. \A g, h \in games' : g.id = h.id => g = h
    BY <2>1, <2>2 DEF Whereabouts, GamesFit
  <2> QED
    BY <2>3, <2>4 DEF GamesFit
<1> QED
  BY <1>7, <1>8, <1>9, <1>10, <1>11, <1>12 DEF Whereabouts

-----------------------------------------------------------------------------
(* The steps that read ratings, and the ones that write them.              *)

(* Nobody else has read the rating of a user who is not engaged.           *)
LEMMA NotEngaged ==
  ASSUME NEW u \in User, ~Engaged(u)
  PROVE  /\ \A g \in games : u \notin GameUsers(g)
         /\ \A d \in Client : u \notin ReadUsers(d)
BY DEF Engaged, GameUsers, ReadUsers

(* One readPump reads the rating of one more user, nobody's reading yet.   *)
LEMMA ReadOne ==
  ASSUME Ratings, NEW c \in Client, NEW u \in User,
         overlapped' = (overlapped \/ Engaged(u)),
         ReadUsers(c)' \subseteq ReadUsers(c) \cup {u},
         \A d \in Client : d # c => task'[d] = task[d],
         ~overlapped => ReadsAreCurrent',
         ~Engaged(u) /\ task'[c].do = "start" => Owner[task'[c].challenger] # Owner[c],
         UNCHANGED <<games, rating, earned>>
  PROVE  Ratings'
<1>1. RatingsAddUp'
  BY DEF Ratings, RatingsAddUp
<1>2. ASSUME ~overlapped, ~Engaged(u) PROVE NobodyTwice'
  <2>1. NobodyTwice
    BY <1>2 DEF Ratings
  <2>2. \A d \in Client : d # c => ReadUsers(d)' = ReadUsers(d)
    BY DEF ReadUsers
  <2>3. \A g, h \in games' : g # h => GameUsers(g) \cap GameUsers(h) = {}
    BY <2>1 DEF NobodyTwice
  <2>4. \A g \in games', d \in Client : GameUsers(g) \cap ReadUsers(d)' = {}
    BY <1>2, <2>1, <2>2, NotEngaged DEF NobodyTwice
  <2>5. \A d, e \in Client : d # e => ReadUsers(d)' \cap ReadUsers(e)' = {}
    BY <1>2, <2>1, <2>2, NotEngaged DEF NobodyTwice
  <2>6. /\ \A g \in games' : Owner[g.p1] # Owner[g.p2]
        /\ \A d \in Client : task'[d].do = "start" => Owner[task'[d].challenger] # Owner[d]
    BY <1>2, <2>1 DEF NobodyTwice
  <2> QED
    BY <2>3, <2>4, <2>5, <2>6 DEF NobodyTwice, GameUsers
<1> QED
  BY <1>1, <1>2 DEF Ratings

LEMMA ReadFirst ==
  ASSUME TypeOK, Ratings, NEW c \in Client, ReadPlayer1(c)
  PROVE  Ratings'
<1> DEFINE ch == task[c].challenger
<1>1. ch \in Client /\ task[c].id \in Id
  BY LocalTypes DEF ReadPlayer1, Does
<1>2. Owner[ch] \in User /\ rating[Owner[ch]] \in Int
  BY <1>1, ChallengeAssumption DEF TypeOK
<1>3. /\ task'[c] = FindPlayer2(ch, task[c].id, rating[Owner[ch]])
      /\ \A d \in Client : d # c => task'[d] = task[d]
  BY <1>1, <1>2, ContinueType, StepTypes DEF ReadPlayer1
<1>4. /\ overlapped' = (overlapped \/ Engaged(Owner[ch]))
      /\ UNCHANGED <<games, rating, earned>>
  BY DEF ReadPlayer1, scores
<1>5. ReadUsers(c)' \subseteq ReadUsers(c) \cup {Owner[ch]}
  BY <1>3 DEF ReadUsers, FindPlayer2
<1>6. ~overlapped => ReadsAreCurrent'
  BY <1>3, <1>4 DEF Ratings, ReadsAreCurrent, FindPlayer2
<1>7. task'[c].do # "start"
  BY <1>3 DEF FindPlayer2
<1> QED
  BY <1>2, <1>3, <1>4, <1>5, <1>6, <1>7, ReadOne

LEMMA ReadSecond ==
  ASSUME TypeOK, Ratings, NEW c \in Client, task[c].do = "find_player2",
         Continue(c, Start(task[c].challenger, task[c].id, task[c].r1, rating[Owner[c]])),
         overlapped' = (overlapped \/ Engaged(Owner[c])),
         UNCHANGED <<games, rating, earned>>
  PROVE  Ratings'
<1> DEFINE t == task[c]
<1>1. t.challenger \in Client /\ t.id \in Id /\ t.r1 \in Int
  BY LocalTypes
<1>2. Owner[c] \in User /\ rating[Owner[c]] \in Int
  BY ChallengeAssumption DEF TypeOK
<1>3. /\ task'[c] = Start(t.challenger, t.id, t.r1, rating[Owner[c]])
      /\ \A d \in Client : d # c => task'[d] = task[d]
  BY <1>1, <1>2, ContinueType, StepTypes
<1>4. ReadUsers(c)' \subseteq ReadUsers(c) \cup {Owner[c]}
  BY <1>3 DEF ReadUsers, Start
<1>5. ~overlapped => ReadsAreCurrent'
  BY <1>3 DEF Ratings, ReadsAreCurrent, Start
<1>6. ~Engaged(Owner[c]) => Owner[task'[c].challenger] # Owner[c]
  BY <1>3 DEF Engaged, Start
<1> QED
  BY <1>2, <1>3, <1>4, <1>5, <1>6, ReadOne

(* The game has the ratings its handler read, and the handler no longer.   *)
LEMMA ReadByAGame ==
  ASSUME TypeOK, Ratings, NEW c \in Client, task[c].do = "start",
         Continue(c, Idle),
         games' = games \cup {Players(c, task[c])},
         UNCHANGED <<rating, earned, overlapped>>
  PROVE  Ratings'
<1> DEFINE g0 == Players(c, task[c])
<1>1. /\ task'[c] = Idle
      /\ \A d \in Client : d # c => task'[d] = task[d]
  BY ContinueType, StepTypes
<1>2. RatingsAddUp'
  BY DEF Ratings, RatingsAddUp
<1>3. ASSUME ~overlapped PROVE ReadsAreCurrent'
  BY <1>1, <1>3 DEF Ratings, ReadsAreCurrent, Players, Game, Idle
<1>4. ASSUME ~overlapped PROVE NobodyTwice'
  <2>1. /\ GameUsers(g0) = ReadUsers(c) /\ ReadUsers(c)' = {}
        /\ \A d \in Client : d # c => ReadUsers(d)' = ReadUsers(d)
    BY <1>1 DEF GameUsers, ReadUsers, Players, Game, Idle
  <2>2. NobodyTwice
    BY <1>4 DEF Ratings
  <2>3. \A g, h \in games' : g # h => GameUsers(g) \cap GameUsers(h) = {}
    BY <2>1, <2>2 DEF NobodyTwice
  <2>4. \A g \in games', d \in Client : GameUsers(g) \cap ReadUsers(d)' = {}
    BY <2>1, <2>2 DEF NobodyTwice
  <2>5. \A d, e \in Client : d # e => ReadUsers(d)' \cap ReadUsers(e)' = {}
    BY <2>1, <2>2 DEF NobodyTwice
  <2>6. /\ \A g \in games' : Owner[g.p1] # Owner[g.p2]
        /\ \A d \in Client : task'[d].do = "start" => Owner[task'[d].challenger] # Owner[d]
    BY <1>1, <2>2 DEF NobodyTwice, Players, Game, Idle
  <2> QED
    BY <2>3, <2>4, <2>5, <2>6 DEF NobodyTwice, GameUsers
<1> QED
  BY <1>2, <1>3, <1>4 DEF Ratings

(* The result is written over what was read, when nobody else has read it. *)
LEMMA Finished ==
  ASSUME Shape, Whereabouts, Ratings, NEW g \in games, NEW d \in Changes, FinishGame(g, d)
  PROVE  Ratings'
<1> DEFINE u1 == Owner[g.p1]
           u2 == Owner[g.p2]
<1>1. /\ u1 \in User /\ u2 \in User /\ g.r1 \in Int /\ g.r2 \in Int /\ d \in Int
      /\ g.id \in Id
      /\ rating \in [User -> Int] /\ earned \in [User -> Int] /\ StartRating \in Int
  BY ChallengeAssumption DEF Shape, TypeOK
<1>2. games' = games \ {g} /\ UNCHANGED <<task, overlapped>>
  BY DEF FinishGame
<1>3. ASSUME ~overlapped PROVE RatingsAddUp' /\ ReadsAreCurrent' /\ NobodyTwice'
  <2>1. ReadsAreCurrent /\ NobodyTwice /\ \A u \in User : rating[u] = StartRating + earned[u]
    BY <1>3 DEF Ratings, RatingsAddUp
  <2>2. u1 # u2
    BY <2>1 DEF NobodyTwice
  <2>3. /\ rating'[u1] = g.r1 + d /\ rating'[u2] = g.r2 - d
        /\ \A u \in User : u \notin {u1, u2} => rating'[u] = rating[u]
    BY <1>1, <2>2 DEF FinishGame, NewRating
  <2>4. /\ earned'[u1] = earned[u1] + d /\ earned'[u2] = earned[u2] - d
         /\ \A u \in User : u \notin {u1, u2} => earned'[u] = earned[u]
    BY <1>1, <2>2 DEF FinishGame
  <2>5. RatingsAddUp'
    <3>1. g.r1 = StartRating + earned[u1] /\ g.r2 = StartRating + earned[u2]
      BY <1>1, <2>1 DEF ReadsAreCurrent
    <3>2. earned[u1] \in Int /\ earned[u2] \in Int
      BY <1>1
    <3>3. rating'[u1] = StartRating + earned'[u1] /\ rating'[u2] = StartRating + earned'[u2]
      BY <1>1, <2>3, <2>4, <3>1, <3>2
    <3>4. ASSUME NEW u \in User PROVE rating'[u] = StartRating + earned'[u]
      <4>1. CASE u \in {u1, u2}
        BY <3>3, <4>1
      <4>2. CASE u \notin {u1, u2}
        <5>1. rating'[u] = rating[u] /\ earned'[u] = earned[u]
          BY <2>3, <2>4, <4>2
        <5> QED
          BY <2>1, <5>1
      <4> QED
        BY <4>1, <4>2
    <3> QED
      BY <3>4 DEF RatingsAddUp
  <2>6. NobodyTwice'
    <3>1. /\ \A c \in Client : ReadUsers(c)' = ReadUsers(c)
          /\ games' \subseteq games
      BY <1>2 DEF ReadUsers
    <3>2. \A h, k \in games' : h # k => GameUsers(h) \cap GameUsers(k) = {}
      BY <2>1, <3>1 DEF NobodyTwice
    <3>3. \A h \in games', c \in Client : GameUsers(h) \cap ReadUsers(c)' = {}
      BY <2>1, <3>1 DEF NobodyTwice
    <3>4. \A c, e \in Client : c # e => ReadUsers(c)' \cap ReadUsers(e)' = {}
      BY <2>1, <3>1 DEF NobodyTwice
    <3> QED
      BY <2>1, <3>1, <3>2, <3>3, <3>4, <1>2 DEF NobodyTwice, GameUsers
  <2>7. \A h \in games' : {Owner[h.p1], Owner[h.p2]} \cap {u1, u2} = {}
    BY <1>2, <2>1 DEF NobodyTwice, GameUsers
  <2>8. \A c \in Client : ReadUsers(c) \cap {u1, u2} = {}
    BY <2>1 DEF NobodyTwice, GameUsers
  <2>9. \A h \in games' : h.r1 = rating'[Owner[h.p1]] /\ h.r2 = rating'[Owner[h.p2]]
    <3>1. \A h \in games' : Owner[h.p1] \in User /\ Owner[h.p2] \in User
      BY <1>2, ChallengeAssumption DEF Shape, TypeOK
    <3>2. \A h \in games' :
            rating'[Owner[h.p1]] = rating[Owner[h.p1]] /\ rating'[Owner[h.p2]] = rating[Owner[h.p2]]
      BY <2>3, <2>7, <3>1
    <3> QED
      BY <1>2, <2>1, <3>2 DEF ReadsAreCurrent
  <2>10. ASSUME NEW c \in Client
        PROVE  /\ task[c].do \in {"find_player2", "start"} =>
                    task[c].r1 = rating'[Owner[task[c].challenger]]
               /\ task[c].do = "start" => task[c].r2 = rating'[Owner[c]]
    <3>1. /\ task[c].do \in {"find_player2", "start"} =>
               Owner[task[c].challenger] \in User \ {u1, u2}
          /\ task[c].do = "start" => Owner[c] \in User \ {u1, u2}
      BY <2>8, LocalTypes, ChallengeAssumption DEF Shape, ReadUsers
    <3> QED
      BY <2>3, <2>1, <3>1 DEF ReadsAreCurrent
  <2>11. ReadsAreCurrent'
    BY <1>2, <2>9, <2>10 DEF ReadsAreCurrent
  <2> QED
    BY <2>5, <2>6, <2>11
<1> QED
  BY <1>2, <1>3 DEF Ratings, RatingsAddUp

-----------------------------------------------------------------------------
(* Every step preserves the invariant.                                     *)

(* A handler that goes no further, or tells no more than an error.         *)
Quiet ==
  /\ \A c \in Client : task'[c] = task[c] \/ Settles(c)
  /\ games' \subseteq games /\ pending' \subseteq pending
  /\ UNCHANGED <<made, challenger, taker, starts, rating, earned, overlapped>>

LEMMA QuietKeeps ==
  ASSUME IInv, Quiet
  PROVE  RoomToMake' /\ Whereabouts' /\ Ratings'
<1>1. NothingTaken /\ NothingRead
  BY DEF Quiet, NothingTaken, NothingRead, Settles
<1> QED
  BY <1>1, WhereaboutsKept, RatingsKept DEF IInv

LEMMA ContinueQuiet ==
  ASSUME TypeOK, NEW c \in Client, NEW t \in Task, Continue(c, t),
         t.do \in {"idle", "decline", "tell_first", "tell_second"},
         games' \subseteq games, pending' \subseteq pending,
         UNCHANGED <<made, challenger, taker, starts, rating, earned, overlapped>>
  PROVE  Quiet
BY ContinueType DEF Quiet, Settles

LEMMA IdleQuiet ==
  ASSUME TypeOK, NEW c \in Client, Continue(c, Idle),
         games' \subseteq games, pending' \subseteq pending,
         UNCHANGED <<made, challenger, taker, starts, rating, earned, overlapped>>
  PROVE  Quiet
BY ContinueQuiet, StepTypes DEF Idle

LEMMA InvPreserved ==
  ASSUME IInv, [Next]_vars
  PROVE  RoomToMake' /\ Whereabouts' /\ Ratings'
<1>0. Shape /\ TypeOK /\ Whereabouts /\ Ratings
  BY DEF IInv, Shape
<1> USE <1>0 DEF challenges, scores
<1>1. ASSUME NEW c \in Client, Connect(c) \/ Disconnect(c) \/ WriterFails(c)
      PROVE  Quiet
  BY <1>1 DEF Connect, Disconnect, WriterFails, Quiet
<1>2. ASSUME NEW c \in Client, WriteOne(c) PROVE Quiet
  <2>1. CASE \E d \in Waiting(c) :
               Continue(d, IF task[d].do = "tell_first" THEN TellSecond ELSE Idle)
    <3>1. PICK d \in Client :
            Continue(d, IF task[d].do = "tell_first" THEN TellSecond ELSE Idle)
      BY <2>1 DEF Waiting
    <3>2. PICK t \in {TellSecond, Idle} : Continue(d, t)
      BY <3>1
    <3> QED
      BY <1>2, <3>2, ContinueQuiet, StepTypes DEF WriteOne, TellSecond, Idle
  <2>2. CASE UNCHANGED task
    BY <1>2, <2>2 DEF WriteOne, Quiet
  <2> QED
    BY <1>2, <2>1, <2>2 DEF WriteOne
<1>3. ASSUME NEW c \in Client, NEW u \in User, ReceiveChallenge(c, u)
      PROVE  RoomToMake' /\ Whereabouts' /\ Ratings'
  <2>1. CASE entry[u] = None
    BY <1>3, <2>1, IdleQuiet, QuietKeeps DEF ReceiveChallenge, ReplyError
  <2>2. CASE entry[u] # None
    BY <1>3, <2>2, Following
  <2> QED
    BY <2>1, <2>2
<1>4. ASSUME NEW c \in Client, NEW id \in Id, NEW accepted \in BOOLEAN,
             ReceiveResponse(c, id, accepted)
      PROVE  RoomToMake' /\ Whereabouts' /\ Ratings'
  <2> DEFINE ch == entry[challenger[id]]
  <2>1. /\ Answers(c, id) /\ task[c].do = "idle"
        /\ UNCHANGED <<made, challenger, games, starts, rating, earned, overlapped>>
    BY <1>4, AnswersIn DEF ReceiveResponse, Listens, Does
  <2>2. CASE ReplyError(c) /\ UNCHANGED <<pending, taker>>
    BY <2>1, <2>2, IdleQuiet, QuietKeeps DEF ReplyError
  <2>3. CASE TakesOut(c, id) /\ UNCHANGED <<task, queued>>
    BY <2>1, <2>3, Taken
  <2>4. CASE TakesOut(c, id) /\ ReplyError(c)
    <3>1. task'[c] = Idle /\ \A d \in Client : d # c => task'[d] = task[d]
      BY <2>4, ContinueType, StepTypes DEF ReplyError
    <3> QED
      BY <2>1, <2>4, <3>1, Taken DEF Idle
  <2>5. CASE /\ TakesOut(c, id) /\ ch # None
             /\ Continue(c, Decline(ch)) \/ Continue(c, FindPlayer1(ch, id))
    <3>1. ch \in Client /\ Owner[ch] = challenger[id]
      BY <2>5 DEF TakesOut, Shape, TypeOK, ChallengersAreUsers, EntryIsOwn
    <3>2. CASE Continue(c, Decline(ch))
      <4>1. task'[c] = Decline(ch) /\ \A d \in Client : d # c => task'[d] = task[d]
        BY <3>1, <3>2, ContinueType, StepTypes
      <4> QED
        BY <2>1, <2>5, <4>1, Taken DEF Decline
    <3>3. CASE Continue(c, FindPlayer1(ch, id))
      <4>1. task'[c] = FindPlayer1(ch, id) /\ \A d \in Client : d # c => task'[d] = task[d]
        BY <3>1, <3>3, ContinueType, StepTypes
      <4> QED
        BY <2>1, <2>5, <3>1, <4>1, Taken
    <3> QED
      BY <2>5, <3>2, <3>3
  <2> QED
    BY <2>1, <2>2, <2>3, <2>4, <2>5 DEF Answers
<1>5. ASSUME NEW c \in Client, MakeChallenge(c)
      PROVE  RoomToMake' /\ Whereabouts' /\ Ratings'
  <2>1. CASE ReplyError(c) /\ UNCHANGED challenges
    BY <1>5, <2>1, IdleQuiet, QuietKeeps DEF MakeChallenge, ReplyError
  <2>2. CASE ~(ReplyError(c) /\ UNCHANGED challenges)
    BY <1>5, <2>2, Making DEF MakeChallenge, Does
  <2> QED
    BY <2>1, <2>2
<1>6. ASSUME NEW c \in Client, SendChallenge(c) PROVE Quiet
  BY <1>6, IdleQuiet DEF SendChallenge, ReplyError
<1>7. ASSUME NEW c \in Client,
             \/ SendChallengePanics(c) \/ SendDeclinePanics(c) \/ TellPlayer1Panics(c)
      PROVE  Quiet
  <2>1. HandlerPanics(c)
    BY <1>7 DEF SendChallengePanics, SendDeclinePanics, TellPlayer1Panics
  <2> QED
    BY <2>1, IdleQuiet DEF HandlerPanics
<1>8. ASSUME NEW c \in Client, SendDecline(c) PROVE Quiet
  BY <1>8, IdleQuiet DEF SendDecline
<1>9. ASSUME NEW c \in Client, ReadPlayer1(c)
      PROVE  RoomToMake' /\ Whereabouts' /\ Ratings'
  <2>1. task[c].challenger \in Client /\ task[c].id \in Id
    BY <1>9, LocalTypes DEF ReadPlayer1, Does
  <2>2. rating[Owner[task[c].challenger]] \in Int
    BY <2>1, ChallengeAssumption DEF TypeOK
  <2>3. /\ task'[c] = FindPlayer2(task[c].challenger, task[c].id,
                                 rating[Owner[task[c].challenger]])
        /\ \A d \in Client : d # c => task'[d] = task[d]
    BY <1>9, <2>1, <2>2, ContinueType, StepTypes DEF ReadPlayer1
  <2>4. NothingTaken
    BY <1>9, <2>1, <2>3 DEF ReadPlayer1, Does, NothingTaken, HoldsOn, InHand, FindPlayer2
  <2> QED
    BY <1>9, <2>4, WhereaboutsKept, ReadFirst
<1>10. ASSUME NEW c \in Client, ReadPlayer2(c)
       PROVE  RoomToMake' /\ Whereabouts' /\ Ratings'
  <2> DEFINE t == task[c]
  <2>1. /\ t.challenger \in Client /\ t.id \in Id /\ t.r1 \in Int
        /\ rating[Owner[c]] \in Int
    BY <1>10, LocalTypes, ChallengeAssumption DEF ReadPlayer2, Does, TypeOK
  <2>2. CASE ReplyError(c) /\ UNCHANGED overlapped
    BY <1>10, <2>2, IdleQuiet, QuietKeeps DEF ReadPlayer2, ReplyError
  <2>3. CASE /\ Continue(c, Start(t.challenger, t.id, t.r1, rating[Owner[c]]))
             /\ overlapped' = (overlapped \/ Engaged(Owner[c]))
    <3>1. /\ task'[c] = Start(t.challenger, t.id, t.r1, rating[Owner[c]])
          /\ \A d \in Client : d # c => task'[d] = task[d]
      BY <2>1, <2>3, ContinueType, StepTypes
    <3>2. NothingTaken
      BY <1>10, <2>1, <3>1 DEF ReadPlayer2, Does, NothingTaken, HoldsOn, InHand, Start
    <3>3. Ratings'
      BY <1>10, <2>3, ReadSecond DEF ReadPlayer2, Does
    <3> QED
      BY <3>2, <3>3, WhereaboutsKept
  <2> QED
    BY <1>10, <2>2, <2>3 DEF ReadPlayer2
<1>11. ASSUME NEW c \in Client, StartGame(c)
       PROVE  RoomToMake' /\ Whereabouts' /\ Ratings'
  <2>1. CASE Continue(c, TellFirst(task[c].challenger)) /\ UNCHANGED <<games, starts>>
    <3>1. TellFirst(task[c].challenger) \in Task
      BY <1>11, LocalTypes, StepTypes DEF StartGame, Does
    <3> QED
      BY <1>11, <2>1, <3>1, ContinueQuiet, QuietKeeps DEF StartGame, TellFirst
  <2>2. CASE /\ games' = games \cup {Players(c, task[c])}
             /\ starts' = [starts EXCEPT ![task[c].id] = @ + 1]
             /\ Continue(c, Idle)
    BY <1>11, <2>2, Started, ReadByAGame DEF StartGame, Does
  <2> QED
    BY <1>11, <2>1, <2>2 DEF StartGame
<1>12. ASSUME NEW c \in Client, TellPlayer1(c) PROVE Quiet
  BY <1>12, ContinueQuiet, StepTypes DEF TellPlayer1, TellSecond
<1>13. ASSUME NEW c \in Client, TellPlayer2(c) PROVE Quiet
  BY <1>13, IdleQuiet DEF TellPlayer2, ReplyError
<1>14. ASSUME NEW g \in games, NEW d \in Changes, FinishGame(g, d)
       PROVE  RoomToMake' /\ Whereabouts' /\ Ratings'
  <2>1. NothingTaken
    BY <1>14 DEF FinishGame, NothingTaken
  <2> QED
    BY <1>14, <2>1, WhereaboutsKept, Finished
<1>15. ASSUME NEW g \in games, GiveUpGame(g) PROVE Quiet
  BY <1>15 DEF GiveUpGame, Quiet
<1>16. CASE UNCHANGED vars
  <2>1. Quiet
    BY <1>16 DEF vars, Quiet
  <2> QED
    BY <2>1, QuietKeeps
<1> QED
  BY <1>1, <1>2, <1>3, <1>4, <1>5, <1>6, <1>7, <1>8, <1>9, <1>10, <1>11, <1>12, <1>13,
     <1>14, <1>15, <1>16, QuietKeeps
  DEF Next, Handle

LEMMA InitInv == Init => IInv
<1> SUFFICES ASSUME Init PROVE IInv
  OBVIOUS
<1>1. TypeOK
  <2>1. stage \in [Client -> {"new", "reading", "gone"}]
    BY DEF Init
  <2>2. /\ writing \in [Client -> BOOLEAN] /\ closed \in [Client -> BOOLEAN]
        /\ entry \in [User -> Client \cup {None}]
    BY DEF Init
  <2>3. queued \in [Client -> 0..SendCap] /\ task \in [Client -> Task]
    BY ChallengeAssumption, StepTypes DEF Init
  <2>4. /\ made \in 0..MaxChallenges /\ pending \subseteq 1..made
        /\ challenger \in [Id -> User \cup {None}] /\ taker \in [Id -> User \cup {None}]
    BY ChallengeAssumption DEF Init
  <2>5. /\ games \subseteq [p1 : Client, p2 : Client, id : Id, r1 : Int, r2 : Int]
        /\ starts \in [Id -> Nat] /\ overlapped \in BOOLEAN
    BY DEF Init
  <2>6. rating \in [User -> Int] /\ earned \in [User -> Int]
    BY ChallengeAssumption DEF Init
  <2> QED
    BY <2>1, <2>2, <2>3, <2>4, <2>5, <2>6 DEF TypeOK
<1>2. EntryIsOwn /\ ChallengersAreUsers
  BY DEF Init, EntryIsOwn, ChallengersAreUsers
<1>3. RoomToMake
  <2>1. InMaking = {}
    BY DEF Init, InMaking, Idle
  <2> QED
    BY <2>1, FS_EmptySet, ChallengeAssumption DEF Init, RoomToMake
<1>4. \A c \in Client : task[c].do = "idle"
  BY DEF Init, Idle
<1>5. Whereabouts
  BY <1>4
  DEF Init, Whereabouts, NotMade, PendingIsFree, TakenOnce, GamesFit, StartsOnce, InHand
<1>6. Ratings
  BY <1>4, ChallengeAssumption
  DEF Init, Ratings, RatingsAddUp, ReadsAreCurrent, NobodyTwice, ReadUsers
<1> QED
  BY <1>1, <1>2, <1>3, <1>5, <1>6 DEF IInv, Shape

(* The invariant holds throughout: what a handler holds in its locals      *)
(* across its waits stays as good as when it was looked up.                *)
THEOREM Invariance == Spec => []IInv
<1>1. IInv /\ [Next]_vars => IInv'
  <2> SUFFICES ASSUME IInv, [Next]_vars PROVE IInv'
    OBVIOUS
  <2>1. TypeOK' /\ EntryIsOwn' /\ ChallengersAreUsers'
    <3>1. AllOK'
      BY TypesPreserved DEF IInv
    <3>2. (TypeOK /\ EntryIsOwn /\ ChallengersAreUsers <=> AllOK)'
      BY Parts, PTL
    <3> QED
      BY <3>1, <3>2
  <2> QED
    BY <2>1, InvPreserved DEF IInv, Shape
<1> QED
  BY InitInv, <1>1, PTL DEF Spec

(* No variable ever leaves its type; queues never hold more than SendCap.  *)
THEOREM TypeCorrect == Spec => []TypeOK
BY Invariance, PTL DEF IInv, Shape

(* A challenge never begins two games.                                     *)
THEOREM ChallengesStartOnce == Spec => []StartsOnce
BY Invariance, PTL DEF IInv, Whereabouts

(* Ratings are what has been earned, unless games of a user overlapped.    *)
THEOREM RatingsAreEarned == Spec => []RatingsAddUp
BY Invariance, PTL DEF IInv, Ratings

-----------------------------------------------------------------------------
(* The challenges implement Duels.  What a step does to challenges, games  *)
(* and earnings, and no more, is one of these.                             *)

Elsewhere ==
  UNCHANGED <<made, challenger, pending, taker, games, starts, earned>>

Makes(c) ==
  /\ task[c].do = "find_challenger"
  /\ made' = made + 1
  /\ challenger' = [challenger EXCEPT ![made + 1] = Owner[c]]
  /\ pending' = pending \cup {made + 1}
  /\ UNCHANGED <<taker, games, starts, earned>>

Takes(c, id) ==
  /\ TakesOut(c, id)
  /\ UNCHANGED <<made, challenger, games, starts, earned>>

Begins(c) ==
  /\ task[c].do = "start"
  /\ games' = games \cup {Players(c, task[c])}
  /\ starts' = [starts EXCEPT ![task[c].id] = @ + 1]
  /\ UNCHANGED <<made, challenger, pending, taker, earned>>

Ends(g, d) ==
  /\ games' = games \ {g}
  /\ \/ earned' = [earned EXCEPT ![Owner[g.p1]] = @ + d, ![Owner[g.p2]] = @ - d]
     \/ d = 0 /\ UNCHANGED earned
  /\ UNCHANGED <<made, challenger, pending, taker, starts>>

Effect ==
  \/ Elsewhere
  \/ \E c \in Client : Makes(c) \/ Begins(c) \/ \E id \in Id : Takes(c, id)
  \/ \E g \in games, d \in Changes \cup {0} : Ends(g, d)

LEMMA Effects ==
  ASSUME [Next]_vars
  PROVE  Effect
<1> USE DEF challenges, scores
<1>1. ASSUME NEW c \in Client,
             Connect(c) \/ Disconnect(c) \/ WriteOne(c) \/ WriterFails(c)
      PROVE  Elsewhere
  BY <1>1 DEF Connect, Disconnect, WriteOne, WriterFails, Elsewhere
<1>2. ASSUME NEW c \in Client, NEW u \in User, ReceiveChallenge(c, u)
      PROVE  Elsewhere
  BY <1>2 DEF ReceiveChallenge, Elsewhere
<1>3. ASSUME NEW c \in Client,
             \/ SendChallengePanics(c) \/ SendDeclinePanics(c) \/ TellPlayer1Panics(c)
             \/ SendChallenge(c) \/ SendDecline(c) \/ ReadPlayer1(c) \/ ReadPlayer2(c)
             \/ TellPlayer1(c) \/ TellPlayer2(c)
      PROVE  Elsewhere
  BY <1>3
  DEF SendChallengePanics, SendDeclinePanics, TellPlayer1Panics, HandlerPanics, SendChallenge,
      SendDecline, ReadPlayer1, ReadPlayer2, TellPlayer1, TellPlayer2, Elsewhere
<1>4. ASSUME NEW c \in Client, MakeChallenge(c) PROVE Elsewhere \/ Makes(c)
  BY <1>4 DEF MakeChallenge, Does, Elsewhere, Makes
<1>6. ASSUME NEW c \in Client, StartGame(c) PROVE Elsewhere \/ Begins(c)
  BY <1>6 DEF StartGame, Does, Elsewhere, Begins
<1>7. ASSUME NEW c \in Client, NEW id \in Id, NEW accepted \in BOOLEAN,
             ReceiveResponse(c, id, accepted)
      PROVE  Elsewhere \/ Takes(c, id)
  BY <1>7, AnswersIn DEF ReceiveResponse, Answers, Elsewhere, Takes
<1>8. ASSUME NEW g \in games, NEW d \in Changes, FinishGame(g, d) PROVE Ends(g, d)
  BY <1>8 DEF FinishGame, Ends
<1>9. ASSUME NEW g \in games, GiveUpGame(g) PROVE Ends(g, 0)
  BY <1>9 DEF GiveUpGame, Ends
<1>10. CASE UNCHANGED vars
  BY <1>10 DEF vars, Elsewhere, Effect
<1>11. ASSUME NEW c \in Client, Handle(c)
       PROVE  Elsewhere \/ Makes(c) \/ Begins(c)
  BY <1>3, <1>4, <1>6, <1>11 DEF Handle
<1>12. CASE \E c \in Client, u \in User : ReceiveChallenge(c, u)
  BY <1>2, <1>12 DEF Effect
<1>13. CASE \E c \in Client, id \in Id, accepted \in BOOLEAN : ReceiveResponse(c, id, accepted)
  BY <1>7, <1>13 DEF Effect
<1>14. CASE \E c \in Client : Handle(c)
  BY <1>11, <1>14 DEF Effect
<1>15. CASE \E g \in games : GiveUpGame(g) \/ \E d \in Changes : FinishGame(g, d)
  BY <1>8, <1>9, <1>15 DEF Effect
<1>16. CASE \E c \in Client : Connect(c) \/ Disconnect(c) \/ WriteOne(c) \/ WriterFails(c)
  BY <1>1, <1>16 DEF Effect
<1> QED
  BY <1>10, <1>12, <1>13, <1>14, <1>15, <1>16 DEF Next

(* The step of Duels that each effect is.                                  *)
Fates == [id \in Id |-> Fate(id)]
DuelsNow == {DuelOf(g) : g \in games}

LEMMA FateChanges ==
  ASSUME NEW i \in Id, NEW f, Fate(i)' = f,
         \A id \in Id : id # i => Fate(id)' = Fate(id)
  PROVE  Fates' = [Fates EXCEPT ![i] = f]
BY DEF Fates

LEMMA ElsewhereStutters ==
  ASSUME Elsewhere
  PROVE  UNCHANGED Promised!vars
BY DEF Elsewhere, Promised!vars, Fate, DuelOf

LEMMA MakesOne ==
  ASSUME IInv, NEW c \in Client, Makes(c)
  PROVE  Promised!Make(made + 1, Owner[c])
<1>1. /\ Shape /\ made + 1 \in Id /\ made \in Nat /\ Id \subseteq Int
      /\ pending \subseteq 1..made
  BY RoomForOne DEF IInv, Makes, Shape, TypeOK, Id
<1>2. PICK new \in Id : new = made + 1
  BY <1>1
<1>3. Fate(new) = "none" /\ Fate(new)' = "open"
  BY <1>1, <1>2 DEF Fate, Makes
<1>4. \A id \in Id : id # new => Fate(id)' = Fate(id)
  <2> SUFFICES ASSUME NEW id \in Id, id # new PROVE Fate(id)' = Fate(id)
    OBVIOUS
  <2>1. /\ id > made' <=> id > made
        /\ id \in pending' <=> id \in pending
        /\ starts' = starts
    BY <1>1, <1>2 DEF Makes
  <2> QED
    BY <2>1 DEF Fate
<1>5. Fates' = [Fates EXCEPT ![new] = "open"] /\ Fates[new] = "none"
  BY <1>3, <1>4, FateChanges DEF Fates
<1>6. UNCHANGED <<taker, DuelsNow, earned>>
  BY DEF Makes, DuelsNow, DuelOf
<1> QED
  BY <1>2, <1>5, <1>6 DEF Makes, Promised!Make, Fates, DuelsNow

LEMMA TakesOne ==
  ASSUME IInv, NEW c \in Client, NEW id \in Id, Takes(c, id)
  PROVE  Promised!Answer(id, Owner[c])
<1>1. Whereabouts /\ id <= made /\ ~(id > made) /\ id \in pending
  BY DEF IInv, Takes, TakesOut, Shape, TypeOK
<1>2. starts[id] = 0
  BY <1>1 DEF Whereabouts, PendingIsFree
<1>3. Fate(id) = "open" /\ Fate(id)' = "answered"
  BY <1>1, <1>2 DEF Takes, TakesOut, Fate
<1>4. \A j \in Id : j # id => Fate(j)' = Fate(j)
  BY DEF Takes, TakesOut, Fate
<1>5. Fates' = [Fates EXCEPT ![id] = "answered"] /\ Fates[id] = "open"
  BY <1>3, <1>4, FateChanges DEF Fates
<1>6. UNCHANGED <<challenger, DuelsNow, earned>> /\ taker' = [taker EXCEPT ![id] = Owner[c]]
  BY DEF Takes, TakesOut, DuelsNow, DuelOf
<1> QED
  BY <1>5, <1>6 DEF Promised!Answer, Fates, DuelsNow

LEMMA BeginsOne ==
  ASSUME IInv, NEW c \in Client, Begins(c)
  PROVE  Promised!Begin(task[c].id)
<1> DEFINE g0 == Players(c, task[c])
<1>0. PICK i \in Id : i = task[c].id
  BY LocalTypes DEF IInv, Shape, Begins
<1>1. /\ Shape /\ Whereabouts /\ i \in Id /\ InHand(c, i)
      /\ starts \in [Id -> Nat] /\ made \in Nat /\ i \in Int
  BY <1>0 DEF IInv, Begins, Shape, TypeOK, Id, InHand
<1>2. /\ starts[i] = 0 /\ taker[i] = Owner[c]
      /\ Owner[task[c].challenger] = challenger[i]
  BY <1>0, <1>1 DEF Whereabouts, TakenOnce
<1>3. ~(i > made) /\ i \notin pending
  BY <1>1, MadeBefore DEF Whereabouts, PendingIsFree
<1>4. starts'[i] = 1 /\ \A j \in Id : j # i => starts'[j] = starts[j]
  BY <1>0, <1>1, <1>2 DEF Begins
<1>5. Fate(i) = "answered" /\ Fate(i)' = "begun"
  BY <1>2, <1>3, <1>4 DEF Begins, Fate
<1>6. \A j \in Id : j # i => Fate(j)' = Fate(j)
  BY <1>4 DEF Begins, Fate
<1>7. Fates' = [Fates EXCEPT ![i] = "begun"] /\ Fates[i] = "answered"
  BY <1>1, <1>5, <1>6, FateChanges DEF Fates
<1>8. DuelOf(g0) = Promised!Duel(i, challenger[i], taker[i])
  BY <1>0, <1>2 DEF DuelOf, Players, Game, Promised!Duel
<1>9. DuelsNow' = DuelsNow \cup {Promised!Duel(i, challenger[i], taker[i])}
  <2>1. DuelsNow' = {DuelOf(g) : g \in games \cup {g0}}
    BY DEF Begins, DuelsNow, DuelOf
  <2> QED
    BY <1>8, <2>1 DEF DuelsNow
<1> QED
  BY <1>0, <1>7, <1>9 DEF Begins, Promised!Begin, Fates, DuelsNow

LEMMA EndsOne ==
  ASSUME IInv, NEW g \in games, NEW d \in Changes \cup {0}, Ends(g, d)
  PROVE  DuelOf(g) \in DuelsNow /\ Promised!End(DuelOf(g), d)
<1> DEFINE u1 == Owner[g.p1]
           u2 == Owner[g.p2]
<1>1. /\ u1 \in User /\ u2 \in User /\ d \in Int
      /\ earned \in [User -> Int]
  BY ChallengeAssumption DEF IInv, Shape, TypeOK
<1>2. earned' = [earned EXCEPT ![u1] = @ + d, ![u2] = @ - d]
  <2>1. CASE d = 0 /\ UNCHANGED earned
    BY <1>1, <2>1
  <2> QED
    BY <2>1 DEF Ends
<1>3. DuelsNow' = DuelsNow \ {DuelOf(g)}
  <2>1. \A h \in games : DuelOf(h) = DuelOf(g) => h = g
    BY DEF DuelOf, IInv, Whereabouts, GamesFit
  <2>2. DuelsNow' = {DuelOf(h) : h \in games \ {g}}
    BY DEF Ends, DuelsNow, DuelOf
  <2> QED
    BY <2>1, <2>2 DEF DuelsNow
<1>4. UNCHANGED <<challenger, taker, Fates>>
  BY DEF Ends, Fates, Fate
<1>5. DuelOf(g).one = u1 /\ DuelOf(g).two = u2 /\ DuelOf(g) \in DuelsNow
  BY DEF DuelOf, DuelsNow
<1> QED
  BY <1>2, <1>3, <1>4, <1>5 DEF Promised!End, Fates, DuelsNow

(* Challenges, their handlers interleaved and failing as they may, are     *)
(* made, answered and played as Duels says: no answer without its          *)
(* challenge, no second one, no game without its answer or between others, *)
(* no earnings without a game.                                             *)
THEOREM ChallengesImplementDuels == Spec => ImplementsDuels
<1>1. Init => Promised!Init
  <2> SUFFICES ASSUME Init PROVE Promised!Init
    OBVIOUS
  <2>1. Fates = [id \in Id |-> "none"] /\ DuelsNow = {}
    BY DEF Init, Fates, Fate, DuelsNow, Id
  <2> QED
    BY <2>1 DEF Init, Promised!Init, Fates, DuelsNow
<1>2. IInv /\ [Next]_vars => [Promised!Next]_Promised!vars
  <2> SUFFICES ASSUME IInv, Effect PROVE [Promised!Next]_Promised!vars
    BY Effects
  <2>1. ASSUME NEW c \in Client, Makes(c) PROVE Promised!Next
    <3>1. made + 1 \in Id /\ Owner[c] \in User
      BY <2>1, RoomForOne, ChallengeAssumption DEF IInv, Makes
    <3> QED
      BY <2>1, <3>1, MakesOne DEF Promised!Next
  <2>2. ASSUME NEW c \in Client, NEW id \in Id, Takes(c, id) PROVE Promised!Next
    BY <2>2, TakesOne, ChallengeAssumption DEF Promised!Next
  <2>3. ASSUME NEW c \in Client, Begins(c) PROVE Promised!Next
    <3>1. task[c].id \in Id
      BY <2>3, LocalTypes DEF IInv, Shape, Begins
    <3> QED
      BY <2>3, <3>1, BeginsOne DEF Promised!Next
  <2>4. ASSUME NEW g \in games, NEW d \in Changes \cup {0}, Ends(g, d) PROVE Promised!Next
    BY <2>4, EndsOne DEF Promised!Next, DuelsNow
  <2> QED
    BY <2>1, <2>2, <2>3, <2>4, ElsewhereStutters DEF Effect
<1>3. Init /\ [][Next]_vars /\ []IInv => Promised!Init /\ [][Promised!Next]_Promised!vars
  BY <1>1, <1>2, PTL
<1> QED
  BY <1>3, Invariance, PTL DEF Spec, ImplementsDuels, Promised!Spec

-----------------------------------------------------------------------------
(* The connections that handlers and games use are those of Registry, and  *)
(* so - HubProofs has the hub implement it - those that the hub has.       *)

OpenUntilGone == \A c \in Client : stage[c] # "gone" => closed[c] = FALSE

Phases == [c \in Client |-> Phase(c)]

LEMMA JoinsOne ==
  ASSUME TypeOK, NEW c \in Client, Connect(c)
  PROVE  Connections!Join(c)
<1>1. stage[c] = "new" /\ stage'[c] = "reading"
  BY DEF Connect, TypeOK
<1>2. Phase(c) = "new" /\ Phase(c)' = "joined"
  BY <1>1 DEF Phase
<1>3. \A d \in Client : d # c => Phase(d)' = Phase(d)
  BY DEF Connect, TypeOK, Phase
<1>4. Phases[c] = "new" /\ Phases' = [Phases EXCEPT ![c] = "joined"]
  BY <1>2, <1>3 DEF Phases
<1> QED
  BY <1>4 DEF Connect, Connections!Join, Phases

LEMMA LeavesOne ==
  ASSUME TypeOK, OpenUntilGone, NEW c \in Client, stage[c] = "reading", Leaves(c)
  PROVE  Connections!Leave(c)
<1> DEFINE u == Owner[c]
<1>0. u \in User
  BY ChallengeAssumption
<1>1. stage'[c] = "gone" /\ closed[c] = FALSE
  BY DEF Leaves, TypeOK, OpenUntilGone
<1>2. Phase(c) = "joined" /\ Phase(c)' = "left"
  BY <1>1 DEF Phase
<1>3. \A d \in Client : d # c => Phase(d)' = Phase(d)
  BY DEF Leaves, TypeOK, Phase
<1>4. Phases[c] = "joined" /\ Phases' = [Phases EXCEPT ![c] = "left"]
  BY <1>2, <1>3 DEF Phases
<1>5. entry' = [entry EXCEPT ![u] = None]
  <2>1. CASE entry[u] # None
    BY <2>1 DEF Leaves
  <2>2. CASE entry[u] = None
    BY <1>0, <2>2 DEF Leaves, TypeOK
  <2> QED
    BY <2>1, <2>2
<1>6. closed' = [closed EXCEPT ![c] = entry[u] # None]
  <2>1. CASE entry[u] # None
    BY <2>1 DEF Leaves, Closing, TypeOK
  <2>2. CASE entry[u] = None
    BY <1>1, <2>2 DEF Leaves, TypeOK
  <2> QED
    BY <2>1, <2>2
<1> QED
  BY <1>4, <1>5, <1>6 DEF Connections!Leave, Phases

(* What a step is for connections: one comes, one goes, or nothing.        *)
LEMMA ComesOrGoes ==
  ASSUME [Next]_vars
  PROVE  \/ \E c \in Client : Connect(c) \/ (stage[c] = "reading" /\ Leaves(c))
         \/ UNCHANGED <<stage, entry, closed>>
<1> DEFINE Same == UNCHANGED <<stage, entry, closed>>
<1> USE DEF conns
<1>1. ASSUME NEW c \in Client, Disconnect(c)
      PROVE  stage[c] = "reading" /\ Leaves(c)
  BY <1>1 DEF Disconnect, Does
<1>2. ASSUME NEW c \in Client,
             SendChallengePanics(c) \/ SendDeclinePanics(c) \/ TellPlayer1Panics(c)
      PROVE  stage[c] = "reading" /\ Leaves(c)
  BY <1>2
  DEF SendChallengePanics, SendDeclinePanics, TellPlayer1Panics, HandlerPanics, Does
<1>3. ASSUME NEW c \in Client,
             \/ MakeChallenge(c) \/ SendChallenge(c) \/ SendDecline(c)
             \/ ReadPlayer1(c) \/ ReadPlayer2(c) \/ StartGame(c)
             \/ TellPlayer1(c) \/ TellPlayer2(c) \/ WriteOne(c) \/ WriterFails(c)
      PROVE  Same
  BY <1>3
  DEF MakeChallenge, SendChallenge, SendDecline, ReadPlayer1, ReadPlayer2, StartGame,
      TellPlayer1, TellPlayer2, WriteOne, WriterFails
<1>4. ASSUME NEW c \in Client, NEW u \in User, ReceiveChallenge(c, u) PROVE Same
  BY <1>4 DEF ReceiveChallenge
<1>5. ASSUME NEW c \in Client, NEW id \in Id, NEW accepted \in BOOLEAN,
             ReceiveResponse(c, id, accepted)
      PROVE  Same
  BY <1>5 DEF ReceiveResponse
<1>6. ASSUME NEW g \in games, GiveUpGame(g) \/ \E d \in Changes : FinishGame(g, d)
      PROVE  Same
  BY <1>6 DEF GiveUpGame, FinishGame
<1>7. CASE UNCHANGED vars
  BY <1>7 DEF vars
<1>8. ASSUME NEW c \in Client, Handle(c)
      PROVE  Same \/ (stage[c] = "reading" /\ Leaves(c))
  BY <1>2, <1>3, <1>8 DEF Handle
<1> HIDE DEF Same
<1>9. CASE \E c \in Client : Connect(c) \/ Disconnect(c) \/ Handle(c)
  BY <1>1, <1>8, <1>9 DEF Same
<1>10. CASE \E c \in Client : WriteOne(c) \/ WriterFails(c)
  BY <1>3, <1>10 DEF Same
<1>11. CASE \/ \E c \in Client, u \in User : ReceiveChallenge(c, u)
            \/ \E c \in Client, id \in Id, accepted \in BOOLEAN :
                 ReceiveResponse(c, id, accepted)
  BY <1>4, <1>5, <1>11 DEF Same
<1>12. CASE \E g \in games : GiveUpGame(g) \/ \E d \in Changes : FinishGame(g, d)
  BY <1>6, <1>12 DEF Same
<1> QED
  BY <1>7, <1>9, <1>10, <1>11, <1>12 DEF Next, Same

(* The hub closes no channel of a connection that is still there.          *)
LEMMA OpenKept ==
  ASSUME TypeOK, OpenUntilGone, [Next]_vars
  PROVE  OpenUntilGone'
<1>1. ASSUME NEW c \in Client, Connect(c) PROVE OpenUntilGone'
  BY <1>1 DEF Connect, TypeOK, OpenUntilGone
<1>2. ASSUME NEW c \in Client, Leaves(c) PROVE OpenUntilGone'
  BY <1>2 DEF Leaves, Closing, TypeOK, OpenUntilGone
<1>3. CASE UNCHANGED <<stage, entry, closed>>
  BY <1>3 DEF OpenUntilGone
<1> QED
  BY <1>1, <1>2, <1>3, ComesOrGoes

(* And so never has.                                                       *)
THEOREM OpenThroughout == Spec => []OpenUntilGone
<1>1. Init => OpenUntilGone
  BY DEF Init, OpenUntilGone
<1>2. TypeOK /\ OpenUntilGone /\ [Next]_vars => OpenUntilGone'
  BY OpenKept
<1> QED
  BY <1>1, <1>2, TypeCorrect, PTL DEF Spec

(* Whatever handlers and games do, connections come and go as Registry has *)
(* them: Challenge supposes of the hub what the hub was shown to do.       *)
THEOREM ConnectionsAreTheHubs == Spec => ImplementsRegistry
<1>1. Init => Connections!Init
  <2> SUFFICES ASSUME Init PROVE Connections!Init
    OBVIOUS
  <2>1. Phases = [c \in Client |-> "new"]
    BY DEF Init, Phases, Phase
  <2> QED
    BY <2>1 DEF Init, Connections!Init, Phases
<1>2. TypeOK /\ OpenUntilGone /\ [Next]_vars => [Connections!Next]_Connections!vars
  <2> SUFFICES ASSUME TypeOK, OpenUntilGone, [Next]_vars
               PROVE  [Connections!Next]_Connections!vars
    OBVIOUS
  <2>1. ASSUME NEW c \in Client, Connect(c) PROVE Connections!Next
    BY <2>1, JoinsOne DEF Connections!Next
  <2>2. ASSUME NEW c \in Client, stage[c] = "reading", Leaves(c) PROVE Connections!Next
    BY <2>2, LeavesOne DEF Connections!Next
  <2>3. CASE UNCHANGED <<stage, entry, closed>>
    <3>1. Phases' = Phases
      BY <2>3 DEF Phases, Phase
    <3> QED
      BY <2>3, <3>1 DEF Connections!vars, Phases
  <2> QED
    BY <2>1, <2>2, <2>3, ComesOrGoes
<1>3. Init /\ [][Next]_vars /\ []TypeOK /\ []OpenUntilGone => Connections!Init /\ [][Connections!Next]_Connections!vars
  BY <1>1, <1>2, PTL
<1> QED
  BY <1>3, TypeCorrect, OpenThroughout, PTL DEF Spec, ImplementsRegistry, Connections!Spec

-----------------------------------------------------------------------------
(* What ends a connection under the handler that runs in its readPump.     *)

LEMMA GoesForACause ==
  ASSUME [Next]_vars
  PROVE  \/ UNCHANGED stage
         \/ \E d \in Client :
              \/ Connect(d) \/ Disconnect(d)
              \/ /\ Leaves(d) /\ task[d].do \in {"send", "decline", "tell_first"}
                 /\ closed[SendsTo(d)]
<1> DEFINE Panics(d) == /\ Leaves(d) /\ task[d].do \in {"send", "decline", "tell_first"}
                        /\ closed[SendsTo(d)]
<1> USE DEF conns
<1>1. ASSUME NEW c \in Client,
             SendChallengePanics(c) \/ SendDeclinePanics(c) \/ TellPlayer1Panics(c)
      PROVE  Panics(c)
  BY <1>1
  DEF SendChallengePanics, SendDeclinePanics, TellPlayer1Panics, HandlerPanics, Does, SendsTo
<1>2. ASSUME NEW c \in Client,
             \/ MakeChallenge(c) \/ SendChallenge(c) \/ SendDecline(c)
             \/ ReadPlayer1(c) \/ ReadPlayer2(c) \/ StartGame(c)
             \/ TellPlayer1(c) \/ TellPlayer2(c) \/ WriteOne(c) \/ WriterFails(c)
      PROVE  UNCHANGED stage
  BY <1>2
  DEF MakeChallenge, SendChallenge, SendDecline, ReadPlayer1, ReadPlayer2, StartGame,
      TellPlayer1, TellPlayer2, WriteOne, WriterFails
<1>3. CASE UNCHANGED vars
  BY <1>3 DEF vars
<1>4. ASSUME NEW c \in Client, Handle(c)
      PROVE  UNCHANGED stage \/ Panics(c)
  <2> HIDE DEF Panics
  <2> QED
    BY <1>1, <1>2, <1>4 DEF Handle
<1>5. CASE \E c \in Client : Connect(c) \/ Disconnect(c) \/ Handle(c)
  BY <1>4, <1>5
<1>6. CASE \E c \in Client : WriteOne(c) \/ WriterFails(c)
  BY <1>2, <1>6
<1>7. CASE \/ \E c \in Client, u \in User : ReceiveChallenge(c, u)
           \/ \E c \in Client, id \in Id, accepted \in BOOLEAN :
                ReceiveResponse(c, id, accepted)
  BY <1>7 DEF ReceiveChallenge, ReceiveResponse
<1>8. CASE \E g \in games : GiveUpGame(g) \/ \E d \in Changes : FinishGame(g, d)
  BY <1>8 DEF GiveUpGame, FinishGame
<1> HIDE DEF Panics
<1> QED
  BY <1>3, <1>5, <1>6, <1>7, <1>8 DEF Next, Panics

(* A handler loses its connection only by a send to another client that is *)
(* gone: whoever's entry it was, no departure closes the channels of a     *)
(* connection that is still there.                                         *)
THEOREM HandlersAreCutOffByTheGone == Spec => CutOffByTheGone
<1> DEFINE Cut(c) == task[c].do # "idle" /\ stage[c] = "reading" /\ stage'[c] = "gone"
<1>1. ASSUME TypeOK, OpenUntilGone, [Next]_vars, NEW c \in Client, Cut(c)
      PROVE  stage[SendsTo(c)] = "gone"
  <2>1. PICK d \in Client :
          \/ Connect(d) \/ Disconnect(d)
          \/ /\ Leaves(d) /\ task[d].do \in {"send", "decline", "tell_first"}
             /\ closed[SendsTo(d)]
    BY <1>1, GoesForACause
  <2>2. d = c /\ ~Connect(d)
    BY <1>1, <2>1 DEF Connect, Disconnect, Leaves, TypeOK
  <2>3. closed[SendsTo(c)] /\ task[c].do \in {"send", "decline", "tell_first"}
    BY <1>1, <2>1, <2>2 DEF Disconnect, Does
  <2>4. SendsTo(c) \in Client
    BY <1>1, <2>3, LocalTypes DEF SendsTo
  <2> QED
    BY <1>1, <2>3, <2>4 DEF OpenUntilGone
<1>2. TypeOK /\ OpenUntilGone /\ [Next]_vars =>
        [\A c \in Client : Cut(c) => stage[SendsTo(c)] = "gone"]_vars
  BY <1>1
<1>3. []TypeOK /\ []OpenUntilGone /\ [][Next]_vars =>
        [][\A c \in Client : Cut(c) => stage[SendsTo(c)] = "gone"]_vars
  BY <1>2, PTL
<1> QED
  BY <1>3, TypeCorrect, OpenThroughout, PTL DEF Spec, CutOffByTheGone

=============================================================================
